----------------------------- MODULE WebClient -----------------------------
(***************************************************************************)
(* AppState and Api of the web client (packages/web/main.dart.js): what is *)
(* shown, and the sign-ins that wait for the server, one request after the *)
(* other.  JavaScript runs one callback at a time, so an action is all     *)
(* that runs between two answers of the server or two gestures of the      *)
(* user, the microtasks of the Dart futures included.                      *)
(*                                                                         *)
(* A profile is abstracted to the login it is of, a schedule to that and   *)
(* the days it lists.  Of a map that the server wrote the first entry may  *)
(* be any.  A redraw follows a notification at once.  Left out are the      *)
(* navigation between the pages of the shell, which touches no shared       *)
(* state, the text of the last error, and a localStorage that refuses.      *)
(***************************************************************************)
EXTENDS Naturals

CONSTANTS
  Logins,        \* what a user may type as login
  Calls,         \* sign-ins that can be under way at once
  Weeks,         \* numbers of weeks
  Days,          \* keys of days
  Timetables,    \* the sets of days a schedule of the server may list
  FirstWeek,     \* 10, the week shown first
  FirstDay,      \* "monday", the day shown first
  Demo,          \* the owner of the schedules of the examples
  DemoSchedules, \* $.demoSchedules as the program is loaded
  Addresses,     \* what the user may enter as the address of the server
  ProfilePaths,  \* 4, the addresses dashboard asks for a profile
  SchedulePaths, \* 3, the addresses it asks for a schedule
  Bare,          \* an answer with a profile and no schedule in it
  None           \* nobody, no map, no usable answer

Schedule == [of : Logins \cup {Demo}, days : SUBSET Days \ {{}}]
Bodies   == [week : Weeks, days : Timetables]

(* What dashboard can make of an answer: a status outside 2xx, a body it    *)
(* cannot read or a lost connection are all None.                           *)
Replies == Bodies \cup {Bare, None}

(* No server set, an address that Uri.parse accepts, one it does not. *)
Bases == {"", "server", "malformed"}

ASSUME ClientAssumption ==
  /\ FirstWeek \in Weeks
  /\ FirstDay \in Days
  /\ Timetables \subseteq SUBSET Days \ {{}}
  /\ DemoSchedules \in [Weeks -> [of : {Demo}, days : SUBSET Days \ {{}}] \cup {None}]
  /\ DemoSchedules[FirstWeek] # None
  /\ Addresses \subseteq Bases
  /\ ProfilePaths \in Nat \ {0}
  /\ SchedulePaths \in Nat \ {0}
  /\ Demo \notin Logins
  /\ Bare # None
  /\ {Bare, None} \cap (Logins \cup {Demo} \cup Schedule \cup Bodies) = {}

VARIABLES
  login,    \* AppState.login
  home,     \* AppState.home
  own,      \* AppState.schedules when it is a map of its own
  shared,   \* whether AppState.schedules is the map $.demoSchedules
  demo,     \* what $.demoSchedules holds
  week,     \* AppState.week
  day,      \* AppState.day
  loading,  \* AppState.loading
  base,     \* AppState.serverUrl and Api._baseUrl, kept in localStorage
  shown,    \* what was drawn last: the shell or the form, its button busy or not
  cookie,   \* the login of the jwt cookie in the browser
  pc,       \* the request each sign-in waits for
  who,      \* its login
  bearer,   \* whether the server gave it a token
  got,      \* the schedule that came with the answer to the login
  at,       \* index of the address asked
  asked,    \* for whom the server takes the request under way
  profile,  \* the profile dashboard has found
  found,    \* the schedules dashboard has found
  hurried   \* history: whether the form was sent while a sign-in was under way
            \* since the page was loaded, and if so, with the latest sign-ins

state    == <<login, home, own, shared, demo, week, day, loading>>
progress == <<pc, who, bearer, got, at, asked, profile, found>>
vars     == <<state, base, progress, shown, cookie, hurried>>

Hurries == {"never", "before", "now"}

Nothing == [w \in Weeks |-> None]

InFlight == \E c \in Calls : pc[c] # "idle"

(* The map AppState.schedules refers to, and the weeks it has. *)
Schedules == IF shared THEN demo ELSE own
Known(map) == {w \in Weeks : map[w] # None}

(* activeSchedule: an unknown week shows the first of the examples. *)
Active(w) == IF Schedules[w] # None THEN Schedules[w] ELSE demo[FirstWeek]

(* The days a schedule can be shown at: the current one when it has it. *)
ShownDays(schedule) == IF day \in schedule.days THEN {day} ELSE schedule.days

(* AppRoot is rebuilt when notifyListeners is called, and only then. *)
Notify == shown' = [shell |-> login' # None, busy |-> loading']

Init ==
  /\ login = None /\ home = None
  /\ own = Nothing /\ shared = FALSE /\ demo = DemoSchedules
  /\ week = FirstWeek /\ day = FirstDay
  /\ loading = FALSE
  /\ base = "" /\ cookie = None
  /\ shown = [shell |-> FALSE, busy |-> FALSE]
  /\ pc      = [c \in Calls |-> "idle"]
  /\ who     = [c \in Calls |-> None]
  /\ bearer  = [c \in Calls |-> FALSE]
  /\ got     = [c \in Calls |-> None]
  /\ at      = [c \in Calls |-> 1]
  /\ asked   = [c \in Calls |-> None]
  /\ profile = [c \in Calls |-> None]
  /\ found   = [c \in Calls |-> Nothing]
  /\ hurried = "never"

-----------------------------------------------------------------------------
(* Sign-ins. *)

(* Mutant of Rest: what a failed sign-in has found is kept for the next. *)
RestKeeping(c) ==
  /\ pc'      = [pc      EXCEPT ![c] = "idle"]
  /\ who'     = [who     EXCEPT ![c] = None]
  /\ bearer'  = [bearer  EXCEPT ![c] = FALSE]
  /\ got'     = [got     EXCEPT ![c] = None]
  /\ at'      = [at      EXCEPT ![c] = 1]
  /\ asked'   = [asked   EXCEPT ![c] = None]
  /\ UNCHANGED <<profile, found>>

(* What signIn and dashboard keep in local variables is gone when they end. *)
Rest(c) ==
  /\ pc'      = [pc      EXCEPT ![c] = "idle"]
  /\ who'     = [who     EXCEPT ![c] = None]
  /\ bearer'  = [bearer  EXCEPT ![c] = FALSE]
  /\ got'     = [got     EXCEPT ![c] = None]
  /\ at'      = [at      EXCEPT ![c] = 1]
  /\ asked'   = [asked   EXCEPT ![c] = None]
  /\ profile' = [profile EXCEPT ![c] = None]
  /\ found'   = [found   EXCEPT ![c] = Nothing]

(* A map of schedules with one more entry, or the same when none came. *)
Filed(map, body, owner) ==
  IF body \in Bodies THEN [map EXCEPT ![body.week] = [of |-> owner, days |-> body.days]] ELSE map

(* Mutant of Show: the day is not looked for in the schedule shown. *)
ShowAnyDay(map, isDemo, w) ==
  /\ shared' = isDemo
  /\ own' = IF isDemo THEN Nothing ELSE map
  /\ \E first \in IF isDemo THEN {FirstWeek} ELSE Known(map) :
       week' = IF map[w] # None THEN w ELSE first
  /\ day' = day
  /\ loading' = FALSE

(* The end of signIn: the schedules become map, w is the current week, and  *)
(* the week and the day are moved to ones the map has; Notify comes last.    *)
Show(map, isDemo, w) ==
  /\ shared' = isDemo
  /\ own' = IF isDemo THEN Nothing ELSE map
  /\ \E first \in IF isDemo THEN {FirstWeek} ELSE Known(map) :
       /\ week' = IF map[w] # None THEN w ELSE first
       /\ day' \in ShownDays(map[week'])
  /\ loading' = FALSE

(* Mutant of Fail: no finally. *)
FailLoading ==
  /\ login' = None /\ home' = None
  /\ own' = Nothing /\ shared' = FALSE
  /\ UNCHANGED loading

(* The catch of signIn, and its finally. *)
Fail ==
  /\ login' = None /\ home' = None
  /\ own' = Nothing /\ shared' = FALSE
  /\ loading' = FALSE

(* The form is sent: by its button, drawn only when no sign-in was loading, *)
(* or by Enter in the field of the password, at any time.                   *)
Send ==
  /\ ~ shown.shell
  /\ hurried' = IF InFlight THEN "now" ELSE IF hurried = "now" THEN "before" ELSE hurried

(* A blank field: nothing is sent, and what was there stays. *)
BlankSignIn ==
  /\ ~ shown.shell
  /\ hurried' = IF InFlight THEN "now" ELSE hurried
  /\ UNCHANGED <<login, home, own, shared, demo, week, day, loading, base, progress, cookie>>
  /\ Notify

(* Without a server everything is answered from the examples, in one go. *)
DemoSignIn(l) ==
  /\ Send
  /\ base = ""
  /\ login' = l /\ home' = l
  /\ Show(demo, TRUE, week)
  /\ UNCHANGED <<demo, base, progress, cookie>>
  /\ Notify

MalformedSignIn ==
  /\ Send
  /\ base = "malformed"
  /\ Fail
  /\ UNCHANGED <<demo, week, day, base, progress, cookie>>
  /\ Notify

(* Mutant of SignIn: the button is not told that a sign-in is loading. *)
SignInQuietly(c, l) ==
  /\ Send
  /\ base = "server"
  /\ pc[c] = "idle"
  /\ pc'  = [pc  EXCEPT ![c] = "login"]
  /\ who' = [who EXCEPT ![c] = l]
  /\ UNCHANGED <<login, home, own, shared, demo, week, day, loading, base,
                 bearer, got, at, asked, profile, found, cookie>>
  /\ Notify

(* A sign-in sends its login to the server and waits for the answer. *)
SignIn(c, l) ==
  /\ Send
  /\ base = "server"
  /\ pc[c] = "idle"
  /\ pc'  = [pc  EXCEPT ![c] = "login"]
  /\ who' = [who EXCEPT ![c] = l]
  /\ loading' = TRUE
  /\ UNCHANGED <<login, home, own, shared, demo, week, day, base,
                 bearer, got, at, asked, profile, found, cookie>>
  /\ Notify

(* The login fails: by a status, by a lost answer, or by a body that cannot *)
(* be read although the server has admitted the login and set its cookie.   *)
Refused(c) ==
  /\ pc[c] = "login"
  /\ Fail
  /\ Rest(c)
  /\ cookie' \in {cookie, who[c]}
  /\ UNCHANGED <<demo, week, day, base, hurried>>
  /\ Notify

(* The server admits a login, with or without a schedule: the program files *)
(* it in the map it has, be that the one of the examples.                   *)
Admitted(c, body) ==
  /\ pc[c] = "login"
  /\ cookie' = who[c]
  /\ demo' = IF shared THEN Filed(demo, body, who[c]) ELSE demo

WeekOf(body) == IF body # None THEN body.week ELSE week

LoginAnswered(c, withToken, withHome, body) ==
  /\ Admitted(c, body)
  /\ base = "server"
  /\ login' = who[c]
  /\ home' = IF withHome THEN who[c] ELSE None
  /\ own' = IF shared THEN own ELSE Filed(own, body, who[c])
  /\ week' = WeekOf(body)
  /\ pc' = [pc EXCEPT ![c] = "profile"]
  /\ bearer' = [bearer EXCEPT ![c] = withToken]
  /\ got' = [got EXCEPT ![c] = IF body # None THEN [of |-> who[c], days |-> body.days] ELSE None]
  /\ asked' = [asked EXCEPT ![c] = who[c]]
  /\ UNCHANGED <<shared, day, loading, base, who, at, profile, found, shown, hurried>>

(* The address was changed while the login was under way: to none, and the  *)
(* examples are shown, or to one that cannot be parsed.                     *)
LoginThenDemo(c, body) ==
  /\ Admitted(c, body)
  /\ base = ""
  /\ login' = who[c] /\ home' = who[c]
  /\ Show(demo', TRUE, WeekOf(body))
  /\ Rest(c)
  /\ UNCHANGED <<base, hurried>>
  /\ Notify

LoginThenMalformed(c, body) ==
  /\ Admitted(c, body)
  /\ base = "malformed"
  /\ week' = WeekOf(body)
  /\ Fail
  /\ Rest(c)
  /\ UNCHANGED <<day, base, hurried>>
  /\ Notify

(* Whom the server takes the sender of the next request for. *)
Identity(c) == IF bearer[c] THEN who[c] ELSE cookie

(* An address of profiles answers; the next one is asked whatever it said,  *)
(* and after the last of them the first one of schedules.                   *)
ProfileAnswered(c, reply) ==
  /\ pc[c] = "profile"
  /\ base # "malformed"
  /\ profile' = [profile EXCEPT ![c] = IF @ = None /\ reply # None THEN asked[c] ELSE @]
  /\ found' = [found EXCEPT ![c] = Filed(@, reply, asked[c])]
  /\ asked' = [asked EXCEPT ![c] = Identity(c)]
  /\ IF at[c] < ProfilePaths
     THEN at' = [at EXCEPT ![c] = @ + 1] /\ pc' = pc
     ELSE at' = [at EXCEPT ![c] = 1] /\ pc' = [pc EXCEPT ![c] = "schedule"]
  /\ UNCHANGED <<state, base, who, bearer, got, shown, cookie, hurried>>

(* The remaining addresses cannot be parsed: those of profiles are skipped, *)
(* the first of schedules ends the sign-in.                                 *)
ProfileThenMalformed(c) ==
  /\ pc[c] = "profile"
  /\ base = "malformed"
  /\ Fail
  /\ Rest(c)
  /\ UNCHANGED <<demo, week, day, base, cookie, hurried>>
  /\ Notify

(* Mutant of NextSchedule: one address too many. *)
NextScheduleBeyond(c) ==
  /\ pc[c] = "schedule"
  /\ at[c] <= SchedulePaths
  /\ at' = [at EXCEPT ![c] = @ + 1]
  /\ asked' = [asked EXCEPT ![c] = Identity(c)]
  /\ UNCHANGED <<state, base, pc, who, bearer, got, profile, found, shown, cookie, hurried>>

(* No schedule at this address: the next one is asked. *)
NextSchedule(c) ==
  /\ pc[c] = "schedule"
  /\ at[c] < SchedulePaths
  /\ at' = [at EXCEPT ![c] = @ + 1]
  /\ asked' = [asked EXCEPT ![c] = Identity(c)]
  /\ UNCHANGED <<state, base, pc, who, bearer, got, profile, found, shown, cookie, hurried>>

(* dashboard returns: at the first schedule, or when all were asked for. *)
Finish(c, reply) ==
  /\ pc[c] = "schedule"
  /\ reply \in Bodies \/ at[c] = SchedulePaths
  /\ home' = IF profile[c] # None THEN profile[c] ELSE IF home # None THEN home ELSE who[c]
  /\ LET remote == Filed(found[c], reply, asked[c])
     IN  \/ /\ remote # Nothing
            /\ Show(remote, FALSE, week)
         \/ /\ remote = Nothing /\ got[c] # None
            /\ Show([Nothing EXCEPT ![week] = got[c]], FALSE, week)
         \/ /\ remote = Nothing /\ got[c] = None
            /\ Show(demo, TRUE, week)
  /\ Rest(c)
  /\ UNCHANGED <<login, demo, base, cookie, hurried>>
  /\ Notify

(* What ends the wait of sign-in c: an answer, or the loss of the request. *)
Answer(c) ==
  \/ Refused(c)
  \/ \E body \in Bodies \cup {None} :
       \/ \E withToken, withHome \in BOOLEAN : LoginAnswered(c, withToken, withHome, body)
       \/ LoginThenDemo(c, body) \/ LoginThenMalformed(c, body)
  \/ \E reply \in Replies : ProfileAnswered(c, reply) \/ Finish(c, reply)
  \/ ProfileThenMalformed(c)
  \/ NextSchedule(c)

-----------------------------------------------------------------------------
(* Gestures in the shell, and the reload of the page. *)

PickWeek(w) ==
  /\ shown.shell
  /\ w \in Known(Schedules) \/ (Known(Schedules) = {} /\ w = week)
  /\ week' = w
  /\ day' \in ShownDays(Active(w))
  /\ UNCHANGED <<login, home, own, shared, demo, loading, base, progress, cookie, hurried>>
  /\ Notify

PickDay(d) ==
  /\ shown.shell
  /\ d \in Active(week).days
  /\ day' = d
  /\ UNCHANGED <<login, home, own, shared, demo, week, loading,
                 base, progress, cookie, hurried>>
  /\ Notify

(* The address of the server is entered on the page of settings. *)
SetServerUrl(address) ==
  /\ shown.shell
  /\ base' = address
  /\ UNCHANGED <<state, progress, cookie, hurried>>
  /\ Notify

(* Mutant of SignOut: the map of schedules is emptied, not replaced. *)
SignOutClearing ==
  /\ shown.shell
  /\ login' = None /\ home' = None
  /\ own' = Nothing /\ shared' = FALSE
  /\ demo' = IF shared THEN Nothing ELSE demo
  /\ week' = FirstWeek /\ day' = FirstDay
  /\ UNCHANGED <<loading, base, progress, cookie, hurried>>
  /\ Notify

(* Mutant of SignOut: the profile stays. *)
SignOutKeeping ==
  /\ shown.shell
  /\ login' = None
  /\ own' = Nothing /\ shared' = FALSE
  /\ week' = FirstWeek /\ day' = FirstDay
  /\ UNCHANGED <<home, demo, loading, base, progress, cookie, hurried>>
  /\ Notify

(* The form is back, and the requests under way go on. *)
SignOut ==
  /\ shown.shell
  /\ login' = None /\ home' = None
  /\ own' = Nothing /\ shared' = FALSE
  /\ week' = FirstWeek /\ day' = FirstDay
  /\ UNCHANGED <<demo, loading, base, progress, cookie, hurried>>
  /\ Notify

(* Only localStorage and the cookies outlive a reload. *)
Reload ==
  /\ login' = None /\ home' = None
  /\ own' = Nothing /\ shared' = FALSE /\ demo' = DemoSchedules
  /\ week' = FirstWeek /\ day' = FirstDay
  /\ loading' = FALSE
  /\ pc'      = [c \in Calls |-> "idle"]
  /\ who'     = [c \in Calls |-> None]
  /\ bearer'  = [c \in Calls |-> FALSE]
  /\ got'     = [c \in Calls |-> None]
  /\ at'      = [c \in Calls |-> 1]
  /\ asked'   = [c \in Calls |-> None]
  /\ profile' = [c \in Calls |-> None]
  /\ found'   = [c \in Calls |-> Nothing]
  /\ hurried' = "never"
  /\ UNCHANGED <<base, cookie>>
  /\ Notify

Next ==
  \/ BlankSignIn \/ MalformedSignIn
  \/ \E l \in Logins : DemoSignIn(l) \/ \E c \in Calls : SignIn(c, l)
  \/ \E c \in Calls : Answer(c)
  \/ \E w \in Weeks : PickWeek(w)
  \/ \E d \in Days : PickDay(d)
  \/ \E address \in Addresses : SetServerUrl(address)
  \/ SignOut \/ Reload

Spec == Init /\ [][Next]_vars

-----------------------------------------------------------------------------
Maps == [Weeks -> Schedule \cup {None}]

(* Every variable keeps its type, and dashboard stays within its lists of   *)
(* addresses.                                                               *)
TypeOK ==
  /\ login \in Logins \cup {None} /\ home \in Logins \cup {None}
  /\ own \in Maps /\ demo \in Maps /\ shared \in BOOLEAN
  /\ week \in Weeks /\ day \in Days
  /\ loading \in BOOLEAN
  /\ base \in Bases
  /\ shown \in [shell : BOOLEAN, busy : BOOLEAN]
  /\ cookie \in Logins \cup {None}
  /\ pc \in [Calls -> {"idle", "login", "profile", "schedule"}]
  /\ who \in [Calls -> Logins \cup {None}]
  /\ bearer \in [Calls -> BOOLEAN]
  /\ got \in [Calls -> Schedule \cup {None}]
  /\ at \in [Calls -> Nat \ {0}]
  /\ asked \in [Calls -> Logins \cup {None}]
  /\ profile \in [Calls -> Logins \cup {None}]
  /\ found \in [Calls -> Maps]
  /\ hurried \in Hurries
  /\ \A c \in Calls : /\ pc[c] = "profile"  => at[c] <= ProfilePaths
                      /\ pc[c] = "schedule" => at[c] <= SchedulePaths

(* The profile and the schedules drawn for a login are that login's, or the *)
(* map of the examples: a sign-in mixes in what the server sends another    *)
(* only if the form was sent again while it was under way.  Whatever such   *)
(* sign-ins have left behind, the next one that is alone shows nothing of.  *)
MixNeedsHurry ==
  shown.shell /\ hurried # "now" =>
    /\ home = login
    /\ ~ shared => \A w \in Known(own) : own[w].of = login

(* main.dart.js:199370 disables the button of the form while a sign-in is   *)
(* loading: unless Enter was used, it is enabled only when nothing is under *)
(* way, so it alone never starts a second sign-in.                          *)
ButtonWaits == hurried # "now" /\ ~ shown.shell => (shown.busy <=> InFlight)

(* The form is never left disabled: whatever sign-ins overlap and however   *)
(* they end, the last of them enables the button again.                     *)
NeverStuckBusy == loading \/ shown.busy => InFlight

(* The examples are one map for the whole program.  Whatever sign-ins       *)
(* overlap, none of its weeks is lost, so that activeSchedule always has    *)
(* the one it falls back to; and it is written to only if the form was sent *)
(* while a sign-in was under way: then main.dart.js:199239 may file the     *)
(* schedule of a login in it, where it stays until the page is reloaded.    *)
ExamplesStay ==
  /\ Known(DemoSchedules) \subseteq Known(demo)
  /\ hurried = "never" => demo = DemoSchedules

(* Whatever sign-ins overlap, in whatever order they end and however, once  *)
(* the last has ended what is drawn in the shell exists: the week chosen is *)
(* one of the weeks offered and the day is one of its days.  (While one is  *)
(* still under way behind the shell, its login's answer sets the week to    *)
(* one that need not have the day.)                                         *)
SelectionExists ==
  shown.shell /\ ~ InFlight => week \in Known(Schedules) /\ day \in Schedules[week].days

(* With nobody signed in and nothing under way, after a sign-out or after a *)
(* sign-in that failed at whatever request, no profile and no schedule is   *)
(* left, unless the latest sign-ins overlapped: when one of those fails     *)
(* before another ends, what the other gets stays behind the form.          *)
NothingLeft ==
  login = None /\ ~ InFlight /\ hurried # "now" => home = None /\ ~ shared /\ own = Nothing
=============================================================================
