-------------------------- MODULE WebClientProofs --------------------------
(***************************************************************************)
(* Proofs about WebClient: its type, what holds however sign-ins overlap,  *)
(* and what is drawn as long as the latest of them did not overlap.        *)
(***************************************************************************)
EXTENDS WebClient, TLAPS

(* The type, with what typing the steps needs: a sign-in has a login, the   *)
(* server takes the requests of dashboard for somebody, and the first week  *)
(* of the examples is always there.                                         *)
Typed ==
  /\ TypeOK
  /\ demo[FirstWeek] # None
  /\ \A c \in Calls :
       /\ pc[c] # "idle" => who[c] \in Logins
       /\ pc[c] \in {"idle", "login"} => at[c] = 1
       /\ pc[c] \in {"profile", "schedule"} => asked[c] \in Logins /\ cookie \in Logins

(* A map stays a map when a schedule is filed in it. *)
LEMMA FiledType ==
  ASSUME NEW map \in Maps, NEW body \in Replies, NEW owner \in Logins
  PROVE  Filed(map, body, owner) \in Maps
  <1>1. CASE body \in Bodies
    <2>1. body.week \in Weeks /\ body.days \in Timetables  BY <1>1 DEF Bodies
    <2>2. [of |-> owner, days |-> body.days] \in Schedule  BY <2>1, ClientAssumption DEF Schedule
    <2> QED  BY <1>1, <2>1, <2>2 DEF Filed, Maps
  <1>2. CASE body \notin Bodies  BY <1>2 DEF Filed
  <1> QED  BY <1>1, <1>2

(* The empty map is a map. *)
LEMMA NothingType == Nothing \in Maps
  BY DEF Nothing, Maps

(* What the end of a sign-in makes the current week and day: ones the map   *)
(* has; the first week must be there when the map is the examples.          *)
LEMMA ShowType ==
  ASSUME TypeOK, NEW map \in Maps, NEW isDemo \in BOOLEAN, NEW w \in Weeks,
         isDemo => map[FirstWeek] # None,
         Show(map, isDemo, w)
  PROVE  /\ own' \in Maps /\ shared' = isDemo /\ loading' = FALSE
         /\ own' = IF isDemo THEN Nothing ELSE map
         /\ week' \in Weeks /\ map[week'] \in Schedule
         /\ day' \in map[week'].days /\ day' \in Days
  <1>1. PICK first \in IF isDemo THEN {FirstWeek} ELSE Known(map) :
          /\ week' = IF map[w] # None THEN w ELSE first
          /\ day' \in ShownDays(map[week'])
    BY DEF Show
  <1>2. first \in Weeks /\ map[first] # None
    BY <1>1, ClientAssumption DEF Known
  <1>3. week' \in Weeks /\ map[week'] # None
    BY <1>1, <1>2
  <1>4. map[week'] \in Schedule
    BY <1>3 DEF Maps
  <1>5. map[week'].days \subseteq Days
    BY <1>4, ClientAssumption DEF Schedule
  <1>6. day' \in map[week'].days /\ day' \in Days
    BY <1>1, <1>5 DEF ShownDays, TypeOK
  <1>7. own' \in Maps
    BY NothingType DEF Show
  <1> QED  BY <1>3, <1>4, <1>6, <1>7 DEF Show

(* The two halves of Typed. *)
StateTyped ==
  /\ login \in Logins \cup {None} /\ home \in Logins \cup {None}
  /\ own \in Maps /\ demo \in Maps /\ shared \in BOOLEAN
  /\ week \in Weeks /\ day \in Days
  /\ loading \in BOOLEAN
  /\ base \in Bases
  /\ shown \in [shell : BOOLEAN, busy : BOOLEAN]
  /\ hurried \in Hurries
  /\ demo[FirstWeek] # None

CallsTyped ==
  /\ cookie \in Logins \cup {None}
  /\ pc \in [Calls -> {"idle", "login", "profile", "schedule"}]
  /\ who \in [Calls -> Logins \cup {None}]
  /\ bearer \in [Calls -> BOOLEAN]
  /\ got \in [Calls -> Schedule \cup {None}]
  /\ at \in [Calls -> Nat \ {0}]
  /\ asked \in [Calls -> Logins \cup {None}]
  /\ profile \in [Calls -> Logins \cup {None}]
  /\ found \in [Calls -> Maps]
  /\ \A c \in Calls :
       /\ pc[c] = "profile"  => at[c] <= ProfilePaths
       /\ pc[c] = "schedule" => at[c] <= SchedulePaths
       /\ pc[c] # "idle" => who[c] \in Logins
       /\ pc[c] \in {"idle", "login"} => at[c] = 1
       /\ pc[c] \in {"profile", "schedule"} => asked[c] \in Logins /\ cookie \in Logins

(* They are Typed. *)
LEMMA TypedHalves == Typed <=> StateTyped /\ CallsTyped
  BY DEF Typed, TypeOK, StateTyped, CallsTyped

(* A step that touches no sign-in keeps the types of the sign-ins. *)
LEMMA CallsStutter == CallsTyped /\ UNCHANGED <<progress, cookie>> => CallsTyped'
  BY DEF CallsTyped, progress

(* So does one that ends a sign-in. *)
LEMMA RestTyped ==
  ASSUME CallsTyped, NEW c \in Calls, Rest(c),
         cookie' \in Logins \cup {None}, cookie \in Logins => cookie' \in Logins
  PROVE  CallsTyped'
  BY NothingType DEF CallsTyped, Rest

(* And one that leaves the cookie alone. *)
LEMMA RestKept ==
  ASSUME CallsTyped, NEW c \in Calls, Rest(c), UNCHANGED cookie
  PROVE  CallsTyped'
  <1>1. cookie \in Logins \cup {None}  BY DEF CallsTyped
  <1> QED  BY <1>1, RestTyped

(* A step that touches nothing shown keeps the types of what is. *)
LEMMA StateStutter == StateTyped /\ UNCHANGED <<state, base, shown, hurried>> => StateTyped'
  BY DEF StateTyped, state

(* Filing a schedule in the examples keeps the first week there. *)
LEMMA FiledFirst ==
  ASSUME NEW map \in Maps, NEW body \in Replies, NEW owner \in Logins, map[FirstWeek] # None
  PROVE  Filed(map, body, owner)[FirstWeek] # None
  <1>1. CASE body \in Bodies
    <2>1. body.week \in Weeks /\ body.days \in Timetables  BY <1>1 DEF Bodies
    <2>2. [of |-> owner, days |-> body.days] \in Schedule  BY <2>1, ClientAssumption DEF Schedule
    <2>3. [of |-> owner, days |-> body.days] # None  BY <2>2, ClientAssumption
    <2> QED  BY <1>1, <2>1, <2>3, ClientAssumption DEF Filed, Maps
  <1>2. CASE body \notin Bodies  BY <1>2 DEF Filed
  <1> QED  BY <1>1, <1>2

(* Notify draws a typed screen. *)
LEMMA NotifyType == Notify /\ loading' \in BOOLEAN => shown' \in [shell : BOOLEAN, busy : BOOLEAN]
  BY DEF Notify

(* What Fail leaves behind is typed. *)
LEMMA FailType ==
  Fail => /\ login' = None /\ home' = None /\ own' = Nothing /\ own' \in Maps
          /\ shared' = FALSE /\ loading' = FALSE
  BY NothingType DEF Fail

(* Every step keeps the types. *)
LEMMA TypedStep == Typed /\ [Next]_vars => Typed'
  <1> SUFFICES ASSUME Typed, [Next]_vars
               PROVE  StateTyped' /\ CallsTyped'
    BY TypedHalves, PTL
  <1> USE TypedHalves
  <1>t. TypeOK /\ StateTyped /\ CallsTyped  BY DEF Typed
  <1>h. /\ Send => hurried' \in Hurries
        /\ BlankSignIn => hurried' \in Hurries
    BY <1>t DEF Send, BlankSignIn, StateTyped, Hurries
  <1>1. CASE BlankSignIn
    <2>1. CallsTyped'  BY <1>1, <1>t, CallsStutter DEF BlankSignIn
    <2>2. StateTyped'  BY <1>1, <1>t, <1>h, NotifyType DEF BlankSignIn, StateTyped
    <2> QED  BY <2>1, <2>2
  <1>2. CASE MalformedSignIn
    <2>1. CallsTyped'  BY <1>2, <1>t, CallsStutter DEF MalformedSignIn
    <2>2. StateTyped'  BY <1>2, <1>t, <1>h, NotifyType, FailType DEF MalformedSignIn, StateTyped
    <2> QED  BY <2>1, <2>2
  <1>3. ASSUME NEW l \in Logins, DemoSignIn(l)  PROVE  StateTyped' /\ CallsTyped'
    <2>1. CallsTyped'  BY <1>3, <1>t, CallsStutter DEF DemoSignIn
    <2>2. Show(demo, TRUE, week) /\ demo \in Maps /\ week \in Weeks /\ demo[FirstWeek] # None
      BY <1>3, <1>t DEF DemoSignIn, StateTyped
    <2>3. own' \in Maps /\ shared' = TRUE /\ loading' = FALSE /\ week' \in Weeks /\ day' \in Days
      BY <2>2, <1>t, ShowType
    <2>4. StateTyped'  BY <1>3, <1>t, <1>h, <2>3, NotifyType DEF DemoSignIn, StateTyped
    <2> QED  BY <2>1, <2>4
  <1>4. ASSUME NEW c \in Calls, NEW l \in Logins, SignIn(c, l)  PROVE  StateTyped' /\ CallsTyped'
    <2>1. CallsTyped'  BY <1>4, <1>t DEF SignIn, CallsTyped
    <2>2. StateTyped'  BY <1>4, <1>t, <1>h, NotifyType DEF SignIn, StateTyped
    <2> QED  BY <2>1, <2>2
  <1>5. ASSUME NEW c \in Calls, Answer(c)  PROVE  StateTyped' /\ CallsTyped'
    <2>w. pc[c] # "idle" => who[c] \in Logins  BY <1>t DEF CallsTyped
    <2>1. CASE Refused(c)
      <3>1. CallsTyped'
        <4>1. cookie \in Logins \cup {None}  BY <1>t DEF CallsTyped
        <4>2. who[c] \in Logins  BY <2>1, <2>w DEF Refused
        <4>3. Rest(c) /\ cookie' \in {cookie, who[c]}  BY <2>1 DEF Refused
        <4> QED  BY <4>1, <4>2, <4>3, <1>t, RestTyped
      <3>2. StateTyped'  BY <2>1, <1>t, NotifyType, FailType DEF Refused, StateTyped
      <3> QED  BY <3>1, <3>2
    <2>2. ASSUME NEW body \in Bodies \cup {None}, Admitted(c, body)
          PROVE  /\ demo' \in Maps /\ demo'[FirstWeek] # None
                 /\ who[c] \in Logins /\ cookie' = who[c]
                 /\ WeekOf(body) \in Weeks
                 /\ Filed(own, body, who[c]) \in Maps
                 /\ body # None => [of |-> who[c], days |-> body.days] \in Schedule
      <3>1. who[c] \in Logins  BY <2>2, <2>w DEF Admitted
      <3>2. body \in Replies  BY DEF Replies
      <3>3. Filed(demo, body, who[c]) \in Maps /\ Filed(own, body, who[c]) \in Maps
        BY <1>t, <3>1, <3>2, FiledType DEF StateTyped
      <3>4. Filed(demo, body, who[c])[FirstWeek] # None
        BY <1>t, <3>1, <3>2, FiledFirst DEF StateTyped
      <3>5. demo' \in Maps /\ demo'[FirstWeek] # None
        BY <1>t, <2>2, <3>3, <3>4 DEF Admitted, StateTyped
      <3>6. body # None => body.week \in Weeks /\ body.days \in Timetables  BY DEF Bodies
      <3>7. WeekOf(body) \in Weeks  BY <3>6, <1>t DEF WeekOf, StateTyped
      <3>8. body # None => [of |-> who[c], days |-> body.days] \in Schedule  BY <3>6, <3>1, ClientAssumption DEF Schedule
      <3> QED  BY <2>2, <3>1, <3>3, <3>5, <3>7, <3>8 DEF Admitted
    <2>3. ASSUME NEW body \in Bodies \cup {None}, NEW withToken \in BOOLEAN, NEW withHome \in BOOLEAN,
                 LoginAnswered(c, withToken, withHome, body)
          PROVE  StateTyped' /\ CallsTyped'
      <3>1. Admitted(c, body)  BY <2>3 DEF LoginAnswered
      <3>2. StateTyped'  BY <2>2, <2>3, <3>1, <1>t DEF LoginAnswered, StateTyped
      <3>3. CallsTyped'
        <4>1. at' \in [Calls -> Nat \ {0}] /\ profile' \in [Calls -> Logins \cup {None}] /\ found' \in [Calls -> Maps]
          BY <2>3, <1>t DEF LoginAnswered, CallsTyped
        <4>2. got' \in [Calls -> Schedule \cup {None}] /\ bearer' \in [Calls -> BOOLEAN]
          BY <2>2, <2>3, <3>1, <1>t DEF LoginAnswered, CallsTyped
        <4>3. /\ pc' \in [Calls -> {"idle", "login", "profile", "schedule"}]
              /\ who' \in [Calls -> Logins \cup {None}] /\ asked' \in [Calls -> Logins \cup {None}]
          BY <2>2, <2>3, <3>1, <1>t DEF LoginAnswered, CallsTyped
        <4>4. cookie' \in Logins  BY <2>2, <3>1
        <4>5. /\ pc' = [pc EXCEPT ![c] = "profile"] /\ pc[c] = "login" /\ UNCHANGED <<who, at>>
              /\ asked' = [asked EXCEPT ![c] = who[c]] /\ who[c] \in Logins
          BY <2>2, <2>3, <3>1 DEF LoginAnswered, Admitted
        <4>6. at[c] = 1  BY <4>5, <1>t DEF CallsTyped
        <4>7. ASSUME NEW d \in Calls
              PROVE  /\ pc'[d] = "profile"  => at'[d] <= ProfilePaths
                     /\ pc'[d] = "schedule" => at'[d] <= SchedulePaths
                     /\ pc'[d] # "idle" => who'[d] \in Logins
                     /\ pc'[d] \in {"idle", "login"} => at'[d] = 1
                     /\ pc'[d] \in {"profile", "schedule"} => asked'[d] \in Logins
          BY <4>5, <4>6, <1>t, ClientAssumption DEF CallsTyped
        <4> QED  BY <4>1, <4>2, <4>3, <4>4, <4>7 DEF CallsTyped
      <3> QED  BY <3>2, <3>3
    <2>4. ASSUME NEW body \in Bodies \cup {None}, LoginThenDemo(c, body)
          PROVE  StateTyped' /\ CallsTyped'
      <3>1. Admitted(c, body)  BY <2>4 DEF LoginThenDemo
      <3>2. Show(demo', TRUE, WeekOf(body))  BY <2>4 DEF LoginThenDemo
      <3>3. own' \in Maps /\ shared' = TRUE /\ loading' = FALSE /\ week' \in Weeks /\ day' \in Days
        BY <1>t, <2>2, <3>1, <3>2, ShowType
      <3>4. StateTyped'  BY <2>2, <2>4, <3>1, <3>3, <1>t, NotifyType DEF LoginThenDemo, StateTyped
      <3>5. CallsTyped'  BY <2>2, <2>4, <3>1, <1>t, RestTyped DEF LoginThenDemo
      <3> QED  BY <3>4, <3>5
    <2>5. ASSUME NEW body \in Bodies \cup {None}, LoginThenMalformed(c, body)
          PROVE  StateTyped' /\ CallsTyped'
      <3>1. Admitted(c, body)  BY <2>5 DEF LoginThenMalformed
      <3>2. StateTyped'
        BY <2>2, <2>5, <3>1, <1>t, NotifyType, FailType DEF LoginThenMalformed, StateTyped
      <3>3. CallsTyped'  BY <2>2, <2>5, <3>1, <1>t, RestTyped DEF LoginThenMalformed
      <3> QED  BY <3>2, <3>3
    <2>6. ASSUME NEW reply \in Replies, ProfileAnswered(c, reply)  PROVE  StateTyped' /\ CallsTyped'
      <3>1. StateTyped'  BY <2>6, <1>t, StateStutter DEF ProfileAnswered
      <3>2. asked[c] \in Logins /\ cookie \in Logins /\ who[c] \in Logins
        BY <2>6, <1>t DEF ProfileAnswered, CallsTyped
      <3>3. Filed(found[c], reply, asked[c]) \in Maps
        BY <3>2, <1>t, FiledType DEF CallsTyped
      <3>4. Identity(c) \in Logins  BY <3>2 DEF Identity
      <3>5. found' \in [Calls -> Maps]  BY <2>6, <3>3, <1>t DEF ProfileAnswered, CallsTyped
      <3>6. profile' \in [Calls -> Logins \cup {None}]
        BY <2>6, <3>2, <1>t DEF ProfileAnswered, CallsTyped
      <3>7. asked' \in [Calls -> Logins \cup {None}] /\ asked'[c] \in Logins
        BY <2>6, <3>4, <1>t DEF ProfileAnswered, CallsTyped
      <3>8. /\ at' \in [Calls -> Nat \ {0}] /\ pc' \in [Calls -> {"idle", "login", "profile", "schedule"}]
            /\ \A d \in Calls : /\ pc'[d] = "profile"  => at'[d] <= ProfilePaths
                                /\ pc'[d] = "schedule" => at'[d] <= SchedulePaths
        BY <2>6, <1>t, ClientAssumption DEF ProfileAnswered, CallsTyped
      <3>9. \A d \in Calls : /\ pc'[d] \in {"profile", "schedule"} => asked'[d] \in Logins
                             /\ pc'[d] \in {"idle", "login"} => at'[d] = 1
        BY <2>6, <3>7, <1>t DEF ProfileAnswered, CallsTyped
      <3>10. \A d \in Calls : pc'[d] # "idle" => pc[d] # "idle"
        BY <2>6, <1>t DEF ProfileAnswered, CallsTyped
      <3>11. UNCHANGED <<who, bearer, got, cookie>>  BY <2>6 DEF ProfileAnswered
      <3>12. \A d \in Calls : /\ pc'[d] # "idle" => who'[d] \in Logins
                              /\ pc'[d] \in {"profile", "schedule"} => cookie' \in Logins
        BY <3>2, <3>10, <3>11, <1>t DEF CallsTyped
      <3>13. /\ who' \in [Calls -> Logins \cup {None}] /\ bearer' \in [Calls -> BOOLEAN]
             /\ got' \in [Calls -> Schedule \cup {None}] /\ cookie' \in Logins \cup {None}
        BY <3>11, <1>t DEF CallsTyped
      <3>14. \A d \in Calls :
               /\ pc'[d] = "profile"  => at'[d] <= ProfilePaths
               /\ pc'[d] = "schedule" => at'[d] <= SchedulePaths
               /\ pc'[d] # "idle" => who'[d] \in Logins
               /\ pc'[d] \in {"idle", "login"} => at'[d] = 1
               /\ pc'[d] \in {"profile", "schedule"} => asked'[d] \in Logins /\ cookie' \in Logins
        BY <3>8, <3>9, <3>12
      <3>15. CallsTyped'
        BY <3>5, <3>6, <3>7, <3>8, <3>13, <3>14 DEF CallsTyped
      <3> QED  BY <3>1, <3>15
    <2>7. ASSUME NEW reply \in Replies, Finish(c, reply)  PROVE  StateTyped' /\ CallsTyped'
      <3>1. CallsTyped'  BY <2>7, <1>t, RestKept DEF Finish
      <3>2. asked[c] \in Logins /\ who[c] \in Logins /\ found[c] \in Maps
            /\ profile[c] \in Logins \cup {None} /\ got[c] \in Schedule \cup {None}
        BY <2>7, <1>t DEF Finish, CallsTyped
      <3>3. home' \in Logins \cup {None}  BY <2>7, <3>2, <1>t DEF Finish, StateTyped
      <3> DEFINE remote == Filed(found[c], reply, asked[c])
      <3>4. remote \in Maps  BY <3>2, FiledType
      <3>5. \/ Show(remote, FALSE, week)
            \/ got[c] # None /\ Show([Nothing EXCEPT ![week] = got[c]], FALSE, week)
            \/ Show(demo, TRUE, week)
        BY <2>7 DEF Finish
      <3>6. got[c] # None => [Nothing EXCEPT ![week] = got[c]] \in Maps
        BY <3>2, NothingType DEF Maps
      <3>7. own' \in Maps /\ shared' \in BOOLEAN /\ loading' = FALSE /\ week' \in Weeks /\ day' \in Days
        <4> HIDE DEF remote
        <4>1. CASE Show(remote, FALSE, week)
          BY <4>1, <3>4, <1>t, ShowType DEF StateTyped
        <4>2. CASE got[c] # None /\ Show([Nothing EXCEPT ![week] = got[c]], FALSE, week)
          BY <4>2, <3>6, <1>t, ShowType DEF StateTyped
        <4>3. CASE Show(demo, TRUE, week)
          BY <4>3, <1>t, ShowType DEF StateTyped
        <4> QED  BY <3>5, <4>1, <4>2, <4>3
      <3>8. StateTyped'  BY <2>7, <3>3, <3>7, <1>t, NotifyType DEF Finish, StateTyped
      <3> QED  BY <3>1, <3>8
    <2>8. CASE ProfileThenMalformed(c)
      <3>1. CallsTyped'  BY <2>8, <1>t, RestKept DEF ProfileThenMalformed
      <3>2. StateTyped'  BY <2>8, <1>t, NotifyType, FailType DEF ProfileThenMalformed, StateTyped
      <3> QED  BY <3>1, <3>2
    <2>9. CASE NextSchedule(c)
      <3>1. StateTyped'  BY <2>9, <1>t, StateStutter DEF NextSchedule
      <3>2. Identity(c) \in Logins  BY <2>9, <1>t DEF NextSchedule, Identity, CallsTyped
      <3>3. CallsTyped'  BY <2>9, <3>2, <1>t, ClientAssumption DEF NextSchedule, CallsTyped
      <3> QED  BY <3>1, <3>3
    <2> QED  BY <1>5, <2>1, <2>3, <2>4, <2>5, <2>6, <2>7, <2>8, <2>9 DEF Answer
  <1>6. ASSUME NEW w \in Weeks, PickWeek(w)  PROVE  StateTyped' /\ CallsTyped'
    <2>1. CallsTyped'  BY <1>6, <1>t, CallsStutter DEF PickWeek
    <2>2. Active(w) \in Schedule
      BY <1>t, ClientAssumption DEF Active, Schedules, StateTyped, Maps
    <2>3. day' \in Days  BY <1>6, <2>2, <1>t, ClientAssumption DEF PickWeek, ShownDays, Schedule, StateTyped
    <2>4. StateTyped'  BY <1>6, <2>3, <1>t, NotifyType DEF PickWeek, StateTyped
    <2> QED  BY <2>1, <2>4
  <1>7. ASSUME NEW d \in Days, PickDay(d)  PROVE  StateTyped' /\ CallsTyped'
    <2>1. CallsTyped'  BY <1>7, <1>t, CallsStutter DEF PickDay
    <2>2. StateTyped'  BY <1>7, <1>t, NotifyType DEF PickDay, StateTyped
    <2> QED  BY <2>1, <2>2
  <1>8. ASSUME NEW address \in Addresses, SetServerUrl(address)  PROVE  StateTyped' /\ CallsTyped'
    <2>1. CallsTyped'  BY <1>8, <1>t, CallsStutter DEF SetServerUrl
    <2>2. StateTyped'  BY <1>8, <1>t, NotifyType, ClientAssumption DEF SetServerUrl, StateTyped, state
    <2> QED  BY <2>1, <2>2
  <1>9. CASE SignOut
    <2>1. CallsTyped'  BY <1>9, <1>t, CallsStutter DEF SignOut
    <2>2. StateTyped'
      BY <1>9, <1>t, NotifyType, NothingType, ClientAssumption DEF SignOut, StateTyped
    <2> QED  BY <2>1, <2>2
  <1>10. CASE Reload
    <2>1. CallsTyped'  BY <1>10, <1>t, NothingType DEF Reload, CallsTyped
    <2>2. DemoSchedules \in Maps  BY ClientAssumption DEF Maps, Schedule
    <2>3. StateTyped'
      BY <1>10, <2>2, <1>t, NotifyType, NothingType, ClientAssumption DEF Reload, StateTyped, Hurries
    <2> QED  BY <2>1, <2>3
  <1>11. CASE UNCHANGED vars
    BY <1>11, <1>t, StateStutter, CallsStutter DEF vars
  <1> QED
    BY <1>1, <1>2, <1>3, <1>4, <1>5, <1>6, <1>7, <1>8, <1>9, <1>10, <1>11 DEF Next

(* The program starts well typed. *)
LEMMA TypedInit == Init => Typed
  <1> SUFFICES ASSUME Init PROVE Typed  OBVIOUS
  <1>1. DemoSchedules \in Maps  BY ClientAssumption DEF Maps, Schedule
  <1>2. StateTyped  BY <1>1, NothingType, ClientAssumption DEF Init, StateTyped, Bases, Hurries
  <1>3. CallsTyped
    <2>1. \A c \in Calls : pc[c] = "idle" /\ at[c] = 1  BY DEF Init
    <2>2. at \in [Calls -> Nat \ {0}]
      <3>1. 1 \in Nat \ {0}  OBVIOUS
      <3>2. at = [c \in Calls |-> 1]  BY DEF Init
      <3> QED  BY <3>1, <3>2, Zenon
    <2>5. found \in [Calls -> Maps]  BY NothingType DEF Init
    <2>3. /\ cookie \in Logins \cup {None} /\ bearer \in [Calls -> BOOLEAN]
          /\ pc \in [Calls -> {"idle", "login", "profile", "schedule"}]
      BY DEF Init
    <2>4. /\ who \in [Calls -> Logins \cup {None}] /\ got \in [Calls -> Schedule \cup {None}]
          /\ asked \in [Calls -> Logins \cup {None}] /\ profile \in [Calls -> Logins \cup {None}]
      BY DEF Init
    <2> QED  BY <2>1, <2>2, <2>3, <2>4, <2>5 DEF CallsTyped
  <1> QED  BY <1>2, <1>3, TypedHalves

(* For every set of users, sign-ins, weeks and days and every number of     *)
(* addresses, the variables keep their types and dashboard its bounds.      *)
THEOREM WebClientTypeCorrect == Spec => []TypeOK
  <1>1. Typed => TypeOK  BY DEF Typed
  <1> QED  BY <1>1, TypedInit, TypedStep, PTL DEF Spec

-----------------------------------------------------------------------------
(* The invariant behind the properties of what is drawn. *)

(* Nothing of a user is left. *)
Clean == home = None /\ ~ shared /\ own = Nothing

(* All the schedules of a map are those of l. *)
OwnedBy(map, l) == \A w \in Weeks : map[w] # None => map[w].of = l

(* A place for a sign-in that holds none is empty. *)
Resting(c) == profile[c] = None /\ got[c] = None /\ found[c] = Nothing

(* What is drawn when no sign-in is under way, whatever overlapped before.   *)
Drawn ==
  /\ loading = FALSE /\ shown = [shell |-> login # None, busy |-> FALSE]
  /\ login # None => week \in Known(Schedules) /\ day \in Schedules[week].days

(* No week of the examples is lost. *)
DemoWhole == Known(DemoSchedules) \subseteq Known(demo)

(* Whose it is, when the latest sign-ins did not overlap.                    *)
Settled ==
  /\ login = None => Clean
  /\ login # None => home = login /\ (~ shared => OwnedBy(own, login))

(* What a sign-in has found, while it is the only one, is of its login.      *)
Gathered(c) ==
  /\ who[c] = login /\ cookie = login /\ asked[c] = login
  /\ home \in {None, login} /\ profile[c] \in {None, login}
  /\ got[c] # None => got[c].of = login
  /\ OwnedBy(found[c], login)

(* A sign-in under way, as long as it is alone.  Before its login is        *)
(* answered the program may still hold what overlapping ones left behind.   *)
Pending(c) ==
  /\ loading /\ shown = [shell |-> FALSE, busy |-> TRUE]
  /\ hurried = "never" => ~ shared
  /\ pc[c] = "login" => login = None /\ Resting(c)
  /\ pc[c] # "login" => Gathered(c)

(* At most one sign-in is under way, and all is its user's. *)
Alone ==
  /\ \A c, d \in Calls : pc[c] # "idle" /\ pc[d] # "idle" => c = d
  /\ \A c \in Calls : pc[c] # "idle" => Pending(c)
  /\ ~ InFlight => Settled

(* The first four hold of every history, the fifth of one without overlaps, *)
(* the last of one whose latest sign-ins did not overlap.                   *)
IInv ==
  /\ NeverStuckBusy
  /\ \A c \in Calls : pc[c] = "idle" => Resting(c)
  /\ DemoWhole
  /\ ~ InFlight => Drawn
  /\ hurried = "never" => demo = DemoSchedules
  /\ hurried # "now" => Alone

(* The end of a sign-in leaves no trace of it, and no other sign-in moves. *)
LEMMA RestRests ==
  ASSUME CallsTyped, NEW c \in Calls, Rest(c)
  PROVE  /\ pc'[c] = "idle" /\ Resting(c)'
         /\ \A d \in Calls \ {c} : /\ pc'[d] = pc[d] /\ profile'[d] = profile[d]
                                   /\ got'[d] = got[d] /\ found'[d] = found[d]
  BY DEF CallsTyped, Rest, Resting

(* A step that moves no sign-in neither starts nor ends one. *)
LEMMA ProgressKept ==
  UNCHANGED progress => /\ UNCHANGED pc /\ (InFlight <=> InFlight')
                        /\ \A c \in Calls : Resting(c) <=> Resting(c)'
  BY DEF progress, InFlight, Resting

(* A button drawn disabled has a sign-in behind it, whatever overlaps: the  *)
(* end of any of them enables it.                                           *)
LEMMA BusyStep == Typed /\ NeverStuckBusy /\ [Next]_vars => NeverStuckBusy'
  <1> SUFFICES ASSUME Typed, NeverStuckBusy, [Next]_vars PROVE NeverStuckBusy'
    OBVIOUS
  <1>t. StateTyped /\ CallsTyped  BY TypedHalves
  <1>1. CASE BlankSignIn  BY <1>1, ProgressKept DEF BlankSignIn, Notify, NeverStuckBusy
  <1>2. CASE MalformedSignIn  BY <1>2 DEF MalformedSignIn, Fail, Notify, NeverStuckBusy
  <1>3. ASSUME NEW l \in Logins, DemoSignIn(l)  PROVE NeverStuckBusy'
    BY <1>3 DEF DemoSignIn, Show, Notify, NeverStuckBusy
  <1>4. ASSUME NEW c \in Calls, NEW l \in Logins, SignIn(c, l)  PROVE NeverStuckBusy'
    <2>1. pc'[c] = "login"  BY <1>4, <1>t DEF SignIn, CallsTyped
    <2> QED  BY <2>1 DEF NeverStuckBusy, InFlight
  <1>5. ASSUME NEW c \in Calls, Answer(c)  PROVE NeverStuckBusy'
    <2>1. CASE Refused(c)  BY <2>1 DEF Refused, Fail, Notify, NeverStuckBusy
    <2>2. ASSUME NEW body, NEW withToken, NEW withHome, LoginAnswered(c, withToken, withHome, body)
          PROVE  NeverStuckBusy'
      <3>1. pc'[c] = "profile"  BY <2>2, <1>t DEF LoginAnswered, CallsTyped
      <3> QED  BY <3>1 DEF NeverStuckBusy, InFlight
    <2>3. ASSUME NEW body, LoginThenDemo(c, body)  PROVE NeverStuckBusy'
      BY <2>3 DEF LoginThenDemo, Show, Notify, NeverStuckBusy
    <2>4. ASSUME NEW body, LoginThenMalformed(c, body)  PROVE NeverStuckBusy'
      BY <2>4 DEF LoginThenMalformed, Fail, Notify, NeverStuckBusy
    <2>5. ASSUME NEW reply, ProfileAnswered(c, reply)  PROVE NeverStuckBusy'
      <3>1. pc'[c] # "idle"  BY <2>5, <1>t DEF ProfileAnswered, CallsTyped
      <3> QED  BY <3>1 DEF NeverStuckBusy, InFlight
    <2>6. ASSUME NEW reply, Finish(c, reply)  PROVE NeverStuckBusy'
      <3>1. loading' = FALSE  BY <2>6 DEF Finish, Show
      <3> QED  BY <2>6, <3>1 DEF Finish, Notify, NeverStuckBusy
    <2>7. CASE ProfileThenMalformed(c)
      BY <2>7 DEF ProfileThenMalformed, Fail, Notify, NeverStuckBusy
    <2>8. CASE NextSchedule(c)
      <3>1. pc'[c] # "idle"  BY <2>8 DEF NextSchedule
      <3> QED  BY <3>1 DEF NeverStuckBusy, InFlight
    <2> QED  BY <1>5, <2>1, <2>2, <2>3, <2>4, <2>5, <2>6, <2>7, <2>8 DEF Answer
  <1>6. ASSUME NEW w \in Weeks, PickWeek(w)  PROVE NeverStuckBusy'
    BY <1>6, ProgressKept DEF PickWeek, Notify, NeverStuckBusy
  <1>7. ASSUME NEW d \in Days, PickDay(d)  PROVE NeverStuckBusy'
    BY <1>7, ProgressKept DEF PickDay, Notify, NeverStuckBusy
  <1>8. ASSUME NEW address \in Addresses, SetServerUrl(address)  PROVE NeverStuckBusy'
    BY <1>8, ProgressKept DEF SetServerUrl, Notify, NeverStuckBusy, state
  <1>9. CASE SignOut  BY <1>9, ProgressKept DEF SignOut, Notify, NeverStuckBusy
  <1>10. CASE Reload  BY <1>10 DEF Reload, Notify, NeverStuckBusy
  <1>11. CASE UNCHANGED vars
    BY <1>11, ProgressKept DEF vars, state, NeverStuckBusy
  <1> QED
    BY <1>1, <1>2, <1>3, <1>4, <1>5, <1>6, <1>7, <1>8, <1>9, <1>10, <1>11 DEF Next

(* The form is never left disabled, however sign-ins overlap and end. *)
THEOREM BusyEnds == Spec => []NeverStuckBusy
  <1>1. Init => NeverStuckBusy
    <2>1. Init => loading  = FALSE/\ shown = [shell |-> FALSE, busy |-> FALSE]  BY DEF Init
    <2> QED  BY <2>1 DEF NeverStuckBusy
  <1> QED  BY <1>1, TypedInit, TypedStep, BusyStep, PTL DEF Spec

(* A place for a sign-in is empty again when the sign-in has ended. *)
LEMMA RestingStep ==
  ASSUME Typed, \A c \in Calls : pc[c] = "idle" => Resting(c), [Next]_vars
  PROVE  \A c \in Calls : pc'[c] = "idle" => Resting(c)'
  <1>t. CallsTyped  BY TypedHalves
  <1>1. ASSUME UNCHANGED progress  PROVE \A c \in Calls : pc'[c] = "idle" => Resting(c)'
    BY <1>1, ProgressKept
  <1>2. ASSUME NEW c \in Calls, Rest(c)  PROVE \A d \in Calls : pc'[d] = "idle" => Resting(d)'
    <2>1. ASSUME NEW d \in Calls \ {c}, pc'[d] = "idle"  PROVE Resting(d)'
      BY <1>2, <1>t, <2>1, RestRests DEF Resting
    <2> QED  BY <1>2, <1>t, <2>1, RestRests
  <1>3. ASSUME NEW c \in Calls, NEW l \in Logins, SignIn(c, l)
        PROVE  \A d \in Calls : pc'[d] = "idle" => Resting(d)'
    BY <1>3, <1>t DEF SignIn, CallsTyped, Resting
  <1>4. ASSUME NEW c \in Calls, Answer(c)  PROVE \A d \in Calls : pc'[d] = "idle" => Resting(d)'
    <2>1. ASSUME NEW body, NEW withToken, NEW withHome, LoginAnswered(c, withToken, withHome, body)
          PROVE  \A d \in Calls : pc'[d] = "idle" => Resting(d)'
      BY <2>1, <1>t DEF LoginAnswered, CallsTyped, Resting
    <2>2. ASSUME NEW reply, ProfileAnswered(c, reply)
          PROVE  \A d \in Calls : pc'[d] = "idle" => Resting(d)'
      <3>1. ASSUME NEW d \in Calls, pc'[d] = "idle"  PROVE d # c /\ pc[d] = "idle"
        BY <2>2, <3>1, <1>t DEF ProfileAnswered, CallsTyped
      <3>2. ASSUME NEW d \in Calls, d # c
            PROVE  profile'[d] = profile[d] /\ found'[d] = found[d] /\ got'[d] = got[d]
        BY <2>2, <3>2, <1>t DEF ProfileAnswered, CallsTyped
      <3> QED  BY <3>1, <3>2 DEF Resting
    <2>3. CASE NextSchedule(c)  BY <2>3 DEF NextSchedule, Resting
    <2>4. CASE Rest(c)  BY <2>4, <1>2
    <2> QED  BY <1>4, <2>1, <2>2, <2>3, <2>4
             DEF Answer, Refused, LoginThenDemo, LoginThenMalformed, ProfileThenMalformed, Finish
  <1>5. CASE Reload  BY <1>5 DEF Reload, Resting
  <1> QED
    BY <1>1, <1>3, <1>4, <1>5
    DEF Next, BlankSignIn, MalformedSignIn, DemoSignIn, PickWeek, PickDay, SetServerUrl, SignOut, vars

(* Filing a schedule loses none. *)
LEMMA FiledKeeps ==
  ASSUME NEW map \in Maps, NEW body \in Replies, NEW owner \in Logins
  PROVE  Known(map) \subseteq Known(Filed(map, body, owner))
  <1>1. CASE body \in Bodies
    <2>1. body.week \in Weeks /\ body.days \in Timetables  BY <1>1 DEF Bodies
    <2>2. [of |-> owner, days |-> body.days] \in Schedule  BY <2>1, ClientAssumption DEF Schedule
    <2>3. [of |-> owner, days |-> body.days] # None  BY <2>2, ClientAssumption
    <2> QED  BY <1>1, <2>1, <2>3 DEF Filed, Maps, Known
  <1>2. CASE body \notin Bodies  BY <1>2 DEF Filed
  <1> QED  BY <1>1, <1>2

(* What an admitted login does to the examples: nothing, unless they are    *)
(* the map of the program, and then it files a schedule in them.            *)
LEMMA AdmittedDemo ==
  ASSUME Typed, NEW c \in Calls, NEW body \in Bodies \cup {None}, Admitted(c, body)
  PROVE  (~ shared => demo' = demo) /\ (DemoWhole => DemoWhole')
  <1>1. demo \in Maps /\ who[c] \in Logins /\ body \in Replies
    BY TypedHalves DEF StateTyped, CallsTyped, Admitted, Replies
  <1>2. demo' \in {demo, Filed(demo, body, who[c])} /\ (~ shared => demo' = demo)  BY DEF Admitted
  <1>3. Known(demo) \subseteq Known(demo')  BY <1>1, <1>2, FiledKeeps
  <1> QED  BY <1>2, <1>3 DEF DemoWhole, Known

(* So no step loses a week of the examples, and none writes to them as long *)
(* as no two sign-ins have overlapped.                                      *)
LEMMA ExamplesStep ==
  ASSUME Typed, IInv, [Next]_vars
  PROVE  DemoWhole' /\ (hurried' = "never" => demo' = DemoSchedules)
  <1>1. ASSUME demo' = demo, hurried' = "never" => hurried = "never"
        PROVE  DemoWhole' /\ (hurried' = "never" => demo' = DemoSchedules)
    BY <1>1 DEF IInv, DemoWhole, Known
  <1>2. ASSUME NEW c \in Calls, NEW body \in Bodies \cup {None}, Admitted(c, body), hurried' = hurried
        PROVE  DemoWhole' /\ (hurried' = "never" => demo' = DemoSchedules)
    <2>1. DemoWhole'  BY <1>2, AdmittedDemo DEF IInv
    <2>2. ASSUME hurried' = "never"  PROVE demo' = DemoSchedules
      <3>1. Pending(c) /\ demo = DemoSchedules  BY <1>2, <2>2 DEF IInv, Alone, Admitted
      <3>2. ~ shared  BY <1>2, <2>2, <3>1 DEF Pending
      <3> QED  BY <1>2, <3>1, <3>2, AdmittedDemo
    <2> QED  BY <2>1, <2>2
  <1>3. ASSUME NEW c \in Calls, Answer(c)
        PROVE  DemoWhole' /\ (hurried' = "never" => demo' = DemoSchedules)
    <2>1. CASE demo' = demo /\ hurried' = hurried  BY <1>1, <2>1
    <2>2. CASE \E body \in Bodies \cup {None} : Admitted(c, body) /\ hurried' = hurried
      BY <1>2, <2>2
    <2> QED
      BY <1>3, <2>1, <2>2
      DEF Answer, Refused, LoginAnswered, LoginThenDemo, LoginThenMalformed,
          ProfileAnswered, ProfileThenMalformed, NextSchedule, Finish, state
  <1>4. CASE \/ BlankSignIn \/ MalformedSignIn
             \/ \E l \in Logins : DemoSignIn(l) \/ \E c \in Calls : SignIn(c, l)
    BY <1>1, <1>4 DEF BlankSignIn, MalformedSignIn, DemoSignIn, SignIn, Send
  <1>5. CASE Reload  BY <1>5 DEF Reload, DemoWhole, Known
  <1>6. CASE \/ \E w \in Weeks : PickWeek(w)
             \/ \E d \in Days : PickDay(d)
             \/ \E address \in Addresses : SetServerUrl(address)
             \/ SignOut
             \/ UNCHANGED vars
    BY <1>1, <1>6 DEF PickWeek, PickDay, SetServerUrl, SignOut, vars, state
  <1> QED  BY <1>3, <1>4, <1>5, <1>6 DEF Next

(* What the end of a sign-in draws is there. *)
LEMMA ShowDraws ==
  ASSUME TypeOK, NEW map \in Maps, NEW isDemo \in BOOLEAN, NEW w \in Weeks,
         isDemo => map[FirstWeek] # None /\ map = demo',
         Show(map, isDemo, w), Notify
  PROVE  Drawn'
  <1>1. /\ own' \in Maps /\ shared' = isDemo /\ loading' = FALSE
        /\ own' = IF isDemo THEN Nothing ELSE map
        /\ week' \in Weeks /\ map[week'] \in Schedule
        /\ day' \in map[week'].days
    BY ShowType
  <1>2. Schedules' = map  BY <1>1 DEF Schedules
  <1>3. shown' = [shell |-> login' # None, busy |-> FALSE]  BY <1>1 DEF Notify
  <1>4. week' \in Known(Schedules')
    BY <1>1, <1>2, ClientAssumption DEF Known
  <1> QED  BY <1>1, <1>2, <1>3, <1>4 DEF Drawn

(* A failure brings back the form. *)
LEMMA FailDraws ==
  ASSUME Fail, Notify
  PROVE  Drawn' /\ Settled'
  BY DEF Fail, Notify, Drawn, Settled, Clean

(* The shell is drawn for who is signed in. *)
LEMMA DrawnShell == Drawn => (shown.shell <=> login # None)
  <1> SUFFICES ASSUME Drawn PROVE shown.shell <=> login # None  OBVIOUS
  <1>1. shown = [shell |-> login # None, busy |-> FALSE]  BY DEF Drawn
  <1>2. shown.shell = (login # None)  BY <1>1
  <1> QED  BY <1>2

(* A gesture in the shell finds it as it was drawn. *)
LEMMA GestureDraws ==
  ASSUME ~ InFlight' => Drawn, UNCHANGED loading, Notify,
         ~ InFlight' /\ login' # None => week' \in Known(Schedules') /\ day' \in Schedules'[week'].days
  PROVE  ~ InFlight' => Drawn'
  <1> SUFFICES ASSUME ~ InFlight' PROVE Drawn'  OBVIOUS
  <1>1. loading' = FALSE  BY DEF Drawn
  <1>2. shown' = [shell |-> login' # None, busy |-> FALSE]  BY <1>1 DEF Notify
  <1> QED  BY <1>1, <1>2 DEF Drawn

(* What is drawn exists once the last sign-in has ended, however they       *)
(* overlapped: each end of one draws the screen anew.                       *)
LEMMA DrawnStep ==
  ASSUME Typed, IInv, [Next]_vars
  PROVE  ~ InFlight' => Drawn'
  <1>t. TypeOK /\ StateTyped /\ CallsTyped  BY TypedHalves DEF Typed
  <1>d. ~ InFlight => Drawn  BY DEF IInv
  <1>1. ASSUME Fail, Notify  PROVE ~ InFlight' => Drawn'
    BY <1>1, FailDraws
  <1>2. ASSUME NEW c \in Calls, pc'[c] # "idle"  PROVE ~ InFlight' => Drawn'
    BY <1>2 DEF InFlight
  <1>3. CASE BlankSignIn
    <2>1. (InFlight <=> InFlight') /\ UNCHANGED <<login, loading>> /\ Notify /\ ~ shown.shell
      BY <1>3, ProgressKept DEF BlankSignIn
    <2>2. ~ InFlight => login' = None  BY <2>1, <1>d, DrawnShell
    <2> QED  BY <2>1, <2>2, <1>d, GestureDraws
  <1>4. CASE MalformedSignIn  BY <1>1, <1>4 DEF MalformedSignIn
  <1>5. ASSUME NEW l \in Logins, DemoSignIn(l)  PROVE ~ InFlight' => Drawn'
    <2>1. /\ demo \in Maps /\ week \in Weeks /\ demo[FirstWeek] # None /\ demo = demo'
          /\ Show(demo, TRUE, week) /\ Notify
      BY <1>5, <1>t DEF DemoSignIn, StateTyped
    <2> QED  BY <2>1, <1>t, ShowDraws
  <1>6. ASSUME NEW c \in Calls, NEW l \in Logins, SignIn(c, l)  PROVE ~ InFlight' => Drawn'
    <2>1. pc'[c] = "login"  BY <1>6, <1>t DEF SignIn, CallsTyped
    <2> QED  BY <2>1, <1>2
  <1>7. ASSUME NEW c \in Calls, Answer(c)  PROVE ~ InFlight' => Drawn'
    <2>1. CASE Refused(c) \/ ProfileThenMalformed(c)
      BY <1>1, <2>1 DEF Refused, ProfileThenMalformed
    <2>2. ASSUME NEW body \in Bodies \cup {None}, LoginThenMalformed(c, body)  PROVE ~ InFlight' => Drawn'
      BY <1>1, <2>2 DEF LoginThenMalformed
    <2>3. ASSUME NEW body, NEW withToken, NEW withHome, LoginAnswered(c, withToken, withHome, body)
          PROVE  ~ InFlight' => Drawn'
      <3>1. pc'[c] = "profile"  BY <2>3, <1>t DEF LoginAnswered, CallsTyped
      <3> QED  BY <3>1, <1>2
    <2>4. ASSUME NEW reply, ProfileAnswered(c, reply)  PROVE ~ InFlight' => Drawn'
      <3>1. pc'[c] # "idle"  BY <2>4, <1>t DEF ProfileAnswered, CallsTyped
      <3> QED  BY <3>1, <1>2
    <2>5. CASE NextSchedule(c)
      <3>1. pc'[c] # "idle"  BY <2>5 DEF NextSchedule
      <3> QED  BY <3>1, <1>2
    <2>6. ASSUME NEW body \in Bodies \cup {None}, LoginThenDemo(c, body)  PROVE ~ InFlight' => Drawn'
      <3>1. /\ Admitted(c, body) /\ Show(demo', TRUE, WeekOf(body)) /\ Notify
            /\ who[c] \in Logins /\ body \in Replies
        BY <2>6, <1>t DEF LoginThenDemo, Admitted, CallsTyped, Replies
      <3>2. demo' \in {demo, Filed(demo, body, who[c])}  BY <3>1 DEF Admitted
      <3>3. demo' \in Maps /\ demo'[FirstWeek] # None
        BY <3>1, <3>2, <1>t, FiledType, FiledFirst DEF StateTyped
      <3>4. WeekOf(body) \in Weeks  BY <1>t DEF WeekOf, Bodies, StateTyped
      <3> QED  BY <3>1, <3>3, <3>4, <1>t, ShowDraws
    <2>7. ASSUME NEW reply \in Replies, Finish(c, reply)  PROVE ~ InFlight' => Drawn'
      <3>1. Notify /\ demo' = demo /\ asked[c] \in Logins /\ found[c] \in Maps /\ got[c] \in Schedule \cup {None}
        BY <2>7, <1>t DEF Finish, CallsTyped
      <3> DEFINE remote == Filed(found[c], reply, asked[c])
      <3>2. remote \in Maps  BY <3>1, FiledType
      <3>3. got[c] # None => [Nothing EXCEPT ![week] = got[c]] \in Maps
        BY <3>1, NothingType DEF Maps
      <3>4. week \in Weeks /\ demo \in Maps /\ demo[FirstWeek] # None  BY <1>t DEF StateTyped
      <3>5. \/ Show(remote, FALSE, week)
            \/ got[c] # None /\ Show([Nothing EXCEPT ![week] = got[c]], FALSE, week)
            \/ Show(demo, TRUE, week)
        BY <2>7 DEF Finish
      <3> HIDE DEF remote
      <3>6. CASE Show(remote, FALSE, week)
        BY <3>6, <3>1, <3>2, <3>4, <1>t, ShowDraws
      <3>7. CASE got[c] # None /\ Show([Nothing EXCEPT ![week] = got[c]], FALSE, week)
        BY <3>7, <3>1, <3>3, <3>4, <1>t, ShowDraws
      <3>8. CASE Show(demo, TRUE, week)
        BY <3>8, <3>1, <3>4, <1>t, ShowDraws
      <3> QED  BY <3>5, <3>6, <3>7, <3>8
    <2> QED  BY <1>7, <2>1, <2>2, <2>3, <2>4, <2>5, <2>6, <2>7 DEF Answer
  <1>8. ASSUME NEW w \in Weeks, PickWeek(w)  PROVE ~ InFlight' => Drawn'
    <2>1. (InFlight <=> InFlight') /\ UNCHANGED loading /\ Notify  BY <1>8, ProgressKept DEF PickWeek
    <2>2. ASSUME ~ InFlight'  PROVE week' \in Known(Schedules') /\ day' \in Schedules'[week'].days
      <3>0. Drawn /\ login # None  BY <1>8, <2>1, <2>2, <1>d, DrawnShell DEF PickWeek
      <3>1. week \in Known(Schedules)  BY <3>0 DEF Drawn
      <3>2. w \in Known(Schedules)  BY <1>8, <3>1 DEF PickWeek
      <3>3. Active(w) = Schedules[w]  BY <3>2 DEF Active, Known
      <3>4. Schedules' = Schedules  BY <1>8 DEF PickWeek, Schedules
      <3>5. week' = w /\ day' \in Schedules[w].days  BY <1>8, <3>3 DEF PickWeek, ShownDays
      <3> QED  BY <3>2, <3>4, <3>5 DEF Known
    <2> QED  BY <2>1, <2>2, <1>d, GestureDraws
  <1>9. ASSUME NEW d \in Days, PickDay(d)  PROVE ~ InFlight' => Drawn'
    <2>1. (InFlight <=> InFlight') /\ UNCHANGED <<loading, week>> /\ Notify  BY <1>9, ProgressKept DEF PickDay
    <2>2. ASSUME ~ InFlight'  PROVE week' \in Known(Schedules') /\ day' \in Schedules'[week'].days
      <3>0. Drawn /\ login # None  BY <1>9, <2>1, <2>2, <1>d, DrawnShell DEF PickDay
      <3>1. week \in Known(Schedules)  BY <3>0 DEF Drawn
      <3>2. day' = d /\ d \in Schedules[week].days  BY <1>9, <3>1 DEF PickDay, Active, Known
      <3>3. Schedules' = Schedules  BY <1>9 DEF PickDay, Schedules
      <3> QED  BY <2>1, <3>1, <3>2, <3>3 DEF Known
    <2> QED  BY <2>1, <2>2, <1>d, GestureDraws
  <1>10. ASSUME NEW address \in Addresses, SetServerUrl(address)  PROVE ~ InFlight' => Drawn'
    <2>1. /\ InFlight <=> InFlight'
          /\ UNCHANGED <<login, own, shared, demo, week, day, loading>> /\ Notify
      BY <1>10, ProgressKept DEF SetServerUrl, state
    <2>2. Schedules' = Schedules  BY <2>1 DEF Schedules
    <2>3. ~ InFlight' /\ login' # None => week' \in Known(Schedules') /\ day' \in Schedules'[week'].days
      BY <2>1, <2>2, <1>d DEF Drawn, Known
    <2> QED  BY <2>1, <2>3, <1>d, GestureDraws
  <1>11. CASE SignOut
    <2>1. (InFlight <=> InFlight') /\ UNCHANGED loading /\ Notify /\ login' = None
      BY <1>11, ProgressKept DEF SignOut
    <2> QED  BY <2>1, <1>d, GestureDraws
  <1>12. CASE Reload
    <2>1. loading' = FALSE /\ login' = None  BY <1>12 DEF Reload
    <2>2. shown' = [shell |-> login' # None, busy |-> FALSE]  BY <1>12, <2>1 DEF Reload, Notify
    <2> QED  BY <2>1, <2>2 DEF Drawn
  <1>13. CASE UNCHANGED vars
    <2>1. (InFlight <=> InFlight') /\ UNCHANGED <<login, own, shared, demo, week, day, loading, shown>>
      BY <1>13, ProgressKept DEF vars, state
    <2> QED  BY <2>1, <1>d DEF Drawn, Schedules, Known
  <1> QED
    BY <1>3, <1>4, <1>5, <1>6, <1>7, <1>8, <1>9, <1>10, <1>11, <1>12, <1>13 DEF Next

(* Filing a schedule of l among those of l. *)
LEMMA FiledOwned ==
  ASSUME NEW l \in Logins, NEW map \in Maps, OwnedBy(map, l), NEW body \in Replies
  PROVE  OwnedBy(Filed(map, body, l), l)
  <1>1. CASE body \in Bodies
    BY <1>1 DEF Filed, OwnedBy, Maps, Bodies
  <1>2. CASE body \notin Bodies  BY <1>2 DEF Filed
  <1> QED  BY <1>1, <1>2

(* Settled once the map shown is known to be the login's, or the examples. *)
LEMMA ShowSettles ==
  ASSUME NEW map, NEW isDemo \in BOOLEAN, NEW w, Show(map, isDemo, w),
         login' \in Logins, home' = login', ~ isDemo => OwnedBy(map, login')
  PROVE  Settled'
  <1>1. shared' = isDemo /\ (~ isDemo => own' = map)  BY DEF Show
  <1>2. login' # None  BY ClientAssumption
  <1> QED  BY <1>1, <1>2 DEF Settled

(* A sign-in that is alone leaves none under way when it ends. *)
LEMMA LastRests ==
  ASSUME CallsTyped, NEW c \in Calls, Rest(c),
         \A d \in Calls : pc[d] # "idle" => d = c
  PROVE  \A d \in Calls : pc'[d] = "idle"
  BY DEF CallsTyped, Rest

(* What Alone asks when no sign-in is under way. *)
LEMMA NoneUnderWay ==
  ASSUME \A d \in Calls : pc'[d] = "idle", Settled'
  PROVE  Alone'
  BY DEF Alone, InFlight

(* Sending the form while nothing is under way. *)
LEMMA SendStep ==
  ASSUME Typed, IInv, hurried' # "now",
         \/ BlankSignIn \/ MalformedSignIn
         \/ \E l \in Logins : DemoSignIn(l) \/ \E c \in Calls : SignIn(c, l)
  PROVE  Alone'
  <1>t. TypeOK /\ StateTyped /\ CallsTyped  BY TypedHalves DEF Typed
  <1>1. ~ shown.shell /\ ~ InFlight
    BY DEF BlankSignIn, MalformedSignIn, DemoSignIn, SignIn, Send
  <1>2. Drawn /\ login = None /\ \A d \in Calls : pc[d] = "idle" /\ Resting(d)
    BY <1>1, DrawnShell DEF IInv, InFlight
  <1>3. hurried # "now" => Settled  BY <1>1 DEF IInv, Alone
  <1>4. CASE BlankSignIn
    <2>1. /\ UNCHANGED progress /\ UNCHANGED <<login, home, own, shared>> /\ hurried # "now"
      BY <1>1, <1>4 DEF BlankSignIn
    <2>2. \A d \in Calls : pc'[d] = "idle"  BY <2>1, <1>2, ProgressKept
    <2>3. Settled'  BY <2>1, <1>2, <1>3 DEF Settled, Clean
    <2> QED  BY <2>2, <2>3, NoneUnderWay
  <1>5. CASE MalformedSignIn
    <2>1. \A d \in Calls : pc'[d] = "idle"  BY <1>2, <1>5 DEF MalformedSignIn, progress
    <2>2. Settled'  BY <1>5, FailDraws DEF MalformedSignIn
    <2> QED  BY <2>1, <2>2, NoneUnderWay
  <1>6. ASSUME NEW l \in Logins, DemoSignIn(l)  PROVE Alone'
    <2>1. \A d \in Calls : pc'[d] = "idle"  BY <1>2, <1>6 DEF DemoSignIn, progress
    <2>2. Show(demo, TRUE, week) /\ login' = l /\ home' = l  BY <1>6 DEF DemoSignIn
    <2>3. Settled'  BY <2>2, ShowSettles
    <2> QED  BY <2>1, <2>3, NoneUnderWay
  <1>7. ASSUME NEW c \in Calls, NEW l \in Logins, SignIn(c, l)  PROVE Alone'
    <2>1. /\ pc' = [pc EXCEPT ![c] = "login"] /\ loading' = TRUE /\ Notify
          /\ UNCHANGED <<login, home, own, shared, demo, got, profile, found>>
      BY <1>7 DEF SignIn
    <2>2. pc'[c] = "login" /\ \A d \in Calls : pc'[d] # "idle" => d = c
      BY <2>1, <1>2, <1>t DEF CallsTyped
    <2>3. hurried' = "never" => hurried = "never"  BY <1>7 DEF SignIn, Send
    <2>4. hurried' = "never" => ~ shared'
      BY <2>1, <2>3, <1>2, <1>3 DEF Settled, Clean
    <2>5. login' = None /\ Resting(c)'  BY <2>1, <1>2 DEF Resting
    <2>6. shown' = [shell |-> FALSE, busy |-> TRUE]  BY <2>1, <2>5 DEF Notify
    <2>7. Pending(c)'  BY <2>1, <2>2, <2>4, <2>5, <2>6 DEF Pending
    <2> QED  BY <2>2, <2>7 DEF Alone, InFlight
  <1> QED  BY <1>4, <1>5, <1>6, <1>7

(* The answer to the only sign-in under way. *)
LEMMA AnswerStep ==
  ASSUME Typed, IInv, hurried' # "now", NEW c \in Calls, Answer(c)
  PROVE  Alone'
  <1>t. TypeOK /\ StateTyped /\ CallsTyped  BY TypedHalves DEF Typed
  <1>1. pc[c] # "idle"
    BY DEF Answer, Refused, LoginAnswered, LoginThenDemo, LoginThenMalformed, Admitted,
           ProfileAnswered, ProfileThenMalformed, NextSchedule, Finish
  <1>2. hurried' = hurried
    BY DEF Answer, Refused, LoginAnswered, LoginThenDemo, LoginThenMalformed,
           ProfileAnswered, ProfileThenMalformed, NextSchedule, Finish
  <1>3. Alone /\ Pending(c)  BY <1>1, <1>2 DEF IInv, Alone
  <1>4. \A d \in Calls : pc[d] # "idle" => d = c  BY <1>1, <1>3 DEF Alone
  <1>5. Rest(c) => \A d \in Calls : pc'[d] = "idle"  BY <1>4, <1>t, LastRests
  <1>6. ASSUME Fail, Notify, Rest(c)  PROVE Alone'
    BY <1>5, <1>6, FailDraws, NoneUnderWay
  <1>7. CASE Refused(c) \/ ProfileThenMalformed(c)
    BY <1>6, <1>7 DEF Refused, ProfileThenMalformed
  <1>8. ASSUME NEW body \in Bodies \cup {None}, NEW withToken \in BOOLEAN, NEW withHome \in BOOLEAN,
               LoginAnswered(c, withToken, withHome, body)
        PROVE  Alone'
    <2>1. /\ pc[c] = "login" /\ cookie' = who[c] /\ login' = who[c] /\ home' \in {who[c], None}
          /\ pc' = [pc EXCEPT ![c] = "profile"] /\ asked' = [asked EXCEPT ![c] = who[c]]
          /\ got' = [got EXCEPT ![c] = IF body # None THEN [of |-> who[c], days |-> body.days] ELSE None]
          /\ UNCHANGED <<shared, loading, who, profile, found, shown>>
      BY <1>3, <1>8 DEF LoginAnswered, Admitted
    <2>2. pc'[c] = "profile" /\ \A d \in Calls : pc'[d] # "idle" => d = c
      BY <2>1, <1>4, <1>t DEF CallsTyped
    <2>3. asked'[c] = who[c]  BY <2>1, <1>t DEF CallsTyped
    <2>4. got'[c] # None => got'[c].of = who[c]  BY <2>1, <1>t DEF CallsTyped
    <2>5. profile[c] = None /\ found[c] = Nothing  BY <2>1, <1>3 DEF Pending, Resting
    <2>6. OwnedBy(found'[c], login')  BY <2>1, <2>5 DEF OwnedBy, Nothing
    <2>7. Gathered(c)'  BY <2>1, <2>3, <2>4, <2>5, <2>6 DEF Gathered
    <2>8. Pending(c)'  BY <2>1, <2>2, <2>7, <1>2, <1>3 DEF Pending
    <2> QED  BY <2>2, <2>8 DEF Alone, InFlight
  <1>9. ASSUME NEW body \in Bodies \cup {None}, LoginThenDemo(c, body)  PROVE Alone'
    <2>1. /\ Show(demo', TRUE, WeekOf(body)) /\ Rest(c)
          /\ login' = who[c] /\ home' = who[c] /\ who[c] \in Logins
      BY <1>9, <1>t DEF LoginThenDemo, Admitted, CallsTyped
    <2>2. Settled'  BY <2>1, ShowSettles
    <2> QED  BY <2>1, <2>2, <1>5, NoneUnderWay
  <1>10. ASSUME NEW body \in Bodies \cup {None}, LoginThenMalformed(c, body)  PROVE Alone'
    BY <1>6, <1>10 DEF LoginThenMalformed
  <1>11. ASSUME pc[c] \in {"profile", "schedule"}
         PROVE  /\ Gathered(c) /\ login \in Logins /\ Identity(c) = login
                /\ found[c] \in Maps /\ got[c] \in Schedule \cup {None}
    BY <1>3, <1>11, <1>t DEF Pending, Gathered, Identity, CallsTyped
  <1>12. ASSUME NEW reply \in Replies, ProfileAnswered(c, reply)  PROVE Alone'
    <2>1. /\ pc[c] = "profile" /\ asked' = [asked EXCEPT ![c] = Identity(c)]
          /\ profile' = [profile EXCEPT ![c] = IF @ = None /\ reply # None THEN asked[c] ELSE @]
          /\ found' = [found EXCEPT ![c] = Filed(@, reply, asked[c])]
          /\ UNCHANGED <<login, home, shared, demo, loading, who, got, shown, cookie>>
      BY <1>12 DEF ProfileAnswered, state
    <2>2. /\ pc'[c] \in {"profile", "schedule"}
          /\ \A d \in Calls : pc'[d] # "idle" => d = c
      BY <1>12, <1>4, <1>t DEF ProfileAnswered, CallsTyped
    <2>3. asked'[c] = login /\ profile'[c] \in {None, login}
      BY <2>1, <1>11, <1>t DEF Gathered, CallsTyped
    <2>4. OwnedBy(Filed(found[c], reply, login), login)
      BY <2>1, <1>11, FiledOwned DEF Gathered
    <2>5. OwnedBy(found'[c], login)
      BY <2>1, <2>4, <1>11, <1>t DEF Gathered, CallsTyped
    <2>6. Gathered(c)'  BY <2>1, <2>3, <2>5, <1>11 DEF Gathered, OwnedBy
    <2>7. Pending(c)'  BY <2>1, <2>2, <2>6, <1>2, <1>3 DEF Pending
    <2> QED  BY <2>2, <2>7 DEF Alone, InFlight
  <1>13. CASE NextSchedule(c)
    <2>1. /\ pc[c] = "schedule" /\ asked' = [asked EXCEPT ![c] = Identity(c)]
          /\ UNCHANGED <<login, home, shared, demo, loading, pc, who, got, profile, found, shown, cookie>>
      BY <1>13 DEF NextSchedule, state
    <2>2. asked'[c] = login  BY <2>1, <1>11, <1>t DEF CallsTyped
    <2>3. Gathered(c)'  BY <2>1, <2>2, <1>11 DEF Gathered, OwnedBy
    <2>4. Pending(c)'  BY <2>1, <2>3, <1>2, <1>3 DEF Pending
    <2> QED  BY <1>4, <2>1, <2>4 DEF Alone, InFlight
  <1>14. ASSUME NEW reply \in Replies, Finish(c, reply)  PROVE Alone'
    <2>1. /\ pc[c] = "schedule" /\ Rest(c) /\ login' = login
          /\ home' = IF profile[c] # None THEN profile[c] ELSE IF home # None THEN home ELSE who[c]
      BY <1>14 DEF Finish
    <2>2. home' = login' /\ login' \in Logins /\ asked[c] = login
      BY <2>1, <1>11 DEF Gathered
    <2> DEFINE remote == Filed(found[c], reply, asked[c])
    <2>3. OwnedBy(remote, login')
      BY <2>1, <2>2, <1>11, FiledOwned DEF Gathered
    <2>4. got[c] # None => OwnedBy([Nothing EXCEPT ![week] = got[c]], login')
      BY <2>1, <1>11, <1>t DEF Gathered, OwnedBy, Nothing, StateTyped
    <2>5. \/ Show(remote, FALSE, week)
          \/ got[c] # None /\ Show([Nothing EXCEPT ![week] = got[c]], FALSE, week)
          \/ Show(demo, TRUE, week)
      BY <1>14 DEF Finish
    <2>6. Settled'
      <3> HIDE DEF remote
      <3>1. CASE Show(remote, FALSE, week)  BY <3>1, <2>2, <2>3, ShowSettles
      <3>2. CASE got[c] # None /\ Show([Nothing EXCEPT ![week] = got[c]], FALSE, week)
        BY <3>2, <2>2, <2>4, ShowSettles
      <3>3. CASE Show(demo, TRUE, week)  BY <3>3, <2>2, ShowSettles
      <3> QED  BY <2>5, <3>1, <3>2, <3>3
    <2> QED  BY <2>1, <2>6, <1>5, NoneUnderWay
  <1> QED  BY <1>7, <1>8, <1>9, <1>10, <1>12, <1>13, <1>14 DEF Answer

(* A gesture in the shell finds no sign-in under way. *)
LEMMA GestureStep ==
  ASSUME Typed, IInv, hurried' # "now", hurried' = hurried, shown.shell,
         UNCHANGED progress, Settled => Settled'
  PROVE  Alone'
  <1>1. Alone  BY DEF IInv
  <1>2. ~ InFlight /\ Settled
    BY <1>1 DEF Alone, InFlight, Pending
  <1>3. \A d \in Calls : pc'[d] = "idle"  BY <1>2 DEF InFlight, progress
  <1> QED  BY <1>2, <1>3, NoneUnderWay

(* Every step keeps the invariant. *)
LEMMA SafeStep == Typed /\ IInv /\ [Next]_vars => IInv'
  <1> SUFFICES ASSUME Typed, IInv, [Next]_vars, hurried' # "now"
               PROVE  Alone'
    BY BusyStep, RestingStep, ExamplesStep, DrawnStep DEF IInv
  <1>t. TypeOK /\ StateTyped /\ CallsTyped  BY TypedHalves DEF Typed
  <1>s. UNCHANGED <<login, home, own, shared>> /\ Settled => Settled'
    BY DEF Settled, Clean, OwnedBy
  <1>1. CASE BlankSignIn \/ MalformedSignIn
             \/ \E l \in Logins : DemoSignIn(l) \/ \E c \in Calls : SignIn(c, l)
    BY <1>1, SendStep
  <1>2. CASE \E c \in Calls : Answer(c)  BY <1>2, AnswerStep
  <1>3. ASSUME NEW w \in Weeks, PickWeek(w)  PROVE Alone'
    BY <1>3, <1>s, GestureStep DEF PickWeek
  <1>4. ASSUME NEW d \in Days, PickDay(d)  PROVE Alone'
    BY <1>4, <1>s, GestureStep DEF PickDay
  <1>5. ASSUME NEW address \in Addresses, SetServerUrl(address)  PROVE Alone'
    BY <1>5, <1>s, GestureStep DEF SetServerUrl, state
  <1>6. CASE SignOut
    <2>1. Settled'  BY <1>6 DEF SignOut, Settled, Clean
    <2> QED  BY <1>6, <2>1, GestureStep DEF SignOut
  <1>7. CASE Reload
    <2>1. login' = None /\ Clean' /\ \A d \in Calls : pc'[d] = "idle"
      BY <1>7 DEF Reload, Clean
    <2>2. Settled'  BY <2>1 DEF Settled
    <2> QED  BY <2>1, <2>2, NoneUnderWay
  <1>8. CASE UNCHANGED vars
    <2>1. UNCHANGED <<login, home, own, shared, demo, week, day, loading, shown, hurried, cookie,
                      pc, who, got, asked, profile, found>>
      BY <1>8 DEF vars, state, progress
    <2>2. Alone  BY <2>1 DEF IInv
    <2> QED  BY <2>1, <2>2 DEF Alone, InFlight, Pending, Resting, Gathered, Clean, OwnedBy, Settled
  <1> QED  BY <1>1, <1>2, <1>3, <1>4, <1>5, <1>6, <1>7, <1>8 DEF Next

(* The program starts that way. *)
LEMMA SafeInit == Init => IInv
  <1> SUFFICES ASSUME Init PROVE IInv  OBVIOUS
  <1>1. /\ login = None /\ Clean /\ loading = FALSE /\ demo = DemoSchedules
        /\ shown = [shell |-> FALSE, busy |-> FALSE]
    BY DEF Init, Clean
  <1>2. \A c \in Calls : pc[c] = "idle" /\ Resting(c)  BY DEF Init, Resting
  <1>3. Settled /\ Drawn /\ DemoWhole  BY <1>1 DEF Settled, Drawn, DemoWhole
  <1>4. NeverStuckBusy  BY <1>1 DEF NeverStuckBusy
  <1> QED  BY <1>1, <1>2, <1>3, <1>4 DEF IInv, Alone, InFlight

(* Both hold in every state. *)
THEOREM Safe == Spec => [](Typed /\ IInv)
  BY TypedInit, TypedStep, SafeInit, SafeStep, PTL DEF Spec

(* The profile and the schedules drawn are those of the login, or the       *)
(* examples, unless the form was sent during the latest sign-ins.  What     *)
(* earlier ones that overlapped have left is never drawn.                   *)
THEOREM NoMix == Spec => []MixNeedsHurry
  <1>1. Typed /\ IInv => MixNeedsHurry
    <2> SUFFICES ASSUME Typed, IInv, shown.shell, hurried # "now"
                 PROVE  home = login /\ (~ shared => \A w \in Known(own) : own[w].of = login)
      BY DEF MixNeedsHurry
    <2>1. ~ InFlight /\ Settled /\ Drawn  BY DEF IInv, Alone, InFlight, Pending
    <2>2. home = login /\ (~ shared => OwnedBy(own, login))  BY <2>1, DrawnShell DEF Settled
    <2> QED  BY <2>2 DEF Known, OwnedBy
  <1> QED  BY <1>1, Safe, PTL

(* The button of the form never starts a second sign-in by itself. *)
THEOREM ButtonsWait == Spec => []ButtonWaits
  <1>1. IInv => ButtonWaits
    BY DEF IInv, Alone, InFlight, Pending, Drawn, ButtonWaits
  <1> QED  BY <1>1, Safe, PTL

(* No week of the examples is ever lost, and nothing is written to them     *)
(* until two sign-ins overlap.                                              *)
THEOREM ExamplesKept == Spec => []ExamplesStay
  <1>1. IInv => ExamplesStay  BY DEF IInv, DemoWhole, ExamplesStay
  <1> QED  BY <1>1, Safe, PTL

(* However sign-ins overlap and end, the week and the day drawn exist once  *)
(* none is under way.                                                       *)
THEOREM SelectionsExist == Spec => []SelectionExists
  <1>1. IInv => SelectionExists
    <2> SUFFICES ASSUME IInv, shown.shell, ~ InFlight
                 PROVE  week \in Known(Schedules) /\ day \in Schedules[week].days
      BY DEF SelectionExists
    <2>1. Drawn /\ login # None  BY DrawnShell DEF IInv
    <2> QED  BY <2>1 DEF Drawn
  <1> QED  BY <1>1, Safe, PTL

(* After a sign-out, or after a sign-in that failed at whatever request,    *)
(* nothing of a user stays, unless the latest sign-ins overlapped.          *)
THEOREM NothingStays == Spec => []NothingLeft
  <1>1. IInv => NothingLeft  BY DEF IInv, Alone, Settled, Clean, NothingLeft
  <1> QED  BY <1>1, Safe, PTL
=============================================================================
