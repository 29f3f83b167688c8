-------------------------- MODULE UserParserProofs --------------------------
(* Proofs about UserParser, for any users, callers, clients and TTL. *)
EXTENDS UserParser, TLAPS

USE ParserAssumption

-----------------------------------------------------------------------------
(* A call in its login works with a client of its own, one that looked a    *)
(* session up with some client, and any other with none.                    *)
Holds ==
  \A c \in Callers :
    /\ pc[c] \in {"authenticate", "register", "fetch"} => client[c] \in HttpClients
    /\ pc[c] \notin {"authenticate", "register", "fetch"} => client[c] = None
    /\ pc[c] \in Calls => user[c] \in Users

Exclusive ==
  /\ \A u, v \in Users :
       sessions[u] # None /\ sessions[v] # None /\ sessions[u].client = sessions[v].client => u = v
  /\ \A c \in Callers : pc[c] \in {"authenticate", "register"} =>
       /\ \A u \in Users : sessions[u] # None => sessions[u].client # client[c]
       /\ \A d \in Callers \ {c} : client[d] # client[c]

(* Every session is authenticated as the user it is kept or used for. *)
Own ==
  /\ \A u \in Users : sessions[u] # None => jar[sessions[u].client] = u
  /\ \A c \in Callers : pc[c] \in {"register", "fetch"} => jar[client[c]] = user[c]
  /\ FetchedOwn

(* lastUsed tells when a call was last given the session. *)
SameAge == \A u \in Users : sessions[u] # None => sessions[u].idle = sessions[u].unused

Inv == TypeOK /\ Holds /\ Exclusive /\ Own /\ SameAge

-----------------------------------------------------------------------------
(* Pruning only removes sessions. *)
LEMMA PrunedTyped ==
  ASSUME TypeOK
  PROVE  /\ Pruned \in [Users -> Session \cup {None}]
         /\ \A u \in Users : Pruned[u] \in {None, sessions[u]}
BY DEF Pruned, TypeOK

(* Touching a session makes it young and leaves its client and the others   *)
(* alone.                                                                   *)
LEMMA TouchedTyped ==
  ASSUME TypeOK, NEW u \in Users, Pruned[u] # None
  PROVE  LET touched == Touched(Pruned, u) IN
         /\ touched \in [Users -> Session \cup {None}]
         /\ touched[u] # None /\ touched[u].client = sessions[u].client
         /\ touched[u].idle = 0 /\ touched[u].unused = 0
         /\ \A v \in Users \ {u} : touched[v] = Pruned[v]
<1> DEFINE s == [[Pruned[u] EXCEPT !.idle = 0] EXCEPT !.unused = 0]
<1>1. Pruned[u] \in Session /\ Pruned[u] = sessions[u]
  BY PrunedTyped
<1>z. 0 \in Ticks
  BY DEF Ticks
<1>2. s \in Session /\ s.client = sessions[u].client /\ s.idle = 0 /\ s.unused = 0
  BY <1>1, <1>z DEF Session
<1>3. Touched(Pruned, u) = [Pruned EXCEPT ![u] = s]
  BY <1>1, PrunedTyped DEF Touched
<1>4. QED
  BY <1>2, <1>3, PrunedTyped

(* A tick ages a session and leaves its client alone. *)
LEMMA LaterTyped ==
  ASSUME TypeOK, NEW u \in Users, sessions[u] # None
  PROVE  LET aged == [sessions[u] EXCEPT !.idle = Later(@), !.unused = Later(@)] IN
         /\ aged \in Session /\ aged.client = sessions[u].client
         /\ aged.idle = Later(sessions[u].idle) /\ aged.unused = Later(sessions[u].unused)
<1>1. sessions[u] \in Session
  BY DEF TypeOK
<1>2. \A t \in Ticks : Later(t) \in Ticks
  BY DEF Later, Ticks
<1>3. QED
  BY <1>1, <1>2 DEF Session

(* The inductive invariant holds of the empty map. *)
LEMMA InitInv == Init => Inv
BY DEF Init, Inv, TypeOK, Holds, Exclusive, Own, FetchedOwn, SameAge, Answers, Calls

(* Every step of a call, of the portal, of the clock and of the process     *)
(* preserves it.                                                            *)
LEMMA StepInv == Inv /\ [Next]_vars => Inv'
<1> SUFFICES ASSUME Inv, [Next]_vars PROVE Inv'
  OBVIOUS
<1> USE DEF Inv
<1>1. ASSUME NEW c \in Callers, NEW u \in Users, GetUser(c, u) PROVE Inv'
  <2> USE DEF GetUser, Idle, Answers, Calls
  <2>1. PICK h \in HttpClients :
          /\ h \in Fresh
          /\ client' = [client EXCEPT ![c] = h]
          /\ jar'    = [jar EXCEPT ![h] = None]
          /\ alive'  = alive \ {h}
    BY <1>1 DEF Fresh
  <2>2. TypeOK'
    BY <1>1, <2>1 DEF TypeOK
  <2>3. Holds'
    BY <1>1, <2>1 DEF TypeOK, Holds
  <2>4. Exclusive'
    BY <1>1, <2>1 DEF TypeOK, Holds, Exclusive, Fresh
  <2>5. Own'
    BY <1>1, <2>1 DEF TypeOK, Holds, Own, FetchedOwn, Fresh, Session
  <2>6. SameAge'
    BY <1>1 DEF SameAge
  <2>7. QED
    BY <2>2, <2>3, <2>4, <2>5, <2>6
<1>2. ASSUME NEW c \in Callers, Authenticate(c) PROVE Inv'
  <2> USE DEF Authenticate, Return, Answers, Calls
  <2>1. TypeOK'
    BY <1>2 DEF TypeOK, Holds
  <2>2. Holds'
    BY <1>2 DEF TypeOK, Holds
  <2>3. Exclusive'
    BY <1>2 DEF TypeOK, Holds, Exclusive
  <2>4. Own'
    BY <1>2 DEF TypeOK, Holds, Exclusive, Own, FetchedOwn, Session
  <2>5. SameAge'
    BY <1>2 DEF SameAge
  <2>6. QED
    BY <2>1, <2>2, <2>3, <2>4, <2>5
<1>3. ASSUME NEW c \in Callers, RegisterSession(c) PROVE Inv'
  <2> DEFINE s == [client |-> client[c], idle |-> 0, unused |-> 0]
  <2> USE DEF RegisterSession, Return, Answers, Calls
  <2>1. s \in Session /\ user[c] \in Users /\ client[c] \in HttpClients
    BY <1>3 DEF Holds, Session, Ticks
  <2>2. /\ sessions' \in [Users -> Session \cup {None}]
        /\ sessions'[user[c]] = s
        /\ \A v \in Users \ {user[c]} : sessions'[v] \in {None, sessions[v]}
    BY <1>3, <2>1, PrunedTyped
  <2>3. TypeOK'
    BY <1>3, <2>2 DEF TypeOK
  <2>4. Holds'
    BY <1>3 DEF TypeOK, Holds
  <2>5. Exclusive'
    BY <1>3, <2>1, <2>2 DEF TypeOK, Holds, Exclusive
  <2>6. Own'
    BY <1>3, <2>1, <2>2 DEF TypeOK, Holds, Own, FetchedOwn
  <2>7. SameAge'
    BY <2>1, <2>2 DEF SameAge
  <2>8. QED
    BY <2>3, <2>4, <2>5, <2>6, <2>7
<1>4. ASSUME NEW c \in Callers, NEW u \in Users, GetGrades(c, u) PROVE Inv'
  BY <1>4 DEF GetGrades, Idle, Answers, Calls, TypeOK, Holds, Exclusive, Own, FetchedOwn, SameAge
<1>5. ASSUME NEW c \in Callers, LookupSession(c) PROVE Inv'
  <2> USE DEF LookupSession, Return, Answers, Calls
  <2>1. user[c] \in Users
    BY <1>5 DEF Holds
  <2>2. CASE Pruned[user[c]] = None
    <3>1. \A v \in Users : sessions'[v] \in {None, sessions[v]}
      BY <1>5, <2>2, PrunedTyped
    <3>2. TypeOK'
      BY <1>5, <2>2, PrunedTyped DEF TypeOK
    <3>3. Holds' /\ Exclusive' /\ Own' /\ SameAge'
      BY <1>5, <2>2, <3>1 DEF TypeOK, Holds, Exclusive, Own, FetchedOwn, SameAge
    <3>4. QED
      BY <3>2, <3>3
  <2>3. CASE Pruned[user[c]] # None
    <3>1. /\ sessions' \in [Users -> Session \cup {None}]
          /\ sessions[user[c]] # None /\ Pruned[user[c]] = sessions[user[c]]
          /\ sessions'[user[c]] # None /\ sessions'[user[c]].client = sessions[user[c]].client
          /\ sessions'[user[c]].idle = 0 /\ sessions'[user[c]].unused = 0
          /\ \A v \in Users \ {user[c]} : sessions'[v] \in {None, sessions[v]}
      BY <1>5, <2>1, <2>3, TouchedTyped, PrunedTyped
    <3>2. sessions[user[c]].client \in HttpClients
      BY <2>1, <3>1 DEF TypeOK, Session
    <3>3. /\ pc' = [pc EXCEPT ![c] = "fetch"]
          /\ client' = [client EXCEPT ![c] = sessions[user[c]].client]
          /\ UNCHANGED <<jar, alive, user, page>>
      BY <1>5, <2>3, <3>1
    <3>4. TypeOK'
      BY <3>1, <3>2, <3>3 DEF TypeOK
    <3>5. Holds'
      BY <2>1, <3>2, <3>3 DEF TypeOK, Holds
    <3>6. Exclusive'
      BY <2>1, <3>1, <3>2, <3>3 DEF TypeOK, Holds, Exclusive
    <3>7. Own'
      BY <2>1, <3>1, <3>2, <3>3 DEF TypeOK, Own, FetchedOwn
    <3>8. SameAge'
      BY <3>1 DEF SameAge
    <3>9. QED
      BY <3>4, <3>5, <3>6, <3>7, <3>8
  <2>4. QED
    BY <2>2, <2>3
<1>6. ASSUME NEW c \in Callers, FetchGrades(c) PROVE Inv'
  BY <1>6 DEF FetchGrades, Return, Answers, Calls, TypeOK, Holds, Exclusive, Own, FetchedOwn, SameAge
<1>7. ASSUME NEW c \in Callers, NEW u \in Users, CloseSession(c, u) PROVE Inv'
  BY <1>7 DEF CloseSession, Idle, Return, Answers, Calls, TypeOK, Holds, Exclusive, Own, FetchedOwn, SameAge
<1>8. CASE Close \/ Crash
  BY <1>8 DEF Close, Crash, Answers, Calls, TypeOK, Holds, Exclusive, Own, FetchedOwn, SameAge
<1>9. ASSUME NEW h \in HttpClients, PortalEnds(h) PROVE Inv'
  BY <1>9 DEF PortalEnds, TypeOK, Holds, Exclusive, Own, FetchedOwn, SameAge
<1>10. CASE Tick
  <2>1. \A u \in Users : \/ sessions[u] = None /\ sessions'[u] = None
                         \/ /\ sessions[u] # None /\ sessions'[u] \in Session
                            /\ sessions'[u].client = sessions[u].client
                            /\ sessions'[u].idle = Later(sessions[u].idle)
                            /\ sessions'[u].unused = Later(sessions[u].unused)
    BY <1>10, LaterTyped DEF Tick
  <2>2. sessions' \in [Users -> Session \cup {None}]
    BY <1>10, LaterTyped DEF Tick
  <2>3. TypeOK'
    BY <1>10, <2>2 DEF Tick, TypeOK
  <2>4. UNCHANGED <<jar, alive, pc, user, client, page>>
    BY <1>10 DEF Tick
  <2>5. Holds' /\ SameAge'
    BY <2>1, <2>4 DEF Holds, SameAge
  <2>6. Exclusive'
    BY <2>1, <2>4 DEF Exclusive
  <2>7. Own'
    BY <2>1, <2>4 DEF Own, FetchedOwn
  <2>8. QED
    BY <2>3, <2>5, <2>6, <2>7
<1>11. CASE UNCHANGED vars
  BY <1>11 DEF vars, TypeOK, Holds, Exclusive, Own, FetchedOwn, SameAge
<1>12. QED
  BY <1>1, <1>2, <1>3, <1>4, <1>5, <1>6, <1>7, <1>8, <1>9, <1>10, <1>11 DEF Next, Call, Serve

(* The inductive invariant, which also keeps the clients of running logins  *)
(* apart from every session and from one another, holds in every state.     *)
THEOREM Invariance == Spec => []Inv
BY InitInv, StepInv, PTL DEF Spec

(* Every variable keeps its type. *)
THEOREM TypeCorrect == Spec => []TypeOK
BY Invariance, PTL DEF Inv

(* No student is given another student's grades. *)
THEOREM OwnGradesOnly == Spec => []FetchedOwn
<1>1. Inv => FetchedOwn
  BY DEF Inv, Own
<1>2. QED
  BY <1>1, Invariance, PTL

(* No call is given a session idle for longer than the TTL. *)
THEOREM HandoutsWithinTTL == Spec => HandedOutWithinTTL
<1>1. ASSUME Inv, [Next]_vars, NEW c \in Callers, pc[c] = "lookup", pc'[c] = "fetch"
      PROVE  sessions[user[c]].unused <= TTL
  <2>t. pc \in [Callers -> Calls \cup Answers]
    BY <1>1 DEF Inv, TypeOK
  <2>1. LookupSession(c) /\ Pruned[user[c]] # None
    BY <1>1, <2>t DEF Next, Call, Serve, GetUser, GetGrades, CloseSession, Idle, Answers,
       Authenticate, RegisterSession, LookupSession, FetchGrades, Return, PortalEnds, Close,
       Crash, Tick, vars
  <2>2. user[c] \in Users
    BY <1>1 DEF Inv, Holds, Calls
  <2>3. sessions[user[c]] # None /\ ~ Expired(sessions[user[c]])
    BY <2>1, <2>2 DEF Pruned
  <2>4. sessions[user[c]].idle \in Nat
    BY <1>1, <2>2, <2>3 DEF Inv, TypeOK, Session, Ticks
  <2>5. QED
    BY <1>1, <2>2, <2>3, <2>4 DEF Inv, SameAge, Expired
<1>2. Inv /\ [Next]_vars =>
        [\A c \in Callers : pc[c] = "lookup" /\ pc'[c] = "fetch"
           => sessions[user[c]].unused <= TTL]_vars
  BY <1>1
<1>3. QED
  BY <1>2, Invariance, PTL DEF Spec, HandedOutWithinTTL

(* A session in use survives everybody but its own user and the process. *)
THEOREM SessionsKept == Spec => KeptWhileUsed
<1>1. ASSUME Inv, [Next]_vars, NEW u \in Users,
             sessions[u] # None, sessions'[u] = None, sessions[u].unused <= TTL
      PROVE  (\E c \in Callers : CloseSession(c, u)) \/ Close \/ Crash
  <2>1. sessions[u] \in Session /\ sessions[u].idle = sessions[u].unused
    BY <1>1 DEF Inv, TypeOK, SameAge
  <2>2. Pruned[u] = sessions[u]
    BY <1>1, <2>1 DEF Pruned, Expired, Session, Ticks
  <2>3. ASSUME NEW c \in Callers, RegisterSession(c) PROVE FALSE
    <3>1. user[c] \in Users /\ client[c] \in HttpClients
      BY <1>1, <2>3 DEF Inv, Holds, RegisterSession, Calls
    <3>2. [client |-> client[c], idle |-> 0, unused |-> 0] \in Session
      BY <3>1 DEF Session, Ticks
    <3>3. QED
      BY <1>1, <2>2, <2>3, <3>1, <3>2, PrunedTyped DEF Inv, RegisterSession
  <2>4. ASSUME NEW c \in Callers, LookupSession(c) PROVE FALSE
    <3>1. user[c] \in Users
      BY <1>1, <2>4 DEF Inv, Holds, LookupSession, Calls
    <3>2. QED
      BY <1>1, <2>2, <2>4, <3>1, TouchedTyped DEF Inv, LookupSession
  <2>5. ASSUME NEW c \in Callers, NEW v \in Users, CloseSession(c, v) PROVE v = u
    BY <1>1, <2>5 DEF CloseSession, Inv, TypeOK
  <2>6. ASSUME Tick PROVE FALSE
    BY <1>1, <2>6, LaterTyped DEF Inv, Tick
  <2>7. QED
    BY <1>1, <2>3, <2>4, <2>5, <2>6 DEF Next, Call, Serve, GetUser, GetGrades, Authenticate,
       FetchGrades, PortalEnds, vars
<1>2. Inv /\ [Next]_vars =>
        [\A u \in Users :
           sessions[u] # None /\ sessions'[u] = None /\ sessions[u].unused <= TTL
           => (\E c \in Callers : CloseSession(c, u)) \/ Close \/ Crash]_vars
  BY <1>1
<1>3. QED
  BY <1>2, Invariance, PTL DEF Spec, KeptWhileUsed

-----------------------------------------------------------------------------
(* UserParser implements SessionStates. *)
LEMMA InitStates == Init => States!Init
BY DEF Init, States!Init, State, Outcome

(* Every step on the map is a step on the abstract states, or invisible     *)
(* there.                                                                   *)
LEMMA StepStates == Inv /\ [Next]_vars => [States!Next]_(States!vars)
<1> SUFFICES ASSUME Inv, [Next]_vars
             PROVE  States!Next \/ UNCHANGED States!vars
  OBVIOUS
<1> USE DEF Inv
<1>t. pc \in [Callers -> Calls \cup Answers]
  BY DEF TypeOK
<1>p. ASSUME NEW u \in Users PROVE States!Pruned[u] = IF Pruned[u] = None THEN "none" ELSE "live"
  BY DEF States!Pruned, Pruned, State
<1>1. ASSUME NEW c \in Callers, NEW u \in Users, GetUser(c, u) \/ GetGrades(c, u) PROVE States!Next
  <2>1. Outcome' = [Outcome EXCEPT ![c] = "none"]
    <3>1. pc' \in {[pc EXCEPT ![c] = "authenticate"], [pc EXCEPT ![c] = "lookup"]}
      BY <1>1 DEF GetUser, GetGrades
    <3>2. \A d \in Callers : Outcome'[d] = IF d = c THEN "none" ELSE Outcome[d]
      BY <3>1, <1>t DEF Outcome
    <3>3. QED
      BY <3>2 DEF Outcome
  <2>2. UNCHANGED State
    BY <1>1 DEF GetUser, GetGrades, State
  <2>3. States!Begin(c)
    BY <2>1, <2>2 DEF States!Begin, States!Reports
  <2>4. QED
    BY <2>3 DEF States!Next
<1>2. ASSUME NEW c \in Callers, Authenticate(c) PROVE UNCHANGED States!vars
  <2>1. \A d \in Callers : Outcome'[d] = Outcome[d]
    BY <1>2, <1>t DEF Authenticate, Return, Outcome
  <2>2. UNCHANGED Outcome
    BY <2>1 DEF Outcome
  <2>3. QED
    BY <1>2, <2>2 DEF Authenticate, State, States!vars
<1>3. ASSUME NEW c \in Callers, RegisterSession(c) PROVE States!Next
  <2> DEFINE s == [client |-> client[c], idle |-> 0, unused |-> 0]
  <2>1. s \in Session /\ user[c] \in Users /\ ~ Expired(s)
    BY <1>3 DEF RegisterSession, Calls, Holds, Session, Ticks, Expired
  <2>2. sessions' = [Pruned EXCEPT ![user[c]] = s]
    BY <1>3 DEF RegisterSession
  <2>3. Outcome' = [Outcome EXCEPT ![c] = "registered"]
    BY <1>3, <1>t DEF RegisterSession, Return, Outcome
  <2>4. State' = [States!Pruned EXCEPT ![user[c]] = "live"]
    BY <2>1, <2>2 DEF State, States!Pruned, Pruned
  <2>5. States!Register(c, user[c])
    BY <2>3, <2>4 DEF States!Register, States!Reports
  <2>6. QED
    BY <2>1, <2>5 DEF States!Next
<1>4. ASSUME NEW c \in Callers, LookupSession(c) PROVE States!Next
  <2>1. user[c] \in Users
    BY <1>4 DEF LookupSession, Calls, Holds
  <2>2. CASE Pruned[user[c]] = None
    <3>1. sessions' = Pruned
      BY <1>4, <2>2 DEF LookupSession
    <3>2. State' = States!Pruned
      BY <3>1 DEF State, Pruned, States!Pruned
    <3>3. Outcome' = [Outcome EXCEPT ![c] = "notFound"]
      <4>1. pc' = [pc EXCEPT ![c] = "sessionNotFound"]
        BY <1>4, <2>2 DEF LookupSession, Return
      <4>2. QED
        BY <4>1, <1>t DEF Outcome
    <3>4. States!Lookup(c, user[c])
      BY <2>1, <2>2, <3>2, <3>3, <1>p DEF States!Lookup, States!Reports
    <3>5. QED
      BY <2>1, <3>4 DEF States!Next
  <2>3. CASE Pruned[user[c]] # None
    <3>1. sessions' = Touched(Pruned, user[c])
      BY <1>4, <2>3 DEF LookupSession
    <3>2. /\ sessions'[user[c]] # None /\ sessions'[user[c]].idle = 0
          /\ \A v \in Users \ {user[c]} : sessions'[v] = Pruned[v]
      BY <2>1, <2>3, <3>1, TouchedTyped
    <3>3. ASSUME NEW v \in Users PROVE State'[v] = States!Pruned[v]
      BY <2>1, <2>3, <3>2, <1>p DEF State, Expired, Pruned
    <3>4. State' = States!Pruned
      BY <3>3 DEF State, States!Pruned
    <3>5. Outcome' = [Outcome EXCEPT ![c] = "given"]
      BY <1>4, <2>3, <1>t DEF LookupSession, Outcome
    <3>6. States!Lookup(c, user[c])
      BY <2>1, <2>3, <3>4, <3>5, <1>p DEF States!Lookup, States!Reports
    <3>7. QED
      BY <2>1, <3>6 DEF States!Next
  <2>4. QED
    BY <2>2, <2>3
<1>5. ASSUME NEW c \in Callers, FetchGrades(c) PROVE UNCHANGED States!vars
  <2>1. \A d \in Callers : Outcome'[d] = Outcome[d]
    BY <1>5, <1>t DEF FetchGrades, Return, Outcome
  <2>2. UNCHANGED Outcome
    BY <2>1 DEF Outcome
  <2>3. QED
    BY <1>5, <2>2 DEF FetchGrades, State, States!vars
<1>6. ASSUME NEW c \in Callers, NEW u \in Users, CloseSession(c, u) PROVE States!Next
  <2>1. Outcome' = [Outcome EXCEPT ![c] = "closed"]
    BY <1>6, <1>t DEF CloseSession, Return, Outcome
  <2>2. State' = [State EXCEPT ![u] = "none"]
    BY <1>6 DEF CloseSession, TypeOK, State
  <2>3. States!Drop(c, u)
    BY <2>1, <2>2 DEF States!Drop, States!Reports
  <2>4. QED
    BY <2>3 DEF States!Next
<1>7. CASE Close \/ Crash
  <2>1. State' = [u \in Users |-> "none"]
    BY <1>7 DEF Close, Crash, State
  <2>2. Outcome' \in {Outcome, [c \in Callers |-> "none"]}
    BY <1>7 DEF Close, Crash, Outcome
  <2>3. States!DropAll
    BY <2>1, <2>2 DEF States!DropAll
  <2>4. QED
    BY <2>3 DEF States!Next
<1>8. ASSUME NEW h \in HttpClients, PortalEnds(h) PROVE UNCHANGED States!vars
  BY <1>8 DEF PortalEnds, State, Outcome, States!vars
<1>9. CASE Tick
  <2> DEFINE lapsing == {u \in Users : State[u] = "live" /\ State'[u] = "lapsed"}
  <2>1. ASSUME NEW u \in Users PROVE State'[u] = IF u \in lapsing THEN "lapsed" ELSE State[u]
    <3>1. CASE sessions[u] = None
      BY <1>9, <3>1 DEF Tick, State
    <3>2. CASE sessions[u] # None
      <4>1. sessions[u] \in Session /\ sessions[u].idle \in Nat
        BY <3>2 DEF TypeOK, Session, Ticks
      <4>2. sessions'[u] # None /\ sessions'[u].idle = Later(sessions[u].idle)
        BY <1>9, <3>2, LaterTyped DEF Tick
      <4>3. Expired(sessions[u]) => Expired(sessions'[u])
        BY <4>1, <4>2 DEF Expired, Later
      <4>4. QED
        BY <3>2, <4>2, <4>3 DEF State
    <3>3. QED
      BY <3>1, <3>2
  <2>2. State' = [u \in Users |-> IF u \in lapsing THEN "lapsed" ELSE State[u]]
    BY <2>1 DEF State
  <2>3. UNCHANGED Outcome
    BY <1>9 DEF Tick, Outcome
  <2>4. States!Lapse(lapsing)
    BY <2>2, <2>3 DEF States!Lapse
  <2>5. QED
    BY <2>4 DEF States!Next
<1>10. CASE UNCHANGED vars
  BY <1>10 DEF vars, State, Outcome, States!vars
<1>11. QED
  BY <1>1, <1>2, <1>3, <1>4, <1>5, <1>6, <1>7, <1>8, <1>9, <1>10 DEF Next, Call, Serve

(* The session map, with its clock and lazy pruning, does what UserManager  *)
(* assumes of it.                                                           *)
THEOREM Refinement == Spec => ImplementsSessionStates
BY InitStates, StepStates, Invariance, PTL DEF Spec, ImplementsSessionStates, States!Spec
=============================================================================
