----------------------------- MODULE AuthProofs -----------------------------
(***************************************************************************)
(* Proofs about Auth, for any devices, addresses, providers and limits.    *)
(***************************************************************************)
EXTENDS Auth, TLAPS

(* Logins of the running window that were let through. *)
Through(a) == IF hits[a] < RateLimitMax THEN hits[a] ELSE RateLimitMax

(* The i-th last login let through is out of reach: a window ago or let     *)
(* through by an earlier process.                                           *)
OutOfReach(a, i) == i > passed[a] \/ ages[a][i] = Window

(* What the window of an address says of the last logins let through: those *)
(* it counted are younger than it, the others are not, and those before the *)
(* window before are out of reach.                                          *)
Windows(a) ==
  /\ left[a] > 0 =>
       /\ hits[a] > 0
       /\ \A i \in Slots : i <= Through(a) => ages[a][i] <= Window - left[a]
       /\ \A i \in Slots : i > Through(a) => ages[a][i] >= Window - left[a]
       /\ \A i \in Slots : i > Through(a) + RateLimitMax => OutOfReach(a, i)
  /\ left[a] = 0 => \A i \in Slots : i > RateLimitMax => OutOfReach(a, i)

(* A token was signed when its role was granted; a login in flight has what *)
(* the running provider reports.                                            *)
Granted ==
  /\ \A u \in Users, r \in Roles : Reports[provider][u] = r => ago[u][r] = 0
  /\ \A d \in Devices : pc[d] \in {"save", "issue"} =>
       held[d] \in Roles /\ held[d] = Reports[provider][Owner[d]]
  /\ \A d \in Devices : cookie[d] # NoCookie =>
       ago[Owner[d]][cookie[d].role] <= TTL - cookie[d].left

IInv == TypeOK /\ (\A a \in Addresses : Windows(a)) /\ Granted

(* The slots there are. *)
LEMMA SlotsThere ==
  /\ RateLimitMax \in Nat \ {0} /\ Window \in Nat \ {0} /\ TTL \in Nat \ {0}
  /\ 1 \in Slots /\ RateLimitMax \in Slots /\ 2 * RateLimitMax \in Slots
  /\ \A i \in Slots : i \in Nat /\ i >= 1 /\ (i # 1 => i - 1 \in Slots)
  BY AuthAssumption DEF Slots

(* A login is counted and, when it passes, the newest of its address. *)
LEMMA LoginWindows ==
  ASSUME TypeOK, NEW d \in Devices, Login(d), NEW a \in Addresses, Windows(a)
  PROVE  Windows(a)'
  <1>1. Address[d] \in Addresses  BY AuthAssumption
  <1>2. /\ hits \in [Addresses -> 0..(RateLimitMax + 1)] /\ left \in [Addresses -> 0..Window]
        /\ ages \in [Addresses -> [Slots -> 0..Window]]
        /\ passed \in [Addresses -> 0..(2 * RateLimitMax)]
    BY DEF TypeOK
  <1>3. CASE a # Address[d]
    <2>1. hits'[a] = hits[a] /\ left'[a] = left[a] /\ ages'[a] = ages[a] /\ passed'[a] = passed[a]
      BY <1>1, <1>2, <1>3 DEF Login, Count, Passes
    <2> QED  BY <2>1 DEF Windows, Through, OutOfReach
  <1>4. CASE a = Address[d]
    <2>1. /\ hits'[a] = IF left[a] = 0 THEN 1 ELSE IF hits[a] > RateLimitMax THEN hits[a] ELSE hits[a] + 1
          /\ left'[a] = IF left[a] = 0 THEN Window ELSE left[a]
      BY <1>1, <1>2, <1>4 DEF Login, Count
    <2>2. \A i \in Slots : ages[a][i] \in Nat /\ ages[a][i] >= 0 /\ ages[a][i] <= Window
      BY <1>2
    <2>3. hits[a] \in Nat /\ left[a] \in Nat /\ left[a] <= Window /\ passed[a] \in Nat  BY <1>2
    <2>4. CASE Passes(a)
      <3>1. ages'[a] = [i \in Slots |-> IF i = 1 THEN 0 ELSE ages[a][i - 1]]
        BY <1>2, <1>4, <2>4 DEF Login
      <3>2. \A i \in Slots : ages'[a][i] = IF i = 1 THEN 0 ELSE ages[a][i - 1]  BY <3>1
      <3>5. passed'[a] \in Nat /\ passed'[a] <= passed[a] + 1
            /\ (passed[a] < 2 * RateLimitMax => passed'[a] = passed[a] + 1)
            /\ (passed[a] >= 2 * RateLimitMax => passed'[a] = passed[a])
        <4>1. passed'[a] = More(passed[a], 2 * RateLimitMax)  BY <1>1, <1>2, <1>4, <2>4 DEF Login
        <4>2. passed[a] \in 0..(2 * RateLimitMax)  BY <1>2
        <4> QED  BY <4>1, <4>2, SlotsThere DEF More
      <3>6. ASSUME NEW i \in Slots, i # 1, OutOfReach(a, i - 1)  PROVE OutOfReach(a, i)'
        <4>1. i - 1 \in Slots /\ ages'[a][i] = ages[a][i - 1] /\ i \in Nat /\ i <= 2 * RateLimitMax
          BY <3>2, <3>6, SlotsThere DEF Slots
        <4>2. CASE ages[a][i - 1] = Window  BY <4>1, <4>2 DEF OutOfReach
        <4>3. CASE i - 1 > passed[a]
          <5>1. i > passed'[a]  BY <2>3, <3>5, <4>1, <4>3, SlotsThere
          <5> QED  BY <5>1 DEF OutOfReach
        <4> QED  BY <3>6, <4>2, <4>3 DEF OutOfReach
      <3>3. CASE left[a] = 0
        <4>1. hits'[a] = 1 /\ left'[a] = Window /\ Through(a)' = 1
          BY <2>1, <3>3, SlotsThere DEF Through
        <4>2. \A i \in Slots : i <= 1 => ages'[a][i] <= Window - Window
          <5>1. ages'[a][1] = 0  BY <3>2, SlotsThere
          <5>2. \A i \in Slots : i <= 1 => i = 1  BY SlotsThere
          <5> QED  BY <5>1, <5>2, SlotsThere
        <4>3. \A i \in Slots : i > 1 => ages'[a][i] >= Window - Window
          BY <2>2, <3>2, SlotsThere
        <4>4. \A i \in Slots : i > 1 + RateLimitMax => OutOfReach(a, i)'
          <5>1. ASSUME NEW i \in Slots, i > 1 + RateLimitMax  PROVE OutOfReach(a, i)'
            <6>1. i # 1 /\ i - 1 \in Slots /\ i - 1 > RateLimitMax  BY <5>1, SlotsThere
            <6>2. OutOfReach(a, i - 1)  BY <3>3, <6>1 DEF Windows
            <6> QED  BY <3>6, <6>1, <6>2
          <5> QED  BY <5>1
        <4> QED  BY <4>1, <4>2, <4>3, <4>4, SlotsThere DEF Windows
      <3>4. CASE left[a] # 0
        <4>1. /\ hits[a] < RateLimitMax /\ hits'[a] = hits[a] + 1 /\ left'[a] = left[a]
              /\ Through(a) = hits[a] /\ Through(a)' = hits[a] + 1
          BY <2>1, <2>3, <2>4, <3>4, SlotsThere DEF Through, Passes
        <4>2. \A i \in Slots : i <= hits[a] + 1 => ages'[a][i] <= Window - left[a]
          BY <2>3, <3>2, <3>4, <4>1, SlotsThere DEF Windows
        <4>3. \A i \in Slots : i > hits[a] + 1 => ages'[a][i] >= Window - left[a]
          BY <2>3, <3>2, <3>4, <4>1, SlotsThere DEF Windows
        <4>4. \A i \in Slots : i > hits[a] + 1 + RateLimitMax => OutOfReach(a, i)'
          <5>1. ASSUME NEW i \in Slots, i > hits[a] + 1 + RateLimitMax  PROVE OutOfReach(a, i)'
            <6>1. i # 1 /\ i - 1 \in Slots /\ i - 1 > Through(a) + RateLimitMax
              BY <2>3, <4>1, <5>1, SlotsThere
            <6>2. OutOfReach(a, i - 1)  BY <2>3, <3>4, <6>1 DEF Windows
            <6> QED  BY <3>6, <6>1, <6>2
          <5> QED  BY <5>1
        <4> QED  BY <2>3, <3>4, <4>1, <4>2, <4>3, <4>4 DEF Windows
      <3> QED  BY <3>3, <3>4
    <2>5. CASE ~ Passes(a)
      <3>1. ages' = ages /\ passed' = passed  BY <1>4, <2>5 DEF Login
      <3>2. left[a] > 0 /\ left'[a] = left[a] /\ hits'[a] > RateLimitMax /\ hits[a] >= RateLimitMax
        BY <2>1, <2>3, <2>5, SlotsThere DEF Passes
      <3>3. Through(a)' = RateLimitMax /\ Through(a) = RateLimitMax
        <4>1. hits'[a] \in Nat /\ ~ (hits'[a] < RateLimitMax)  BY <2>1, <2>3, <3>2, SlotsThere
        <4>2. ~ (hits[a] < RateLimitMax)  BY <2>3, <3>2, SlotsThere
        <4> QED  BY <4>1, <4>2 DEF Through
      <3>4. hits'[a] > 0  BY <2>1, <2>3, <3>2, SlotsThere
      <3> QED  BY <3>1, <3>2, <3>3, <3>4, SlotsThere DEF Windows, OutOfReach
    <2> QED  BY <2>4, <2>5
  <1> QED  BY <1>3, <1>4

(* Time passes for the window and for the logins alike. *)
LEMMA TickWindows ==
  ASSUME TypeOK, Tick, NEW a \in Addresses, Windows(a)
  PROVE  Windows(a)'
  <1>1. /\ hits \in [Addresses -> 0..(RateLimitMax + 1)] /\ left \in [Addresses -> 0..Window]
        /\ ages \in [Addresses -> [Slots -> 0..Window]]
    BY DEF TypeOK
  <1>2. hits' = hits /\ passed' = passed /\ left'[a] = Less(left[a])  BY DEF Tick
  <1>3. \A i \in Slots : ages'[a][i] = More(ages[a][i], Window)  BY DEF Tick
  <1>4. Through(a)' = Through(a)  BY <1>2 DEF Through
  <1>5. \A i \in Slots : ages[a][i] \in Nat /\ ages[a][i] <= Window  BY <1>1
  <1>6. hits[a] \in Nat /\ left[a] \in Nat /\ left[a] <= Window /\ Through(a) \in Nat
        /\ Through(a) <= RateLimitMax
    BY <1>1, SlotsThere DEF Through
  <1>0. ASSUME NEW i \in Slots, OutOfReach(a, i)  PROVE OutOfReach(a, i)'
    <2>1. ages[a][i] = Window => ages'[a][i] = Window  BY <1>3 DEF More
    <2> QED  BY <1>0, <1>2, <2>1 DEF OutOfReach
  <1>7. CASE left[a] = 0
    <2>1. left'[a] = 0  BY <1>2, <1>7 DEF Less
    <2>2. \A i \in Slots : i > RateLimitMax => OutOfReach(a, i)'
      BY <1>0, <1>7 DEF Windows
    <2> QED  BY <2>1, <2>2 DEF Windows
  <1>8. CASE left[a] = 1
    <2>1. left'[a] = 0  BY <1>2, <1>8 DEF Less
    <2>2. \A i \in Slots : i > RateLimitMax => ages[a][i] >= Window - 1
      BY <1>6, <1>8, SlotsThere DEF Windows
    <2>3. \A i \in Slots : i > RateLimitMax => ages'[a][i] = Window
      BY <1>3, <1>5, <2>2, SlotsThere DEF More
    <2>4. \A i \in Slots : i > RateLimitMax => OutOfReach(a, i)'  BY <2>3 DEF OutOfReach
    <2> QED  BY <2>1, <2>4 DEF Windows
  <1>9. CASE left[a] > 1
    <2>1. left'[a] = left[a] - 1 /\ left'[a] > 0  BY <1>2, <1>6, <1>9 DEF Less
    <2>2. \A i \in Slots : i <= Through(a) => ages'[a][i] <= Window - left'[a]
      <3>1. TAKE i \in Slots
      <3>2. HAVE i <= Through(a)
      <3>3. ages[a][i] \in Nat /\ ages[a][i] <= Window - left[a]  BY <1>5, <1>6, <1>9, <3>2 DEF Windows
      <3>4. ages'[a][i] \in Nat /\ ages'[a][i] <= ages[a][i] + 1  BY <1>3, <3>3 DEF More
      <3> QED  BY <1>6, <2>1, <3>3, <3>4, SlotsThere
    <2>3. \A i \in Slots : i > Through(a) => ages'[a][i] >= Window - left'[a]
      BY <1>3, <1>5, <1>6, <1>9, <2>1, SlotsThere DEF Windows, More
    <2>4. \A i \in Slots : i > Through(a) + RateLimitMax => OutOfReach(a, i)'
      BY <1>0, <1>6, <1>9 DEF Windows
    <2>5. hits'[a] > 0  BY <1>2, <1>6, <1>9 DEF Windows
    <2> QED  BY <1>4, <1>6, <2>1, <2>2, <2>3, <2>4, <2>5 DEF Windows
  <1> QED  BY <1>6, <1>7, <1>8, <1>9

(* A process that has just started has an empty limiter. *)
LEMMA EmptyWindows ==
  ASSUME NEW a \in Addresses
  PROVE  /\ left[a] = 0 /\ passed[a] = 0 => Windows(a)
         /\ left'[a] = 0 /\ passed'[a] = 0 => Windows(a)'
  <1>1. \A i \in Slots : i > 0  BY SlotsThere
  <1>2. left[a] = 0 /\ passed[a] = 0 => Windows(a)  BY <1>1 DEF Windows, OutOfReach
  <1>3. left'[a] = 0 /\ passed'[a] = 0 => Windows(a)'  BY <1>1 DEF Windows, OutOfReach
  <1> QED  BY <1>2, <1>3

(* The clocks of roles keep their type and start anew for reported roles. *)
LEMMA AgoTyped ==
  ASSUME NEW p \in Providers, NEW before \in [Users -> [Roles -> 0..TTL]]
  PROVE  /\ Ago(p, before) \in [Users -> [Roles -> 0..TTL]]
         /\ \A u \in Users, r \in Roles :
              /\ Reports[p][u] = r => Ago(p, before)[u][r] = 0
              /\ Ago(p, before)[u][r] <= before[u][r]
  BY SlotsThere DEF Ago

(* A clock stays within its limits. *)
LEMMA Clocks ==
  ASSUME NEW most \in Nat, NEW n \in 0..most
  PROVE  /\ Less(n) \in 0..most /\ More(n, most) \in 0..most
         /\ (n > 0 => Less(n) = n - 1) /\ (n = 0 => Less(n) = 0)
         /\ More(n, most) <= n + 1
  BY DEF Less, More

(* The values keep their types. *)
LEMMA TypedStep ==
  ASSUME IInv, [Next]_vars
  PROVE  TypeOK'
  <1>1. /\ provider \in Providers
        /\ hits \in [Addresses -> 0..(RateLimitMax + 1)]
        /\ left \in [Addresses -> 0..Window]
        /\ cookie \in [Devices -> [role : Roles, left : 0..TTL] \cup {NoCookie}]
        /\ pc \in [Devices -> Places]
        /\ held \in [Devices -> Roles \cup {Refused}]
        /\ ages \in [Addresses -> [Slots -> 0..Window]]
        /\ passed \in [Addresses -> 0..(2 * RateLimitMax)]
        /\ ago \in [Users -> [Roles -> 0..TTL]]
    BY DEF IInv, TypeOK
  <1>2. ASSUME NEW d \in Devices, Login(d)  PROVE TypeOK'
    <2>1. Address[d] \in Addresses  BY AuthAssumption
    <2>2. hits' \in [Addresses -> 0..(RateLimitMax + 1)] /\ left' \in [Addresses -> 0..Window]
      BY <1>1, <1>2, <2>1, SlotsThere DEF Login, Count
    <2>3. ages' \in [Addresses -> [Slots -> 0..Window]]
      <3>1. [i \in Slots |-> IF i = 1 THEN 0 ELSE ages[Address[d]][i - 1]] \in [Slots -> 0..Window]
        BY <1>1, <2>1, SlotsThere
      <3>2. CASE Passes(Address[d])  BY <1>1, <1>2, <3>1, <3>2 DEF Login
      <3>3. CASE ~ Passes(Address[d])  BY <1>1, <1>2, <3>3 DEF Login
      <3> QED  BY <3>2, <3>3
    <2>4. pc' \in [Devices -> Places]  BY <1>1, <1>2 DEF Login, Goto, Places, Answers
    <2>5. passed' \in [Addresses -> 0..(2 * RateLimitMax)]
      <3>1. passed[Address[d]] \in 0..(2 * RateLimitMax) /\ 2 * RateLimitMax \in Nat
        BY <1>1, <2>1, SlotsThere
      <3>2. More(passed[Address[d]], 2 * RateLimitMax) \in 0..(2 * RateLimitMax)
        BY <3>1, Clocks
      <3> QED  BY <1>1, <1>2, <2>1, <3>2 DEF Login
    <2>6. UNCHANGED <<provider, cookie, held, ago>>  BY <1>2 DEF Login
    <2> QED  BY <1>1, <2>2, <2>3, <2>4, <2>5, <2>6 DEF TypeOK
  <1>3. ASSUME NEW d \in Devices, Authenticate(d)  PROVE TypeOK'
    <2>1. Reports[provider][Owner[d]] \in Roles \cup {Refused}  BY <1>1, AuthAssumption
    <2>2. pc' \in [Devices -> Places] /\ held' \in [Devices -> Roles \cup {Refused}]
      BY <1>1, <1>3, <2>1 DEF Authenticate, Goto, Places, Answers
    <2> QED  BY <1>1, <1>3, <2>2 DEF Authenticate, TypeOK, limiter
  <1>4. ASSUME NEW d \in Devices, Save(d)  PROVE TypeOK'
    <2>1. pc' \in [Devices -> Places] /\ held' \in [Devices -> Roles \cup {Refused}]
      BY <1>1, <1>4 DEF Save, Goto, Places, Answers
    <2> QED  BY <1>1, <1>4, <2>1 DEF Save, TypeOK, limiter
  <1>5. ASSUME NEW d \in Devices, Issue(d)  PROVE TypeOK'
    <2>1. held[d] \in Roles  BY <1>5 DEF IInv, Granted, Issue
    <2>2. [role |-> held[d], left |-> TTL] \in [role : Roles, left : 0..TTL]  BY <2>1, SlotsThere
    <2>3. cookie' \in [Devices -> [role : Roles, left : 0..TTL] \cup {NoCookie}]
      BY <1>1, <1>5, <2>2 DEF Issue
    <2>4. /\ pc' \in [Devices -> Places] /\ held' \in [Devices -> Roles \cup {Refused}]
      BY <1>1, <1>5 DEF Issue, Goto, Places, Answers
    <2> QED  BY <1>1, <1>5, <2>3, <2>4 DEF Issue, TypeOK, limiter
  <1>6. ASSUME NEW d \in Devices, AdminPing(d)  PROVE TypeOK'
    <2>1. pc' \in [Devices -> Places]  BY <1>1, <1>6 DEF AdminPing, Goto, Places, Answers
    <2> QED  BY <1>1, <1>6, <2>1 DEF AdminPing, TypeOK, limiter
  <1>7. ASSUME NEW d \in Devices, Logout(d)  PROVE TypeOK'
    <2>1. /\ pc' \in [Devices -> Places]
          /\ cookie' \in [Devices -> [role : Roles, left : 0..TTL] \cup {NoCookie}]
      BY <1>1, <1>7 DEF Logout, Goto, Places, Answers
    <2> QED  BY <1>1, <1>7, <2>1 DEF Logout, TypeOK, limiter
  <1>8. CASE Tick
    <2>9. Window \in Nat /\ TTL \in Nat  BY SlotsThere
    <2>1. left' \in [Addresses -> 0..Window]
      <3>1. \A a \in Addresses : Less(left[a]) \in 0..Window  BY <1>1, <2>9, Clocks
      <3> QED  BY <1>8, <3>1 DEF Tick
    <2>2. \A d \in Devices : cookie'[d] \in [role : Roles, left : 0..TTL] \cup {NoCookie}
      <3>1. TAKE d \in Devices
      <3>2. CASE cookie[d] = NoCookie  BY <1>8, <3>2 DEF Tick
      <3>3. CASE cookie[d] # NoCookie
        <4>1. cookie[d] \in [role : Roles, left : 0..TTL]  BY <1>1, <3>3
        <4>2. Less(cookie[d].left) \in 0..TTL  BY <2>9, <4>1, Clocks
        <4>3. cookie'[d] = [cookie[d] EXCEPT !.left = Less(cookie[d].left)]  BY <1>8, <3>3 DEF Tick
        <4> QED  BY <4>1, <4>2, <4>3
      <3> QED  BY <3>2, <3>3
    <2>3. cookie' \in [Devices -> [role : Roles, left : 0..TTL] \cup {NoCookie}]
      BY <1>8, <2>2 DEF Tick
    <2>4. \A a \in Addresses, i \in Slots : More(ages[a][i], Window) \in 0..Window
      BY <1>1, <2>9, Clocks
    <2>5. ages' \in [Addresses -> [Slots -> 0..Window]]  BY <1>8, <2>4 DEF Tick
    <2>6. [u \in Users |-> [r \in Roles |-> More(ago[u][r], TTL)]] \in [Users -> [Roles -> 0..TTL]]
      <3>1. \A u \in Users, r \in Roles : More(ago[u][r], TTL) \in 0..TTL  BY <1>1, <2>9, Clocks
      <3> QED  BY <3>1
    <2>7. ago' \in [Users -> [Roles -> 0..TTL]]  BY <1>1, <1>8, <2>6, AgoTyped DEF Tick
    <2> QED  BY <1>1, <1>8, <2>1, <2>3, <2>5, <2>7 DEF Tick, TypeOK
  <1>10. ASSUME NEW p \in Providers, Restart(p)  PROVE TypeOK'
    <2>2. ago' \in [Users -> [Roles -> 0..TTL]]  BY <1>1, <1>10, AgoTyped DEF Restart
    <2>3. passed' \in [Addresses -> 0..(2 * RateLimitMax)]  BY <1>10, SlotsThere DEF Restart
    <2> QED  BY <1>1, <1>10, <2>2, <2>3, SlotsThere DEF Restart, TypeOK, Places, Answers
  <1>11. CASE UNCHANGED vars  BY <1>1, <1>11 DEF vars, limiter, TypeOK
  <1> QED
    BY <1>2, <1>3, <1>4, <1>5, <1>6, <1>7, <1>8, <1>10, <1>11 DEF Next, Serve

(* Tokens and logins in flight keep to what the provider granted. *)
LEMMA GrantedStep ==
  ASSUME IInv, TypeOK', [Next]_vars
  PROVE  Granted'
  <1> DEFINE Grant(d) ==
        cookie[d] # NoCookie => ago[Owner[d]][cookie[d].role] <= TTL - cookie[d].left
  <1>1. /\ provider \in Providers
        /\ cookie \in [Devices -> [role : Roles, left : 0..TTL] \cup {NoCookie}]
        /\ pc \in [Devices -> Places]
        /\ held \in [Devices -> Roles \cup {Refused}]
        /\ ago \in [Users -> [Roles -> 0..TTL]]
        /\ \A d \in Devices : Owner[d] \in Users
    BY AuthAssumption DEF IInv, TypeOK
  <1>2. /\ \A u \in Users, r \in Roles : Reports[provider][u] = r => ago[u][r] = 0
        /\ \A d \in Devices : pc[d] \in {"save", "issue"} =>
             held[d] \in Roles /\ held[d] = Reports[provider][Owner[d]]
        /\ \A d \in Devices : Grant(d)
    BY DEF IInv, Granted
  <1>3. ASSUME NEW d \in Devices, Login(d)  PROVE Granted'
    BY <1>1, <1>2, <1>3 DEF Login, Goto, Granted
  <1>4. ASSUME NEW d \in Devices, Authenticate(d)  PROVE Granted'
    <2>1. Reports[provider][Owner[d]] \in Roles \cup {Refused}  BY <1>1, AuthAssumption
    <2> QED  BY <1>1, <1>2, <1>4, <2>1 DEF Authenticate, Goto, Granted
  <1>5. ASSUME NEW d \in Devices, Save(d)  PROVE Granted'
    BY <1>1, <1>2, <1>5 DEF Save, Goto, Granted
  <1>6. ASSUME NEW d \in Devices, Issue(d)  PROVE Granted'
    <2>1. held[d] \in Roles /\ ago[Owner[d]][held[d]] = 0  BY <1>1, <1>2, <1>6 DEF Issue
    <2>2. cookie' = [cookie EXCEPT ![d] = [role |-> held[d], left |-> TTL]] /\ ago' = ago
      BY <1>6 DEF Issue
    <2>3. \A q \in Devices : Grant(q)'
      <3>1. TAKE q \in Devices
      <3>2. CASE q = d
        <4>1. cookie'[q].role = held[d] /\ cookie'[q].left = TTL  BY <1>1, <2>2, <3>2
        <4> QED  BY <2>1, <2>2, <3>2, <4>1, SlotsThere
      <3>3. CASE q # d  BY <1>1, <1>2, <2>2, <3>3
      <3> QED  BY <3>2, <3>3
    <2>4. \A q \in Devices : pc'[q] \in {"save", "issue"} =>
            held'[q] \in Roles /\ held'[q] = Reports[provider'][Owner[q]]
      BY <1>1, <1>2, <1>6 DEF Issue, Goto
    <2> QED  BY <1>2, <1>6, <2>3, <2>4 DEF Issue, Granted
  <1>7. ASSUME NEW d \in Devices, AdminPing(d)  PROVE Granted'
    BY <1>1, <1>2, <1>7 DEF AdminPing, Goto, Granted
  <1>8. ASSUME NEW d \in Devices, Logout(d)  PROVE Granted'
    BY <1>1, <1>2, <1>8 DEF Logout, Goto, Granted
  <1>9. CASE Tick
    <2>1. TTL \in Nat  BY SlotsThere
    <2>2. \A u \in Users, r \in Roles : More(ago[u][r], TTL) \in 0..TTL /\ More(ago[u][r], TTL) <= ago[u][r] + 1
      BY <1>1, <2>1, Clocks
    <2> DEFINE later == [u \in Users |-> [r \in Roles |-> More(ago[u][r], TTL)]]
    <2>3. later \in [Users -> [Roles -> 0..TTL]]  BY <2>2
    <2>4. ago' = Ago(provider, later) /\ provider' = provider  BY <1>9 DEF Tick
    <2>5. \A u \in Users, r \in Roles :
            /\ Reports[provider'][u] = r => ago'[u][r] = 0
            /\ ago'[u][r] <= later[u][r]
      BY <1>1, <2>3, <2>4, AgoTyped
    <2>6. \A u \in Users, r \in Roles : ago'[u][r] \in 0..TTL /\ ago'[u][r] <= ago[u][r] + 1
      <3>1. TAKE u \in Users, r \in Roles
      <3>2. ago'[u][r] \in 0..TTL  BY DEF TypeOK
      <3>3. later[u][r] = More(ago[u][r], TTL)  OBVIOUS
      <3>4. ago'[u][r] <= later[u][r]  BY <2>5
      <3>5. ago[u][r] \in Nat /\ later[u][r] \in Nat  BY <1>1, <2>2, <3>3
      <3> QED  BY <2>2, <3>2, <3>3, <3>4, <3>5
    <2>7. \A d \in Devices : Grant(d)'
      <3>1. TAKE d \in Devices
      <3>2. CASE cookie[d] = NoCookie  BY <1>9, <3>2 DEF Tick
      <3>3. CASE cookie[d] # NoCookie
        <4>1. cookie[d] \in [role : Roles, left : 0..TTL]  BY <1>1, <3>3
        <4>2. cookie'[d] = [cookie[d] EXCEPT !.left = Less(cookie[d].left)]  BY <1>9, <3>3 DEF Tick
        <4>3. cookie'[d].role = cookie[d].role /\ cookie'[d].left = Less(cookie[d].left)
          BY <4>1, <4>2
        <4>4. cookie[d].role \in Roles /\ cookie[d].left \in 0..TTL  BY <4>1
        <4>5. ago'[Owner[d]][cookie[d].role] \in 0..TTL
              /\ ago'[Owner[d]][cookie[d].role] <= ago[Owner[d]][cookie[d].role] + 1
          BY <1>1, <2>6, <4>4
        <4>6. ago[Owner[d]][cookie[d].role] <= TTL - cookie[d].left /\ ago[Owner[d]][cookie[d].role] \in 0..TTL
          BY <1>1, <1>2, <3>3, <4>4
        <4>7. ago'[Owner[d]][cookie[d].role] <= TTL - Less(cookie[d].left)
          <5>1. CASE cookie[d].left = 0  BY <2>1, <4>5, <5>1 DEF Less
          <5>2. CASE cookie[d].left > 0
            <6>1. Less(cookie[d].left) = cookie[d].left - 1  BY <4>4, <5>2 DEF Less
            <6> QED  BY <2>1, <4>4, <4>5, <4>6, <6>1
          <5> QED  BY <4>4, <5>1, <5>2
        <4> QED  BY <4>3, <4>7
      <3> QED  BY <3>2, <3>3
    <2>8. \A q \in Devices : pc'[q] \in {"save", "issue"} =>
            held'[q] \in Roles /\ held'[q] = Reports[provider'][Owner[q]]
      BY <1>2, <1>9 DEF Tick
    <2> QED  BY <2>5, <2>7, <2>8 DEF Granted
  <1>11. ASSUME NEW p \in Providers, Restart(p)  PROVE Granted'
    <2>1. ago' = Ago(p, ago) /\ provider' = p /\ cookie' = cookie  BY <1>11 DEF Restart
    <2>2. \A v \in Users, r \in Roles :
            /\ Reports[provider'][v] = r => ago'[v][r] = 0
            /\ ago'[v][r] <= ago[v][r]
      BY <1>1, <2>1, AgoTyped
    <2>3. \A d \in Devices : Grant(d)'
      <3>1. TAKE d \in Devices
      <3>2. HAVE cookie'[d] # NoCookie
      <3>3. cookie[d] \in [role : Roles, left : 0..TTL]  BY <1>1, <2>1, <3>2
      <3>4. cookie[d].role \in Roles /\ cookie[d].left \in 0..TTL  BY <3>3
      <3>5. ago'[Owner[d]][cookie[d].role] <= ago[Owner[d]][cookie[d].role]
            /\ ago[Owner[d]][cookie[d].role] \in 0..TTL /\ ago'[Owner[d]][cookie[d].role] \in 0..TTL
        BY <1>1, <2>2, <3>4 DEF TypeOK
      <3>6. ago[Owner[d]][cookie[d].role] <= TTL - cookie[d].left  BY <1>2, <2>1, <3>2
      <3> QED  BY <2>1, <3>4, <3>5, <3>6, SlotsThere
    <2>4. \A d \in Devices : pc'[d] = "idle"  BY <1>11 DEF Restart
    <2> QED  BY <2>2, <2>3, <2>4 DEF Granted
  <1>12. CASE UNCHANGED vars  BY <1>2, <1>12 DEF vars, limiter, Granted
  <1> QED
    BY <1>3, <1>4, <1>5, <1>6, <1>7, <1>8, <1>9, <1>11, <1>12 DEF Next, Serve

(* Windows, tokens and types hold together in every state. *)
THEOREM Guarded == Spec => []IInv
  <1>1. Init => IInv
    <2>1. SUFFICES ASSUME Init PROVE IInv  OBVIOUS
    <2>2. [u \in Users |-> [r \in Roles |-> TTL]] \in [Users -> [Roles -> 0..TTL]]  BY SlotsThere
    <2>3. /\ ago \in [Users -> [Roles -> 0..TTL]]
          /\ \A u \in Users, r \in Roles : Reports[provider][u] = r => ago[u][r] = 0
      BY <2>1, <2>2, AgoTyped DEF Init
    <2>4. LongAgo \in [Slots -> 0..Window]  BY SlotsThere DEF LongAgo
    <2>8. /\ passed \in [Addresses -> 0..(2 * RateLimitMax)]
          /\ hits \in [Addresses -> 0..(RateLimitMax + 1)] /\ left \in [Addresses -> 0..Window]
          /\ ages \in [Addresses -> [Slots -> 0..Window]]
      BY <2>1, <2>4, SlotsThere DEF Init
    <2>9. /\ provider \in Providers
          /\ cookie \in [Devices -> [role : Roles, left : 0..TTL] \cup {NoCookie}]
          /\ pc \in [Devices -> Places] /\ held \in [Devices -> Roles \cup {Refused}]
      BY <2>1 DEF Init, Places, Answers
    <2>5. TypeOK  BY <2>3, <2>8, <2>9 DEF TypeOK
    <2>6. \A a \in Addresses : left[a] = 0 /\ passed[a] = 0  BY <2>1 DEF Init
    <2>7. Granted  BY <2>1, <2>3 DEF Init, Granted
    <2> QED  BY <2>5, <2>6, <2>7, EmptyWindows DEF IInv
  <1>2. ASSUME IInv, [Next]_vars  PROVE IInv'
    <2>1. TypeOK'  BY <1>2, TypedStep
    <2>2. Granted'  BY <1>2, <2>1, GrantedStep
    <2>3. ASSUME NEW a \in Addresses  PROVE Windows(a)'
      <3>1. CASE \E d \in Devices : Login(d)  BY <1>2, <2>3, <3>1, LoginWindows DEF IInv
      <3>2. CASE Tick  BY <1>2, <2>3, <3>2, TickWindows DEF IInv
      <3>3. CASE \E p \in Providers : Restart(p)
        <4>1. left'[a] = 0 /\ passed'[a] = 0  BY <2>3, <3>3 DEF Restart
        <4> QED  BY <2>3, <4>1, EmptyWindows
      <3>4. CASE UNCHANGED limiter
        BY <1>2, <2>3, <3>4 DEF IInv, Windows, Through, OutOfReach, limiter
      <3>5. CASE \E d \in Devices : Serve(d) \/ AdminPing(d) \/ Logout(d)
        BY <3>4, <3>5 DEF Serve, Authenticate, Save, Issue, AdminPing, Logout
      <3>7. CASE UNCHANGED vars  BY <3>4, <3>7 DEF vars
      <3> QED  BY <1>2, <3>1, <3>2, <3>3, <3>5, <3>7 DEF Next
    <2> QED  BY <2>1, <2>2, <2>3 DEF IInv
  <1> QED  BY <1>1, <1>2, PTL DEF Spec

(* Types, the lifetime of tokens included. *)
THEOREM AuthTypeCorrect == Spec => []TypeOK
  <1>1. IInv => TypeOK  BY DEF IInv
  <1> QED  BY <1>1, Guarded, PTL

(* A role opens nothing TTL after its grant. *)
THEOREM RolesNotOutdated == Spec => []RoleNotOutdated
  <1>1. IInv => RoleNotOutdated
    <2>1. SUFFICES ASSUME IInv, NEW d \in Devices, LetIn(d)
                   PROVE  ago[Owner[d]][cookie[d].role] < TTL
      BY DEF RoleNotOutdated
    <2>2. cookie[d] \in [role : Roles, left : 0..TTL] /\ cookie[d].left > 0
      BY <2>1 DEF IInv, TypeOK, LetIn
    <2>3. ago[Owner[d]][cookie[d].role] <= TTL - cookie[d].left
      BY <2>1 DEF IInv, Granted, LetIn
    <2>4. ago[Owner[d]][cookie[d].role] \in 0..TTL
      BY <2>1, <2>2, AuthAssumption DEF IInv, TypeOK
    <2> QED  BY <2>2, <2>3, <2>4, SlotsThere
  <1> QED  BY <1>1, Guarded, PTL

(* What a login finds in the limiter. *)
LEMMA LoginFinds ==
  ASSUME IInv, NEW d \in Devices, Login(d)
  PROVE  /\ Passes(Address[d]) => OutOfReach(Address[d], 2 * RateLimitMax)
         /\ ~ Passes(Address[d]) => ages[Address[d]][RateLimitMax] < Window
  <1> DEFINE a == Address[d]
  <1>1. a \in Addresses  BY AuthAssumption
  <1>2. hits[a] \in Nat /\ left[a] \in 0..Window /\ ages[a] \in [Slots -> 0..Window] /\ Windows(a)
    BY <1>1 DEF IInv, TypeOK
  <1>3. hits'[a] = IF left[a] = 0 THEN 1 ELSE IF hits[a] > RateLimitMax THEN hits[a] ELSE hits[a] + 1
    BY <1>1 DEF Login, Count, IInv, TypeOK
  <1>4. ASSUME Passes(a)  PROVE OutOfReach(a, 2 * RateLimitMax)
    <2>1. CASE left[a] = 0  BY <1>2, <2>1, SlotsThere DEF Windows
    <2>2. CASE left[a] # 0
      <3>1. hits[a] < RateLimitMax  BY <1>2, <1>3, <1>4, <2>2, SlotsThere DEF Passes
      <3>2. 2 * RateLimitMax > Through(a) + RateLimitMax  BY <1>2, <3>1, SlotsThere DEF Through
      <3> QED  BY <1>2, <2>2, <3>2, SlotsThere DEF Windows
    <2> QED  BY <2>1, <2>2
  <1>5. ASSUME ~ Passes(a)  PROVE ages[a][RateLimitMax] < Window
    <2>1. left[a] # 0 /\ hits[a] >= RateLimitMax  BY <1>2, <1>3, <1>5, SlotsThere DEF Passes
    <2>2. Through(a) = RateLimitMax  BY <1>2, <2>1, SlotsThere DEF Through
    <2>3. ages[a][RateLimitMax] <= Window - left[a]  BY <1>2, <2>1, <2>2, SlotsThere DEF Windows
    <2> QED  BY <1>2, <2>1, <2>3, SlotsThere
  <1> QED  BY <1>4, <1>5

(* A process lets at most twice Max logins pass in any Window of its life.  *)
THEOREM LimiterHolds == Spec => AtMostTwice
  <1>1. ASSUME IInv, NEW d \in Devices, Login(d), Passes(Address[d]),
               passed[Address[d]] = 2 * RateLimitMax
        PROVE  ages[Address[d]][2 * RateLimitMax] = Window
    <2>1. OutOfReach(Address[d], 2 * RateLimitMax)  BY <1>1, LoginFinds
    <2>2. 2 * RateLimitMax \in Nat  BY SlotsThere
    <2> QED  BY <1>1, <2>1, <2>2 DEF OutOfReach
  <1>2. IInv /\ [Next]_vars =>
          [\A d \in Devices : Login(d) /\ Passes(Address[d]) /\ passed[Address[d]] = 2 * RateLimitMax
             => ages[Address[d]][2 * RateLimitMax] = Window]_vars
    BY <1>1
  <1> QED  BY <1>2, Guarded, PTL DEF Spec, AtMostTwice

(* Nobody is refused who did not come after Max logins within Window. *)
THEOREM RefusalsEarned == Spec => RefusedAfterMax
  <1>1. IInv /\ [Next]_vars =>
          [\A d \in Devices : Login(d) /\ ~ Passes(Address[d])
             => ages[Address[d]][RateLimitMax] < Window]_vars
    BY LoginFinds
  <1> QED  BY <1>1, Guarded, PTL DEF Spec, RefusedAfterMax
=============================================================================
