--------------------------- MODULE MetricsProofs ---------------------------
(***************************************************************************)
(* Proofs about Metrics, for any number of goroutines and of requests: the *)
(* counters tell where the requests are, and a report of counters read one *)
(* by one is as near to the truth as the properties say.                   *)
(***************************************************************************)
EXTENDS Metrics, FiniteSetTheorems, TLAPS

(* The goroutines at the places S, and those about to count a failure as a  *)
(* status.                                                                  *)
At(f, S)    == {r \in Requests : f[r] \in S}
Erred(f, g) == {r \in Requests : f[r] = "erred" /\ g[r]}

(* What the counters say of the requests under way. *)
Counted ==
  /\ inFlight = Cardinality(At(pc, Inside))
  /\ totalRequests = statusCounts.fine + statusCounts.bad
                     + Cardinality(At(pc, {"counted", "timed", "erred"}))
  /\ totalRequests = timed + Cardinality(At(pc, {"counted"}))
  /\ totalErrors = statusCounts.bad + Cardinality(Erred(pc, failed))

(* What has been read so far, and what is still to be read. *)
ReadRight(r) ==
  /\ pc[r] \in {"idle"} \cup Reading => ~ read[r].whole
  /\ pc[r] = "readTotal" => read[r].total <= timed + Others
  /\ pc[r] \in {"readTotal", "readDuration"} =>
       read[r].total <= statusCounts.fine + statusCounts.bad + Others
  /\ pc[r] \in {"readDuration", "readStatuses", "readErrors"} \/ read[r].whole =>
       read[r].total <= read[r].timed + Others
  /\ pc[r] \in {"readStatuses", "readErrors"} \/ read[r].whole =>
       read[r].total <= read[r].fine + read[r].bad + Others
  /\ pc[r] = "readStatuses" => read[r].bad <= totalErrors
  /\ pc[r] = "readErrors" \/ read[r].whole => read[r].errors >= read[r].bad
  /\ read[r].whole => read[r].inFlight \in 1..Cardinality(Requests)

IInv == TypeOK /\ Counted /\ \A r \in Requests : ReadRight(r)

(* A set of goroutines is finite. *)
LEMMA SomeFinite ==
  ASSUME NEW T, T \subseteq Requests
  PROVE  IsFiniteSet(T) /\ Cardinality(T) \in Nat /\ Cardinality(T) <= Cardinality(Requests)
  BY MetricsAssumption, FS_Subset, FS_CardinalityType

(* There is at least one goroutine. *)
LEMMA OthersNat == Cardinality(Requests) \in Nat \ {0} /\ Others \in Nat
  <1>1. Cardinality(Requests) \in Nat /\ Cardinality(Requests) # 0
    BY MetricsAssumption, FS_CardinalityType, FS_EmptySet
  <1> QED  BY <1>1 DEF Others

(* One more, or one less. *)
LEMMA OneMore ==
  ASSUME NEW T, T \subseteq Requests, NEW U, NEW r \in Requests, r \notin T, U = T \cup {r}
  PROVE  Cardinality(U) = Cardinality(T) + 1
  BY SomeFinite, FS_AddElement

(* Whoever is outside a set leaves room for the others only. *)
LEMMA Room ==
  ASSUME NEW T, T \subseteq Requests, NEW r \in Requests, r \notin T
  PROVE  Cardinality(T) \in Nat /\ Cardinality(T) <= Others
  <1>1. T \cup {r} \subseteq Requests  OBVIOUS
  <1>2. Cardinality(T \cup {r}) = Cardinality(T) + 1  BY OneMore
  <1>3. Cardinality(T \cup {r}) <= Cardinality(Requests)  BY <1>1, SomeFinite
  <1> QED  BY <1>2, <1>3, SomeFinite, OthersNat DEF Others

(* The sizes are natural numbers, whoever is where. *)
LEMMA SizesNat ==
  ASSUME NEW f, NEW g, NEW S
  PROVE  /\ At(f, S) \subseteq Requests /\ Erred(f, g) \subseteq Requests
         /\ Cardinality(At(f, S)) \in Nat /\ Cardinality(Erred(f, g)) \in Nat
  <1>1. At(f, S) \subseteq Requests /\ Erred(f, g) \subseteq Requests  BY DEF At, Erred
  <1> QED  BY <1>1, SomeFinite

(* A goroutine that goes from one place to another joins, leaves or keeps   *)
(* out of the goroutines at the places S.                                   *)
LEMMA Moves ==
  ASSUME pc \in [Requests -> {"idle"} \cup Inside \cup Leaving], NEW r \in Requests,
         NEW from, NEW to, Goto(r, from, to), NEW S
  PROVE  /\ from \notin S /\ to \in S =>
              Cardinality(At(pc', S)) = Cardinality(At(pc, S)) + 1
         /\ from \in S /\ to \notin S =>
              Cardinality(At(pc, S)) = Cardinality(At(pc', S)) + 1
         /\ (from \in S <=> to \in S) => At(pc', S) = At(pc, S)
         /\ pc'[r] = to /\ \A q \in Requests \ {r} : pc'[q] = pc[q]
  <1>1. pc[r] = from /\ pc'[r] = to /\ \A q \in Requests \ {r} : pc'[q] = pc[q]
    BY DEF Goto
  <1>2. At(pc, S) \subseteq Requests /\ At(pc', S) \subseteq Requests  BY DEF At
  <1>3. ASSUME from \notin S, to \in S  PROVE r \notin At(pc, S) /\ At(pc', S) = At(pc, S) \cup {r}
    BY <1>1, <1>3 DEF At
  <1>4. ASSUME from \in S, to \notin S  PROVE r \notin At(pc', S) /\ At(pc, S) = At(pc', S) \cup {r}
    BY <1>1, <1>4 DEF At
  <1>5. ASSUME from \in S <=> to \in S  PROVE At(pc', S) = At(pc, S)
    BY <1>1, <1>5 DEF At
  <1> QED  BY <1>1, <1>2, <1>3, <1>4, <1>5, OneMore

(* The same of the goroutines about to count a failure as a status. *)
LEMMA MovesErred ==
  ASSUME pc \in [Requests -> {"idle"} \cup Inside \cup Leaving], NEW r \in Requests,
         NEW from, NEW to, Goto(r, from, to),
         \A q \in Requests \ {r} : failed'[q] = failed[q]
  PROVE  LET before == from = "erred" /\ failed[r]
             after  == to = "erred" /\ failed'[r]
         IN  /\ ~ before /\ after =>
                  Cardinality(Erred(pc', failed')) = Cardinality(Erred(pc, failed)) + 1
             /\ before /\ ~ after =>
                  Cardinality(Erred(pc, failed)) = Cardinality(Erred(pc', failed')) + 1
             /\ ~ before /\ ~ after => Erred(pc', failed') = Erred(pc, failed)
  <1> DEFINE before == from = "erred" /\ failed[r]
             after  == to = "erred" /\ failed'[r]
  <1>1. pc[r] = from /\ pc'[r] = to /\ \A q \in Requests \ {r} : pc'[q] = pc[q]
    BY DEF Goto
  <1>2. Erred(pc, failed) \subseteq Requests /\ Erred(pc', failed') \subseteq Requests  BY DEF Erred
  <1>3. (r \in Erred(pc, failed) <=> before) /\ (r \in Erred(pc', failed') <=> after)
    BY <1>1 DEF Erred
  <1>4. \A q \in Requests \ {r} : q \in Erred(pc, failed) <=> q \in Erred(pc', failed')
    BY <1>1 DEF Erred
  <1>5. ASSUME ~ before, after
        PROVE  Cardinality(Erred(pc', failed')) = Cardinality(Erred(pc, failed)) + 1
    <2>1. Erred(pc', failed') = Erred(pc, failed) \cup {r}
      BY <1>2, <1>3, <1>4, <1>5
    <2> QED  BY <2>1, <1>2, <1>3, <1>5, OneMore
  <1>6. ASSUME before, ~ after
        PROVE  Cardinality(Erred(pc, failed)) = Cardinality(Erred(pc', failed')) + 1
    <2>1. Erred(pc, failed) = Erred(pc', failed') \cup {r}
      BY <1>2, <1>3, <1>4, <1>6
    <2> QED  BY <2>1, <1>2, <1>3, <1>6, OneMore
  <1>7. ASSUME ~ before, ~ after  PROVE Erred(pc', failed') = Erred(pc, failed)
    BY <1>2, <1>3, <1>4, <1>7
  <1> QED  BY <1>5, <1>6, <1>7

(* The counters keep telling where the requests are. *)
LEMMA CountedStep ==
  ASSUME TypeOK, Counted, NEW r \in Requests, Enter(r) \/ Serve(r)
  PROVE  Counted'
  <1> DEFINE Places == {"idle"} \cup Inside \cup Leaving
             Toll   == {"counted", "timed", "erred"}
  <1>1. /\ pc \in [Requests -> Places] /\ failed \in [Requests -> BOOLEAN]
        /\ statusCounts \in [fine : Nat, bad : Nat]
        /\ inFlight \in Nat /\ totalRequests \in Nat /\ totalErrors \in Nat /\ timed \in Nat
    BY DEF TypeOK
  <1>2. \A S : Cardinality(At(pc, S)) \in Nat /\ Cardinality(At(pc', S)) \in Nat
    BY SizesNat
  <1>3. Cardinality(Erred(pc, failed)) \in Nat /\ Cardinality(Erred(pc', failed')) \in Nat
    BY SizesNat
  <1>4. CASE Enter(r)
    <2>1. Goto(r, "idle", "handling") /\ \A q \in Requests \ {r} : failed'[q] = failed[q]  BY <1>4 DEF Enter
    <2>2. Cardinality(At(pc', Inside)) = Cardinality(At(pc, Inside)) + 1
      BY <1>1, <2>1, Moves DEF Inside, Reading
    <2>3. At(pc', Toll) = At(pc, Toll) /\ At(pc', {"counted"}) = At(pc, {"counted"})
      BY <1>1, <2>1, Moves
    <2>4. Erred(pc', failed') = Erred(pc, failed)  BY <1>1, <2>1, MovesErred
    <2> QED  BY <1>1, <1>4, <2>2, <2>3, <2>4 DEF Enter, Counted
  <1>5. ASSUME NEW from \in Reading, NEW to \in Inside, Goto(r, from, to),
               \A q \in Requests \ {r} : failed'[q] = failed[q], UNCHANGED counters
        PROVE  Counted'
    <2>1. /\ At(pc', Inside) = At(pc, Inside) /\ At(pc', Toll) = At(pc, Toll)
          /\ At(pc', {"counted"}) = At(pc, {"counted"})
      BY <1>1, <1>5, Moves DEF Inside, Reading
    <2>2. from # "erred" /\ to # "erred"  BY <1>5 DEF Inside, Reading
    <2>3. Erred(pc', failed') = Erred(pc, failed)  BY <1>1, <1>5, <2>2, MovesErred
    <2> QED  BY <1>5, <2>1, <2>3 DEF Counted, counters
  <1>6. ASSUME NEW fails \in BOOLEAN, Handle(r, fails)  PROVE Counted'
    <2>1. \A q \in Requests \ {r} : failed'[q] = failed[q]  BY <1>1, <1>6 DEF Handle
    <2>2. Goto(r, "handling", "handled") /\ UNCHANGED counters  BY <1>6 DEF Handle
    <2> QED  BY <2>1, <2>2, <1>5 DEF Inside, Reading
  <1>7. CASE Leave(r)
    <2>1. Goto(r, "handled", "left") /\ \A q \in Requests \ {r} : failed'[q] = failed[q]  BY <1>7 DEF Leave
    <2>2. Cardinality(At(pc, Inside)) = Cardinality(At(pc', Inside)) + 1
      BY <1>1, <2>1, Moves DEF Inside, Reading
    <2>3. At(pc', Toll) = At(pc, Toll) /\ At(pc', {"counted"}) = At(pc, {"counted"})
      BY <1>1, <2>1, Moves
    <2>4. Erred(pc', failed') = Erred(pc, failed)  BY <1>1, <2>1, MovesErred
    <2> QED  BY <1>1, <1>2, <1>7, <2>2, <2>3, <2>4 DEF Leave, Counted
  <1>8. CASE CountRequest(r)
    <2>1. Goto(r, "left", "counted") /\ \A q \in Requests \ {r} : failed'[q] = failed[q]
      BY <1>8 DEF CountRequest
    <2>2. At(pc', Inside) = At(pc, Inside)  BY <1>1, <2>1, Moves DEF Inside, Reading
    <2>3. /\ Cardinality(At(pc', Toll)) = Cardinality(At(pc, Toll)) + 1
          /\ Cardinality(At(pc', {"counted"})) = Cardinality(At(pc, {"counted"})) + 1
      BY <1>1, <2>1, Moves
    <2>4. Erred(pc', failed') = Erred(pc, failed)  BY <1>1, <2>1, MovesErred
    <2> QED  BY <1>1, <1>2, <1>8, <2>2, <2>3, <2>4 DEF CountRequest, Counted
  <1>9. CASE CountDuration(r)
    <2>1. Goto(r, "counted", "timed") /\ \A q \in Requests \ {r} : failed'[q] = failed[q]
      BY <1>9 DEF CountDuration
    <2>2. At(pc', Inside) = At(pc, Inside) /\ At(pc', Toll) = At(pc, Toll)
      BY <1>1, <2>1, Moves DEF Inside, Reading
    <2>3. Cardinality(At(pc, {"counted"})) = Cardinality(At(pc', {"counted"})) + 1
      BY <1>1, <2>1, Moves
    <2>4. Erred(pc', failed') = Erred(pc, failed)  BY <1>1, <2>1, MovesErred
    <2> QED  BY <1>1, <1>2, <1>9, <2>2, <2>3, <2>4 DEF CountDuration, Counted
  <1>10. CASE CountError(r)
    <2>1. Goto(r, "timed", "erred") /\ UNCHANGED failed  BY <1>10 DEF CountError
    <2>2. /\ At(pc', Inside) = At(pc, Inside) /\ At(pc', Toll) = At(pc, Toll)
          /\ At(pc', {"counted"}) = At(pc, {"counted"})
      BY <1>1, <2>1, Moves DEF Inside, Reading
    <2>3. /\ failed[r] => Cardinality(Erred(pc', failed')) = Cardinality(Erred(pc, failed)) + 1
          /\ ~ failed[r] => Erred(pc', failed') = Erred(pc, failed)
      BY <1>1, <2>1, MovesErred
    <2> QED  BY <1>1, <1>3, <1>10, <2>2, <2>3 DEF CountError, Counted
  <1>11. CASE CountStatus(r)
    <2>1. Goto(r, "erred", "idle") /\ \A q \in Requests \ {r} : failed'[q] = failed[q]
      BY <1>1, <1>11 DEF CountStatus
    <2>2. At(pc', Inside) = At(pc, Inside) /\ At(pc', {"counted"}) = At(pc, {"counted"})
      BY <1>1, <2>1, Moves DEF Inside, Reading
    <2>3. Cardinality(At(pc, Toll)) = Cardinality(At(pc', Toll)) + 1
      BY <1>1, <2>1, Moves
    <2>4. /\ failed[r] => Cardinality(Erred(pc, failed)) = Cardinality(Erred(pc', failed')) + 1
          /\ ~ failed[r] => Erred(pc', failed') = Erred(pc, failed)
      BY <1>1, <2>1, MovesErred
    <2> QED  BY <1>1, <1>2, <1>3, <1>11, <2>2, <2>3, <2>4 DEF CountStatus, Counted
  <1>12. CASE ReadTotal(r) \/ ReadDuration(r) \/ ReadStatuses(r) \/ ReadErrors(r)
    BY <1>12, <1>5 DEF ReadTotal, ReadDuration, ReadStatuses, ReadErrors, Inside, Reading
  <1>13. CASE ReadInFlight(r)
    <2>1. \A q \in Requests \ {r} : failed'[q] = failed[q]  BY <1>1, <1>13 DEF ReadInFlight
    <2> QED  BY <2>1, <1>13, <1>5 DEF ReadInFlight, Inside, Reading
  <1> QED
    BY <1>4, <1>6, <1>7, <1>8, <1>9, <1>10, <1>11, <1>12, <1>13 DEF Serve

(* The types are kept; inFlight is never taken below zero. *)
LEMMA TypedStep ==
  ASSUME TypeOK, Counted', NEW r \in Requests, Enter(r) \/ Serve(r)
  PROVE  TypeOK'
  <1>1. inFlight' \in Nat  BY SizesNat DEF Counted
  <1>2. CASE Enter(r)  BY <1>1, <1>2, MetricsAssumption DEF TypeOK, Enter, Goto, Inside, Reading
  <1>3. ASSUME NEW fails \in BOOLEAN, Handle(r, fails)  PROVE TypeOK'
    BY <1>3 DEF TypeOK, Handle, Goto, Inside, counters
  <1>4. CASE Leave(r)  BY <1>1, <1>4 DEF TypeOK, Leave, Goto, Leaving
  <1>5. CASE CountRequest(r)  BY <1>5 DEF TypeOK, CountRequest, Goto, Leaving
  <1>6. CASE CountDuration(r)  BY <1>6 DEF TypeOK, CountDuration, Goto, Leaving
  <1>7. CASE CountError(r)  BY <1>7 DEF TypeOK, CountError, Goto, Leaving
  <1>8. CASE CountStatus(r)
    <2>1. Unread \in Reports  BY DEF Unread, Reports
    <2>2. read' \in [Requests -> Reports] /\ failed' \in [Requests -> BOOLEAN]
      BY <1>8, <2>1 DEF TypeOK, CountStatus
    <2>3. statusCounts' \in [fine : Nat, bad : Nat]  BY <1>8 DEF TypeOK, CountStatus
    <2>4. pc' \in [Requests -> {"idle"} \cup Inside \cup Leaving]  BY <1>8 DEF TypeOK, CountStatus, Goto
    <2> QED  BY <1>8, <2>2, <2>3, <2>4 DEF TypeOK, CountStatus
  <1>9. ASSUME NEW report \in Reports, NEW to \in Inside, pc' = [pc EXCEPT ![r] = to],
               read' = [read EXCEPT ![r] = report], UNCHANGED <<counters, started>>,
               failed' \in [Requests -> BOOLEAN]
        PROVE  TypeOK'
    BY <1>9 DEF TypeOK, counters
  <1>10. read[r] \in Reports /\ statusCounts \in [fine : Nat, bad : Nat]  BY DEF TypeOK
  <1>11. CASE ReadTotal(r)
    <2>1. [read[r] EXCEPT !.total = totalRequests] \in Reports  BY <1>10 DEF Reports, TypeOK
    <2> QED  BY <1>9, <1>11, <2>1 DEF ReadTotal, Goto, TypeOK, Inside, Reading
  <1>12. CASE ReadDuration(r)
    <2>1. [read[r] EXCEPT !.timed = IF read[r].total > 0 THEN timed ELSE 0] \in Reports
      BY <1>10 DEF Reports, TypeOK
    <2> QED  BY <1>9, <1>12, <2>1 DEF ReadDuration, Goto, TypeOK, Inside, Reading
  <1>13. CASE ReadStatuses(r)
    <2>1. [read[r] EXCEPT !.fine = statusCounts.fine, !.bad = statusCounts.bad] \in Reports
      BY <1>10 DEF Reports
    <2>2. read' = [read EXCEPT ![r] = [read[r] EXCEPT !.fine = statusCounts.fine, !.bad = statusCounts.bad]]
      BY <1>10, <1>13 DEF ReadStatuses, TypeOK
    <2> QED  BY <1>9, <1>13, <2>1, <2>2 DEF ReadStatuses, Goto, TypeOK, Inside, Reading
  <1>14. CASE ReadErrors(r)
    <2>1. [read[r] EXCEPT !.errors = totalErrors] \in Reports  BY <1>10 DEF Reports, TypeOK
    <2> QED  BY <1>9, <1>14, <2>1 DEF ReadErrors, Goto, TypeOK, Inside, Reading
  <1>15. CASE ReadInFlight(r)
    <2>1. [read[r] EXCEPT !.inFlight = inFlight, !.whole = TRUE] \in Reports  BY <1>10 DEF Reports, TypeOK
    <2>2. read' = [read EXCEPT ![r] = [read[r] EXCEPT !.inFlight = inFlight, !.whole = TRUE]]
      BY <1>10, <1>15 DEF ReadInFlight, TypeOK
    <2>3. failed' \in [Requests -> BOOLEAN]  BY <1>15 DEF ReadInFlight, TypeOK
    <2> QED  BY <1>9, <1>15, <2>1, <2>2, <2>3 DEF ReadInFlight, Goto, Inside
  <1> QED
    BY <1>2, <1>3, <1>4, <1>5, <1>6, <1>7, <1>8, <1>11, <1>12, <1>13, <1>14, <1>15 DEF Serve

(* What was read stays right while others are served: the counters a reader *)
(* still has to read only grow.                                             *)
LEMMA OthersReadRight ==
  ASSUME TypeOK, TypeOK', NEW q \in Requests, ReadRight(q),
         pc'[q] = pc[q], read'[q] = read[q],
         timed' >= timed, totalErrors' >= totalErrors,
         statusCounts'.fine + statusCounts'.bad >= statusCounts.fine + statusCounts.bad
  PROVE  ReadRight(q)'
  <1>1. read[q] \in Reports /\ Others \in Nat  BY OthersNat DEF TypeOK
  <1>2. /\ timed \in Nat /\ timed' \in Nat /\ totalErrors \in Nat /\ totalErrors' \in Nat
        /\ statusCounts \in [fine : Nat, bad : Nat] /\ statusCounts' \in [fine : Nat, bad : Nat]
    BY DEF TypeOK
  <1>3. read[q].total \in Nat /\ read[q].bad \in Nat  BY <1>1 DEF Reports
  <1>4. Others' = Others  BY DEF Others
  <1>5. pc[q] = "readTotal" => read[q].total <= timed' + Others
    BY <1>1, <1>2, <1>3 DEF ReadRight
  <1>6. pc[q] \in {"readTotal", "readDuration"} =>
          read[q].total <= statusCounts'.fine + statusCounts'.bad + Others
    BY <1>1, <1>2, <1>3 DEF ReadRight
  <1>7. pc[q] = "readStatuses" => read[q].bad <= totalErrors'
    BY <1>2, <1>3 DEF ReadRight
  <1> QED  BY <1>4, <1>5, <1>6, <1>7 DEF ReadRight

(* A request that goes on without reading keeps what it has read.           *)
LEMMA KeepsReport ==
  ASSUME NEW r \in Requests, ReadRight(r), read'[r] = read[r],
         \/ pc[r] = "idle" /\ pc'[r] = "handling"
         \/ pc[r] = "handling" /\ pc'[r] = "handled"
         \/ pc[r] \in {"handled"} \cup Leaving /\ pc'[r] \in Leaving
  PROVE  ReadRight(r)'
  <1>1. Others' = Others  BY DEF Others
  <1>2. pc[r] \in {"idle"} \cup Reading \/ pc[r] \in {"handled"} \cup Leaving
    BY DEF Reading
  <1>3. CASE pc[r] \in {"idle", "handling"}
    <2>1. ~ read'[r].whole /\ pc'[r] \in {"handling", "handled"}
      BY <1>3 DEF ReadRight, Reading, Leaving
    <2> QED  BY <2>1 DEF ReadRight
  <1>4. CASE pc[r] \in {"handled"} \cup Leaving
    <2>1. pc'[r] \in Leaving  BY <1>4 DEF Leaving
    <2>2. pc'[r] \notin {"idle"} \cup Reading  BY <2>1 DEF Leaving, Reading
    <2> QED  BY <1>1, <2>1, <2>2 DEF ReadRight, Leaving, Reading
  <1> QED  BY <1>3, <1>4 DEF Reading

(* What the counters that are read next hold when a request reads them.     *)
LEMMA WhatIsRead ==
  ASSUME TypeOK, Counted, NEW r \in Requests
  PROVE  /\ pc[r] = "handling" => /\ totalRequests <= timed + Others
                                  /\ totalRequests <= statusCounts.fine + statusCounts.bad + Others
         /\ statusCounts.bad <= totalErrors
         /\ pc[r] \in Inside => inFlight \in 1..Cardinality(Requests)
  <1>1. /\ statusCounts \in [fine : Nat, bad : Nat]
        /\ inFlight \in Nat /\ totalRequests \in Nat /\ totalErrors \in Nat /\ timed \in Nat
    BY DEF TypeOK
  <1>2. \A S : At(pc, S) \subseteq Requests  BY DEF At
  <1>3. ASSUME pc[r] = "handling"
        PROVE  /\ totalRequests <= timed + Others
               /\ totalRequests <= statusCounts.fine + statusCounts.bad + Others
    <2>1. r \notin At(pc, {"counted"}) /\ r \notin At(pc, {"counted", "timed", "erred"})
      BY <1>3 DEF At
    <2>2. /\ Cardinality(At(pc, {"counted"})) \in Nat
          /\ Cardinality(At(pc, {"counted"})) <= Others
      BY <1>2, <2>1, Room
    <2>3. /\ Cardinality(At(pc, {"counted", "timed", "erred"})) \in Nat
          /\ Cardinality(At(pc, {"counted", "timed", "erred"})) <= Others
      BY <1>2, <2>1, Room
    <2> QED  BY <1>1, <2>2, <2>3, OthersNat DEF Counted
  <1>4. statusCounts.bad <= totalErrors
    <2>1. Cardinality(Erred(pc, failed)) \in Nat  BY SizesNat
    <2> QED  BY <1>1, <2>1 DEF Counted
  <1>5. ASSUME pc[r] \in Inside  PROVE inFlight \in 1..Cardinality(Requests)
    <2>1. r \in At(pc, Inside)  BY <1>5 DEF At
    <2>2. IsFiniteSet(At(pc, Inside)) /\ Cardinality(At(pc, Inside)) <= Cardinality(Requests)
      BY <1>2, SomeFinite
    <2>3. Cardinality(At(pc, Inside)) # 0  BY <2>1, <2>2, FS_EmptySet
    <2> QED  BY <1>1, <2>2, <2>3, OthersNat DEF Counted
  <1> QED  BY <1>3, <1>4, <1>5

(* A request that reads a counter reads it right. *)
LEMMA ReadsRight ==
  ASSUME TypeOK, Counted, NEW r \in Requests, ReadRight(r),
         \/ ReadTotal(r) \/ ReadDuration(r) \/ ReadStatuses(r) \/ ReadErrors(r) \/ ReadInFlight(r)
  PROVE  ReadRight(r)'
  <1>1. /\ read \in [Requests -> Reports] /\ pc \in [Requests -> {"idle"} \cup Inside \cup Leaving]
        /\ statusCounts \in [fine : Nat, bad : Nat]
        /\ inFlight \in Nat /\ totalRequests \in Nat /\ totalErrors \in Nat /\ timed \in Nat
    BY DEF TypeOK
  <1>2. read[r] \in Reports /\ Others \in Nat /\ Others' = Others
    BY <1>1, OthersNat DEF Others
  <1>3. CASE ReadTotal(r)
    <2>1. pc[r] = "handling" /\ pc'[r] = "readTotal" /\ UNCHANGED counters
      BY <1>1, <1>3 DEF ReadTotal, Goto
    <2>2. read'[r] = [read[r] EXCEPT !.total = totalRequests]  BY <1>1, <1>3 DEF ReadTotal
    <2>3. read'[r].total = totalRequests /\ read'[r].whole = read[r].whole
      BY <1>2, <2>2 DEF Reports
    <2>4. ~ read[r].whole  BY <2>1 DEF ReadRight, Reading
    <2> QED  BY <1>2, <2>1, <2>3, <2>4, WhatIsRead DEF ReadRight, counters
  <1>4. CASE ReadDuration(r)
    <2>1. pc[r] = "readTotal" /\ pc'[r] = "readDuration" /\ UNCHANGED counters
      BY <1>1, <1>4 DEF ReadDuration, Goto
    <2>2. read'[r] = [read[r] EXCEPT !.timed = IF read[r].total > 0 THEN timed ELSE 0]
      BY <1>1, <1>4 DEF ReadDuration
    <2>3. /\ read'[r].timed = IF read[r].total > 0 THEN timed ELSE 0
          /\ read'[r].total = read[r].total /\ read'[r].whole = read[r].whole
      BY <1>2, <2>2 DEF Reports
    <2>4. ~ read[r].whole /\ read[r].total <= timed + Others
          /\ read[r].total <= statusCounts.fine + statusCounts.bad + Others
      BY <2>1 DEF ReadRight, Reading
    <2>5. read'[r].total <= read'[r].timed + Others
      BY <1>2, <2>3, <2>4 DEF Reports
    <2> QED  BY <1>2, <2>1, <2>3, <2>4, <2>5 DEF ReadRight, counters
  <1>5. CASE ReadStatuses(r)
    <2>1. pc[r] = "readDuration" /\ pc'[r] = "readStatuses" /\ UNCHANGED counters
      BY <1>1, <1>5 DEF ReadStatuses, Goto
    <2>2. read'[r] = [read[r] EXCEPT !.fine = statusCounts.fine, !.bad = statusCounts.bad]
      BY <1>1, <1>5 DEF ReadStatuses
    <2>3. /\ read'[r].fine = statusCounts.fine /\ read'[r].bad = statusCounts.bad
          /\ read'[r].total = read[r].total /\ read'[r].timed = read[r].timed
          /\ read'[r].whole = read[r].whole
      BY <1>2, <2>2 DEF Reports
    <2>4. ~ read[r].whole /\ read[r].total <= read[r].timed + Others
          /\ read[r].total <= statusCounts.fine + statusCounts.bad + Others
      BY <2>1 DEF ReadRight, Reading
    <2>5. statusCounts.bad <= totalErrors  BY WhatIsRead
    <2> QED  BY <1>2, <2>1, <2>3, <2>4, <2>5 DEF ReadRight, counters
  <1>6. CASE ReadErrors(r)
    <2>1. pc[r] = "readStatuses" /\ pc'[r] = "readErrors" /\ UNCHANGED counters
      BY <1>1, <1>6 DEF ReadErrors, Goto
    <2>2. read'[r] = [read[r] EXCEPT !.errors = totalErrors]  BY <1>1, <1>6 DEF ReadErrors
    <2>3. /\ read'[r].errors = totalErrors /\ read'[r].fine = read[r].fine /\ read'[r].bad = read[r].bad
          /\ read'[r].total = read[r].total /\ read'[r].timed = read[r].timed
          /\ read'[r].whole = read[r].whole
      BY <1>2, <2>2 DEF Reports
    <2>4. /\ ~ read[r].whole /\ read[r].bad <= totalErrors
          /\ read[r].total <= read[r].timed + Others
          /\ read[r].total <= read[r].fine + read[r].bad + Others
      BY <2>1 DEF ReadRight, Reading
    <2>5. read'[r].errors >= read'[r].bad  BY <1>1, <1>2, <2>3, <2>4 DEF Reports
    <2> QED  BY <1>2, <2>1, <2>3, <2>4, <2>5 DEF ReadRight, counters
  <1>7. CASE ReadInFlight(r)
    <2>1. pc[r] = "readErrors" /\ pc'[r] = "handled" /\ UNCHANGED counters
      BY <1>1, <1>7 DEF ReadInFlight, Goto
    <2>2. read'[r] = [read[r] EXCEPT !.inFlight = inFlight, !.whole = TRUE]
      BY <1>1, <1>7 DEF ReadInFlight
    <2>3. /\ read'[r].errors = read[r].errors /\ read'[r].fine = read[r].fine /\ read'[r].bad = read[r].bad
          /\ read'[r].total = read[r].total /\ read'[r].timed = read[r].timed
          /\ read'[r].inFlight = inFlight
      BY <1>2, <2>2 DEF Reports
    <2>4. /\ read[r].errors >= read[r].bad
          /\ read[r].total <= read[r].timed + Others
          /\ read[r].total <= read[r].fine + read[r].bad + Others
      BY <2>1 DEF ReadRight
    <2>5. inFlight \in 1..Cardinality(Requests)  BY <2>1, WhatIsRead DEF Inside, Reading
    <2> QED  BY <1>2, <2>1, <2>3, <2>4, <2>5 DEF ReadRight, Reading
  <1> QED  BY <1>3, <1>4, <1>5, <1>6, <1>7

(* What is read stays right at a step of a request. *)
LEMMA ReadStep ==
  ASSUME IInv, TypeOK', NEW r \in Requests, Enter(r) \/ Serve(r), NEW q \in Requests
  PROVE  ReadRight(q)'
  <1>1. /\ read \in [Requests -> Reports] /\ failed \in [Requests -> BOOLEAN]
        /\ pc \in [Requests -> {"idle"} \cup Inside \cup Leaving]
        /\ statusCounts \in [fine : Nat, bad : Nat]
        /\ totalErrors \in Nat /\ timed \in Nat
    BY DEF IInv, TypeOK
  <1>2. CASE q # r
    <2>1. pc'[q] = pc[q] /\ read'[q] = read[q]
      BY <1>1, <1>2 DEF Serve, Goto, Enter, Handle, Leave, CountRequest, CountDuration, CountError,
             CountStatus, ReadTotal, ReadDuration, ReadStatuses, ReadErrors, ReadInFlight
    <2>2. timed' >= timed /\ totalErrors' >= totalErrors
      BY <1>1 DEF Serve, Enter, Handle, Leave, CountRequest, CountDuration, CountError,
             CountStatus, ReadTotal, ReadDuration, ReadStatuses, ReadErrors, ReadInFlight, counters
    <2>3. CASE CountStatus(r)
      <3>1. statusCounts'.fine + statusCounts'.bad >= statusCounts.fine + statusCounts.bad
        BY <1>1, <2>3 DEF CountStatus
      <3> QED  BY <2>1, <2>2, <3>1, OthersReadRight DEF IInv
    <2>4. CASE ~ CountStatus(r)
      <3>1. statusCounts' = statusCounts
        BY <2>4 DEF Serve, Enter, Handle, Leave, CountRequest, CountDuration, CountError,
             ReadTotal, ReadDuration, ReadStatuses, ReadErrors, ReadInFlight, counters
      <3>2. statusCounts'.fine + statusCounts'.bad >= statusCounts.fine + statusCounts.bad
        BY <1>1, <3>1
      <3> QED  BY <2>1, <2>2, <3>2, OthersReadRight DEF IInv
    <2> QED  BY <2>3, <2>4
  <1>3. CASE q = r
    <2>1. CASE CountStatus(r)
      <3>1. pc'[r] = "idle" /\ read'[r] = Unread  BY <1>1, <2>1 DEF CountStatus, Goto
      <3>2. ~ read'[r].whole  BY <3>1 DEF Unread
      <3> QED  BY <1>3, <3>1, <3>2 DEF ReadRight
    <2>2. CASE ReadTotal(r) \/ ReadDuration(r) \/ ReadStatuses(r) \/ ReadErrors(r) \/ ReadInFlight(r)
      BY <1>3, <2>2, ReadsRight DEF IInv
    <2>3. CASE Enter(r) \/ (\E fails \in BOOLEAN : Handle(r, fails))
               \/ Leave(r) \/ CountRequest(r) \/ CountDuration(r) \/ CountError(r)
      <3>1. read'[r] = read[r]
        BY <2>3 DEF Enter, Handle, Leave, CountRequest, CountDuration, CountError
      <3>2. \/ pc[r] = "idle" /\ pc'[r] = "handling"
            \/ pc[r] = "handling" /\ pc'[r] = "handled"
            \/ pc[r] \in {"handled"} \cup Leaving /\ pc'[r] \in Leaving
        BY <1>1, <2>3 DEF Enter, Handle, Leave, CountRequest, CountDuration, CountError, Goto, Leaving
      <3> QED  BY <1>3, <3>1, <3>2, KeepsReport DEF IInv
    <2> QED  BY <2>1, <2>2, <2>3 DEF Serve
  <1> QED  BY <1>2, <1>3

(* A process that has just started has counted nothing. *)
LEMMA Fresh ==
  ASSUME Init
  PROVE  IInv
  <1>1. TypeOK
    <2>1. Unread \in Reports  BY DEF Unread, Reports
    <2> QED  BY <2>1, MetricsAssumption DEF Init, TypeOK
  <1>2. At(pc, Inside) = {} /\ At(pc, {"counted", "timed", "erred"}) = {}
        /\ At(pc, {"counted"}) = {} /\ Erred(pc, failed) = {}
    BY DEF Init, At, Erred, Inside, Reading
  <1>3. Counted
    <2>1. Cardinality({}) = 0  BY FS_EmptySet
    <2>2. /\ inFlight = 0 /\ totalRequests = 0 /\ totalErrors = 0 /\ timed = 0
          /\ statusCounts.fine = 0 /\ statusCounts.bad = 0
      BY DEF Init
    <2> QED  BY <1>2, <2>1, <2>2 DEF Counted
  <1>4. ASSUME NEW r \in Requests  PROVE ReadRight(r)
    <2>1. pc[r] = "idle" /\ ~ read[r].whole  BY <1>4 DEF Init, Unread
    <2> QED  BY <2>1 DEF ReadRight
  <1> QED  BY <1>1, <1>3, <1>4 DEF IInv

(* A restart is a start. *)
LEMMA FreshAgain ==
  ASSUME Restart
  PROVE  IInv'
  <1>1. TypeOK'
    <2>1. Unread \in Reports  BY DEF Unread, Reports
    <2> QED  BY <2>1, MetricsAssumption DEF Restart, TypeOK
  <1>2. At(pc', Inside) = {} /\ At(pc', {"counted", "timed", "erred"}) = {}
        /\ At(pc', {"counted"}) = {} /\ Erred(pc', failed') = {}
    BY DEF Restart, At, Erred, Inside, Reading
  <1>3. Counted'
    <2>1. Cardinality({}) = 0  BY FS_EmptySet
    <2>2. /\ inFlight' = 0 /\ totalRequests' = 0 /\ totalErrors' = 0 /\ timed' = 0
          /\ statusCounts'.fine = 0 /\ statusCounts'.bad = 0
      BY DEF Restart
    <2> QED  BY <1>2, <2>1, <2>2 DEF Counted
  <1>4. ASSUME NEW r \in Requests  PROVE ReadRight(r)'
    <2>1. pc'[r] = "idle" /\ ~ read'[r].whole  BY <1>4 DEF Restart, Unread
    <2> QED  BY <2>1 DEF ReadRight
  <1> QED  BY <1>1, <1>3, <1>4 DEF IInv

(* The counters and the reports hold together in every state. *)
THEOREM Accounted == Spec => []IInv
  <1>1. Init => IInv  BY Fresh
  <1>2. ASSUME IInv, [Next]_vars  PROVE IInv'
    <2>1. ASSUME NEW r \in Requests, Enter(r) \/ Serve(r)  PROVE IInv'
      <3>1. Counted'  BY <1>2, <2>1, CountedStep DEF IInv
      <3>2. TypeOK'  BY <1>2, <2>1, <3>1, TypedStep DEF IInv
      <3>3. \A q \in Requests : ReadRight(q)'  BY <1>2, <2>1, <3>2, ReadStep
      <3> QED  BY <3>1, <3>2, <3>3 DEF IInv
    <2>2. CASE Restart  BY <2>2, FreshAgain
    <2>3. CASE UNCHANGED vars
      <3>1. TypeOK'  BY <1>2, <2>3 DEF IInv, TypeOK, vars, counters
      <3>2. Counted'  BY <1>2, <2>3 DEF IInv, Counted, At, Erred, vars, counters
      <3>3. \A q \in Requests : ReadRight(q)'
        BY <1>2, <2>3 DEF IInv, ReadRight, Others, vars, counters
      <3> QED  BY <3>1, <3>2, <3>3 DEF IInv
    <2> QED  BY <1>2, <2>1, <2>2, <2>3 DEF Next
  <1> QED  BY <1>1, <1>2, PTL DEF Spec

(* The counters are natural numbers: no request is taken off twice. *)
THEOREM MetricsTypeCorrect == Spec => []TypeOK
  <1>1. IInv => TypeOK  BY DEF IInv
  <1> QED  BY <1>1, Accounted, PTL

(* The errors of a report cover its statuses. *)
THEOREM ReportsCoverErrors == Spec => []ErrorsCoverStatuses
  <1>1. IInv => ErrorsCoverStatuses  BY DEF IInv, ReadRight, ErrorsCoverStatuses, Whole
  <1> QED  BY <1>1, Accounted, PTL

(* A report lacks at most what was served at the same time, counts itself   *)
(* in flight, and its errors cover its statuses.                            *)
THEOREM ReportsNearlyWhole == Spec => []ReportNearlyWhole
  <1>1. IInv /\ ErrorsCoverStatuses => ReportNearlyWhole
    BY DEF IInv, ReadRight, ReportNearlyWhole, Whole
  <1> QED  BY <1>1, Accounted, ReportsCoverErrors, PTL

(* When all is quiet the counters agree. *)
THEOREM QuietCountersAgree == Spec => []QuietAgrees
  <1>1. IInv => QuietAgrees
    <2>1. SUFFICES ASSUME IInv, \A r \in Requests : pc[r] = "idle"
                   PROVE  /\ inFlight = 0 /\ totalRequests = timed
                          /\ totalRequests = statusCounts.fine + statusCounts.bad
                          /\ totalErrors = statusCounts.bad
      BY DEF QuietAgrees
    <2>2. At(pc, Inside) = {} /\ At(pc, {"counted", "timed", "erred"}) = {}
          /\ At(pc, {"counted"}) = {} /\ Erred(pc, failed) = {}
      BY <2>1 DEF At, Erred, Inside, Reading
    <2>3. Cardinality({}) = 0  BY FS_EmptySet
    <2> QED  BY <2>1, <2>2, <2>3 DEF IInv, Counted, TypeOK
  <1> QED  BY <1>1, Accounted, PTL
=============================================================================
