------------------------------ MODULE Metrics ------------------------------
(***************************************************************************)
(* The counters of internal/delivery/api/metrics.go: every request passes  *)
(* Middleware, which counts it in five steps of its own, and the requests  *)
(* for /metrics read the counters one by one meanwhile, in Handler.  The   *)
(* goroutines of the requests interleave at every atomic operation and at  *)
(* every critical section of statusCountsLock, which is one step here: the *)
(* lock guards nothing but the map.                                        *)
(*                                                                         *)
(* A status is abstracted to whether it is an error (400 and above), and   *)
(* the total of the durations to the number of requests it is the total of.*)
(***************************************************************************)
EXTENDS Naturals, FiniteSets

CONSTANTS
  Requests,    \* the goroutines that serve requests, each one request at a time
  MaxRequests  \* bound: requests between two starts of the process

ASSUME MetricsAssumption ==
  /\ IsFiniteSet(Requests) /\ Requests # {}
  /\ MaxRequests \in Nat

VARIABLES
  inFlight, totalRequests, totalErrors,
  timed,         \* requests in totalDurationNs
  statusCounts,  \* [fine |-> statuses below 400, bad |-> the others]
  pc,            \* what the goroutine has done of its request
  failed,        \* whether its status is an error
  read,          \* what it has read of the counters, when it asks for them
  started        \* requests since the process started

counters == <<inFlight, totalRequests, totalErrors, timed, statusCounts>>
vars     == <<counters, pc, failed, read, started>>

Reading == {"handling", "readTotal", "readDuration", "readStatuses", "readErrors"}
Inside  == Reading \cup {"handled"}
Leaving == {"left", "counted", "timed", "erred"}

Unread == [total |-> 0, timed |-> 0, fine |-> 0, bad |-> 0, errors |-> 0, inFlight |-> 0, whole |-> FALSE]

Init ==
  /\ inFlight = 0 /\ totalRequests = 0 /\ totalErrors = 0 /\ timed = 0
  /\ statusCounts = [fine |-> 0, bad |-> 0]
  /\ pc = [r \in Requests |-> "idle"]
  /\ failed = [r \in Requests |-> FALSE]
  /\ read = [r \in Requests |-> Unread]
  /\ started = 0

Goto(r, from, to) == pc[r] = from /\ pc' = [pc EXCEPT ![r] = to]

-----------------------------------------------------------------------------
(* Middleware. *)

(* Mutant of Enter: a request is not counted as in flight. *)
EnterUncounted(r) ==
  /\ Goto(r, "idle", "handling")
  /\ started < MaxRequests
  /\ started' = started + 1
  /\ UNCHANGED <<counters, failed, read>>

Enter(r) ==
  /\ Goto(r, "idle", "handling")
  /\ started < MaxRequests
  /\ started' = started + 1
  /\ inFlight' = inFlight + 1
  /\ UNCHANGED <<totalRequests, totalErrors, timed, statusCounts, failed, read>>

(* ctx.Next(): any handler but the one of /metrics. *)
Handle(r, fails) ==
  /\ Goto(r, "handling", "handled")
  /\ failed' = [failed EXCEPT ![r] = fails]
  /\ UNCHANGED <<counters, read, started>>

Leave(r) ==
  /\ Goto(r, "handled", "left")
  /\ inFlight' = inFlight - 1
  /\ UNCHANGED <<totalRequests, totalErrors, timed, statusCounts, failed, read, started>>

CountRequest(r) ==
  /\ Goto(r, "left", "counted")
  /\ totalRequests' = totalRequests + 1
  /\ UNCHANGED <<inFlight, totalErrors, timed, statusCounts, failed, read, started>>

CountDuration(r) ==
  /\ Goto(r, "counted", "timed")
  /\ timed' = timed + 1
  /\ UNCHANGED <<inFlight, totalRequests, totalErrors, statusCounts, failed, read, started>>

CountError(r) ==
  /\ Goto(r, "timed", "erred")
  /\ totalErrors' = IF failed[r] THEN totalErrors + 1 ELSE totalErrors
  /\ UNCHANGED <<inFlight, totalRequests, timed, statusCounts, failed, read, started>>

(* Mutant of CountStatus: an error is not counted as a status. *)
CountStatusFine(r) ==
  /\ Goto(r, "erred", "idle")
  /\ statusCounts' = IF failed[r] THEN statusCounts ELSE [statusCounts EXCEPT !.fine = @ + 1]
  /\ failed' = [failed EXCEPT ![r] = FALSE]
  /\ read' = [read EXCEPT ![r] = Unread]
  /\ UNCHANGED <<inFlight, totalRequests, totalErrors, timed, started>>

(* The last step: the response is sent, with what was read. *)
CountStatus(r) ==
  /\ Goto(r, "erred", "idle")
  /\ statusCounts' = IF failed[r] THEN [statusCounts EXCEPT !.bad = @ + 1]
                                  ELSE [statusCounts EXCEPT !.fine = @ + 1]
  /\ failed' = [failed EXCEPT ![r] = FALSE]
  /\ read' = [read EXCEPT ![r] = Unread]
  /\ UNCHANGED <<inFlight, totalRequests, totalErrors, timed, started>>

-----------------------------------------------------------------------------
(* Handler, the ctx.Next() of a request for /metrics. *)

(* Mutant of ReadTotal: what is in flight is taken for served. *)
ReadTotalAndRunning(r) ==
  /\ Goto(r, "handling", "readTotal")
  /\ read' = [read EXCEPT ![r].total = totalRequests + inFlight]
  /\ UNCHANGED <<counters, failed, started>>

ReadTotal(r) ==
  /\ Goto(r, "handling", "readTotal")
  /\ read' = [read EXCEPT ![r].total = totalRequests]
  /\ UNCHANGED <<counters, failed, started>>

(* The durations are not read while nothing has been counted. *)
ReadDuration(r) ==
  /\ Goto(r, "readTotal", "readDuration")
  /\ read' = [read EXCEPT ![r].timed = IF read[r].total > 0 THEN timed ELSE 0]
  /\ UNCHANGED <<counters, failed, started>>

ReadStatuses(r) ==
  /\ Goto(r, "readDuration", "readStatuses")
  /\ read' = [read EXCEPT ![r].fine = statusCounts.fine, ![r].bad = statusCounts.bad]
  /\ UNCHANGED <<counters, failed, started>>

ReadErrors(r) ==
  /\ Goto(r, "readStatuses", "readErrors")
  /\ read' = [read EXCEPT ![r].errors = totalErrors]
  /\ UNCHANGED <<counters, failed, started>>

ReadInFlight(r) ==
  /\ Goto(r, "readErrors", "handled")
  /\ read' = [read EXCEPT ![r].inFlight = inFlight, ![r].whole = TRUE]
  /\ failed' = [failed EXCEPT ![r] = FALSE]
  /\ UNCHANGED <<counters, started>>

-----------------------------------------------------------------------------
(* A panic in a handler is not recovered: the process starts anew. *)
Restart ==
  /\ inFlight' = 0 /\ totalRequests' = 0 /\ totalErrors' = 0 /\ timed' = 0
  /\ statusCounts' = [fine |-> 0, bad |-> 0]
  /\ pc' = [r \in Requests |-> "idle"]
  /\ failed' = [r \in Requests |-> FALSE]
  /\ read' = [r \in Requests |-> Unread]
  /\ started' = 0

Serve(r) ==
  \/ \E fails \in BOOLEAN : Handle(r, fails)
  \/ Leave(r) \/ CountRequest(r) \/ CountDuration(r) \/ CountError(r) \/ CountStatus(r)
  \/ ReadTotal(r) \/ ReadDuration(r) \/ ReadStatuses(r) \/ ReadErrors(r) \/ ReadInFlight(r)

Next ==
  \/ \E r \in Requests : Enter(r) \/ Serve(r)
  \/ Restart

Spec == Init /\ [][Next]_vars

-----------------------------------------------------------------------------
Reports == [total : Nat, timed : Nat, fine : Nat, bad : Nat, errors : Nat,
            inFlight : Nat, whole : BOOLEAN]

(* Every counter is a natural number, inFlight included: it is signed in    *)
(* the code and a request taken off twice would make it negative.           *)
TypeOK ==
  /\ inFlight \in Nat /\ totalRequests \in Nat /\ totalErrors \in Nat /\ timed \in Nat
  /\ statusCounts \in [fine : Nat, bad : Nat]
  /\ pc \in [Requests -> {"idle"} \cup Inside \cup Leaving]
  /\ failed \in [Requests -> BOOLEAN]
  /\ read \in [Requests -> Reports]
  /\ started \in 0..MaxRequests

Whole == {read[r] : r \in {q \in Requests : read[q].whole}}
Others == Cardinality(Requests) - 1

(* The errors of a report are never fewer than its statuses of 400 and      *)
(* above: they are counted before the status and read after it.             *)
ErrorsCoverStatuses == \A report \in Whole : report.errors >= report.bad

(* metrics.go:60-76 reads the counters one by one.  Of the requests in the  *)
(* total of a report, its durations and its statuses lack at most those     *)
(* that were served at the same time as the report; its errors cover its    *)
(* statuses; it counts its own request as in flight, and nothing that       *)
(* cannot be.                                                               *)
ReportNearlyWhole ==
  /\ \A report \in Whole :
       /\ report.total <= report.timed + Others
       /\ report.total <= report.fine + report.bad + Others
       /\ report.inFlight \in 1..Cardinality(Requests)
  /\ ErrorsCoverStatuses

(* When no request is being served the counters agree with one another,     *)
(* however the requests before had overlapped and failed.                   *)
QuietAgrees ==
  (\A r \in Requests : pc[r] = "idle") =>
    /\ inFlight = 0
    /\ totalRequests = timed
    /\ totalRequests = statusCounts.fine + statusCounts.bad
    /\ totalErrors = statusCounts.bad
=============================================================================
