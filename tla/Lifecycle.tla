----------------------------- MODULE Lifecycle -----------------------------
(***************************************************************************)
(* One process after another of cmd/api/main.go: run() opens what the      *)
(* handlers use, starts the listener in a goroutine of its own, waits for  *)
(* a signal or for the listener to end, and closes everything in its       *)
(* deferred calls, while handlers run in goroutines of the HTTP server.    *)
(*                                                                         *)
(* The HTTP server is external: Shutdown closes the listener and waits for *)
(* the requests in flight when it finds a listener, and returns at once    *)
(* when there is none, not yet or because the port was taken.  A listener  *)
(* ends by itself when it fails for good, with an error or without.        *)
(* The runtime ends a process that gets a signal nobody has asked for.     *)
(***************************************************************************)
EXTENDS Naturals

CONSTANT Requests  \* what the server handles at a time

Resources == {"pool", "parser", "redis"}

(* The order run() opens them in. *)
Turn == [pool |-> 1, parser |-> 2, redis |-> 3]

VARIABLES
  main,      \* where run() is
  opened,    \* what has been opened and not been closed yet
  wired,     \* what the UserManager was built with
  server,    \* the goroutine of app.Listen
  errCh,     \* what that goroutine has sent: an error, context.Canceled or nil
  signalled, \* whether SIGINT or SIGTERM has been caught
  handling,  \* requests in flight
  cut,       \* requests in flight that met something closed
  drained,   \* whether Shutdown waited for the requests in flight
  code       \* what run() returned, as an exit status

vars == <<main, opened, wired, server, errCh, signalled, handling, cut, drained, code>>

Starting == {"load", "storage", "provider", "cache", "serve", "notify"}
Ended    == {"exited", "killed"}

(* What app.Listen may return. *)
Outcomes == {"error", "canceled", "nil"}

Init ==
  /\ main = "load" /\ opened = {} /\ wired = {}
  /\ server = "none" /\ errCh = "empty" /\ signalled = FALSE
  /\ handling = {} /\ cut = {} /\ drained = FALSE /\ code = 0

Goto(from, to) == main = from /\ main' = to

Return(from, status) == Goto(from, "close") /\ code' = status

outside == <<server, errCh, signalled, handling, cut, drained>>

-----------------------------------------------------------------------------
(* run(), up to the listener. *)

LoadConfig ==
  /\ \/ Goto("load", "storage") /\ UNCHANGED code
     \/ Return("load", 1)
  /\ UNCHANGED <<opened, wired, outside>>

(* NewUserStorage pings the database, and closes its pool when that fails.  *)
OpenStorage ==
  /\ \/ /\ Goto("storage", "provider")
        /\ opened' = opened \cup {"pool"}
        /\ wired' = wired \cup {"pool"}
        /\ UNCHANGED code
     \/ Return("storage", 1) /\ UNCHANGED <<opened, wired>>
  /\ UNCHANGED outside

(* Only the parser is closed at the end, not the demo provider. *)
OpenProvider ==
  /\ Goto("provider", "cache")
  /\ \/ opened' = opened \cup {"parser"} /\ wired' = wired \cup {"parser"}
     \/ UNCHANGED <<opened, wired>>
  /\ UNCHANGED <<code, outside>>

(* Without REDIS_URL, or when Redis does not answer, there is no cache.     *)
OpenCache ==
  /\ Goto("cache", "serve")
  /\ \/ opened' = opened \cup {"redis"} /\ wired' = wired \cup {"redis"}
     \/ UNCHANGED <<opened, wired>>
  /\ UNCHANGED <<code, outside>>

Serve ==
  /\ Goto("serve", "notify")
  /\ server' = "starting"
  /\ UNCHANGED <<opened, wired, errCh, signalled, handling, cut, drained, code>>

Notify ==
  /\ Goto("notify", "select")
  /\ UNCHANGED <<opened, wired, outside, code>>

-----------------------------------------------------------------------------
(* run(), from the listener on. *)

(* Mutant of Select: the error of the listener is dropped. *)
SelectIgnoring ==
  /\ \/ signalled /\ Goto("select", "shutdown") /\ UNCHANGED code
     \/ errCh # "empty" /\ Return("select", 0)
  /\ UNCHANGED <<opened, wired, outside>>

(* Both may be ready: then either is taken.  Of what the listener returned  *)
(* context.Canceled and nil are no errors.                                  *)
Select ==
  /\ \/ signalled /\ Goto("select", "shutdown") /\ UNCHANGED code
     \/ errCh = "error" /\ Return("select", 1)
     \/ errCh \in {"canceled", "nil"} /\ Return("select", 0)
  /\ UNCHANGED <<opened, wired, outside>>

(* Mutant of Shutdown: the requests in flight are not waited for. *)
ShutdownAtOnce ==
  /\ Return("shutdown", 0)
  /\ drained' = TRUE
  /\ server' = IF server = "listening" THEN "ended" ELSE server
  /\ UNCHANGED <<opened, wired, errCh, signalled, handling, cut>>

(* Mutant of Shutdown: new requests are still accepted while it waits. *)
ShutdownListening ==
  /\ Goto("shutdown", "drain")
  /\ UNCHANGED <<opened, wired, outside, code>>

(* app.Shutdown(): with a listener, close it and wait; without, return.     *)
(* Closing one that has failed in the meantime may fail.                    *)
Shutdown ==
  /\ \/ /\ server \in {"listening", "broken"}
        /\ Goto("shutdown", "drain")
        /\ server' = "ended"
        /\ UNCHANGED code
     \/ server = "broken" /\ Return("shutdown", 1) /\ UNCHANGED server
     \/ server \in {"starting", "unbound"} /\ Return("shutdown", 0) /\ UNCHANGED server
  /\ UNCHANGED <<opened, wired, errCh, signalled, handling, cut, drained>>

Drain ==
  /\ handling = {}
  /\ Return("drain", 0)
  /\ drained' = TRUE
  /\ UNCHANGED <<opened, wired, server, errCh, signalled, handling, cut>>

(* Mutant of Close: the pool is closed with the others still open. *)
CloseAnyOrder ==
  /\ main = "close"
  /\ \E one \in opened : opened' = opened \ {one}
  /\ UNCHANGED <<main, wired, outside, code>>

(* The deferred calls, last first; then the process is gone, with whatever  *)
(* still runs in it.                                                        *)
Close ==
  /\ main = "close"
  /\ \E last \in opened :
       /\ \A other \in opened : Turn[other] <= Turn[last]
       /\ opened' = opened \ {last}
  /\ UNCHANGED <<main, wired, outside, code>>

Exit ==
  /\ opened = {}
  /\ Goto("close", "exited")
  /\ server' = "none" /\ handling' = {} /\ cut' = {}
  /\ UNCHANGED <<opened, wired, errCh, signalled, drained, code>>

Run ==
  \/ LoadConfig \/ OpenStorage \/ OpenProvider \/ OpenCache \/ Serve \/ Notify
  \/ Select \/ Shutdown \/ Drain \/ Close \/ Exit

-----------------------------------------------------------------------------
(* The other goroutines. *)

(* app.Listen: the port is taken, or requests are accepted from now on.     *)
Listen ==
  /\ server = "starting"
  /\ \/ server' = "listening" /\ UNCHANGED errCh
     \/ server' = "unbound" /\ errCh' \in Outcomes \ {"nil"}
  /\ UNCHANGED <<main, opened, wired, signalled, handling, cut, drained, code>>

ListenFails ==
  /\ server = "listening"
  /\ server' = "broken" /\ errCh' \in Outcomes
  /\ UNCHANGED <<main, opened, wired, signalled, handling, cut, drained, code>>

Accept(r) ==
  /\ server = "listening"
  /\ r \notin handling
  /\ handling' = handling \cup {r}
  /\ UNCHANGED <<main, opened, wired, server, errCh, signalled, cut, drained, code>>

(* A handler turns to something of its UserManager that has been closed.    *)
MeetClosed(r) ==
  /\ r \in handling
  /\ wired \ opened # {}
  /\ cut' = cut \cup {r}
  /\ UNCHANGED <<main, opened, wired, server, errCh, signalled, handling, drained, code>>

Finish(r) ==
  /\ r \in handling
  /\ handling' = handling \ {r} /\ cut' = cut \ {r}
  /\ UNCHANGED <<main, opened, wired, server, errCh, signalled, drained, code>>

-----------------------------------------------------------------------------
(* The process is killed, by SIGKILL or by a signal before NotifyContext.   *)
Kill ==
  /\ main \notin Ended
  /\ main' = "killed"
  /\ opened' = {} /\ server' = "none" /\ handling' = {} /\ cut' = {}
  /\ UNCHANGED <<wired, errCh, signalled, drained, code>>

Signal ==
  /\ main \notin Starting \cup Ended
  /\ signalled' = TRUE
  /\ UNCHANGED <<main, opened, wired, server, errCh, handling, cut, drained, code>>

(* restart: unless-stopped (docker-compose.yml:65). *)
Restart ==
  /\ main \in Ended
  /\ main' = "load" /\ opened' = {} /\ wired' = {}
  /\ server' = "none" /\ errCh' = "empty" /\ signalled' = FALSE
  /\ handling' = {} /\ cut' = {} /\ drained' = FALSE /\ code' = 0

Next ==
  \/ Run \/ Listen \/ ListenFails
  \/ \E r \in Requests : Accept(r) \/ MeetClosed(r) \/ Finish(r)
  \/ Kill \/ Signal \/ Restart

Spec == Init /\ [][Next]_vars

(* Go schedules every goroutine, and a handler ends because each call it    *)
(* makes ends (um_liveness).                                                *)
FairSpec ==
  /\ Spec
  /\ WF_vars(Run)
  /\ \A r \in Requests : WF_vars(Finish(r))

-----------------------------------------------------------------------------
(* Nothing is left open without the pool, which everything else is closed   *)
(* before, and a request that is cut off is one in flight.                  *)
TypeOK ==
  /\ main \in Starting \cup Ended \cup {"select", "shutdown", "drain", "close"}
  /\ opened \subseteq wired /\ (opened # {} => "pool" \in opened)
  /\ wired \subseteq Resources
  /\ server \in {"none", "starting", "unbound", "listening", "broken", "ended"}
  /\ errCh \in Outcomes \cup {"empty"}
  /\ signalled \in BOOLEAN /\ drained \in BOOLEAN /\ code \in {0, 1}
  /\ cut \subseteq handling /\ handling \subseteq Requests

(* main.go:86: once Shutdown has waited, no request finds anything closed,  *)
(* whenever the signal and the requests came.                               *)
DrainedBeforeClosed == drained => cut = {}

(* main.go:83-94: a process that exits with 0 was asked to stop, or its     *)
(* listener ended with nil or context.Canceled.  So a start that fails and  *)
(* an error of the listener are in the exit status, unless a signal came    *)
(* before the process had ended, which may hide the error.                  *)
ZeroIsNoFailure ==
  main = "exited" /\ code = 0 => signalled \/ errCh \in {"canceled", "nil"}

(* A process that was asked to stop ends, although requests keep arriving.  *)
StopEnds == signalled ~> main \in Ended
=============================================================================
