-------------------------- MODULE LifecycleProofs --------------------------
(***************************************************************************)
(* Proofs about Lifecycle, for any number of requests in flight.           *)
(***************************************************************************)
EXTENDS Lifecycle, TLAPS

(* What has been opened where run() is. *)
OpenedSoFar ==
  /\ main \in {"load", "storage"} => opened = {} /\ wired = {}
  /\ main \in {"cache", "provider", "serve"} => "pool" \in opened
  /\ main \in Starting \ {"notify"} => server = "none" /\ errCh = "empty"

(* Only a signal leads to Shutdown; to 0 leads that, or the end of a        *)
(* listener without an error.                                               *)
Asked ==
  /\ main \in {"shutdown", "drain"} => signalled
  /\ main \in {"close", "exited"} /\ code = 0 => signalled \/ errCh \in {"canceled", "nil"}
  /\ errCh # "empty" => server \notin {"starting", "listening"}

(* Once the requests have been waited for there are none any more. *)
Quiet ==
  /\ main = "drain" => server \in {"ended", "none"}
  /\ drained => handling = {} /\ server \in {"ended", "none"} /\ main \in {"close"} \cup Ended

IInv == TypeOK /\ OpenedSoFar /\ Asked /\ Quiet

(* A step of run() keeps the invariant. *)
LEMMA RunStep ==
  ASSUME IInv, Run
  PROVE  IInv'
  <1> USE DEF IInv, TypeOK, OpenedSoFar, Asked, Quiet, Starting, Ended, Resources, Outcomes, Goto, Return
  <1>1. CASE LoadConfig  BY <1>1 DEF LoadConfig, outside
  <1>2. CASE OpenStorage
    <2>1. opened = {} /\ wired = {} /\ main = "storage" /\ UNCHANGED outside
      BY <1>2 DEF OpenStorage
    <2>2. CASE main' = "provider" /\ opened' = {"pool"} /\ wired' = {"pool"} /\ code' = code
      BY <2>1, <2>2 DEF outside
    <2>3. CASE main' = "close" /\ opened' = {} /\ wired' = {} /\ code' = 1
      BY <2>1, <2>3 DEF outside
    <2> QED  BY <1>2, <2>1, <2>2, <2>3 DEF OpenStorage
  <1>3. CASE OpenProvider  BY <1>3 DEF OpenProvider, outside
  <1>4. CASE OpenCache  BY <1>4 DEF OpenCache, outside
  <1>5. CASE Serve  BY <1>5 DEF Serve
  <1>6. CASE Notify  BY <1>6 DEF Notify, outside
  <1>7. CASE Select  BY <1>7 DEF Select, outside
  <1>8. CASE Shutdown  BY <1>8 DEF Shutdown
  <1>9. CASE Drain  BY <1>9 DEF Drain
  <1>10. CASE Close
    <2>1. PICK last \in opened : /\ \A other \in opened : Turn[other] <= Turn[last]
                                /\ opened' = opened \ {last}
      BY <1>10 DEF Close
    <2>2. last = "pool" => opened = {"pool"}
      <3>1. Turn["pool"] = 1 /\ Turn["parser"] = 2 /\ Turn["redis"] = 3  BY DEF Turn
      <3>2. opened \subseteq {"pool", "parser", "redis"}  OBVIOUS
      <3>3. ASSUME last = "pool", NEW other \in opened  PROVE other = "pool"
        <4>1. Turn[other] <= 1  BY <2>1, <3>1, <3>3
        <4>2. CASE other = "parser"  BY <3>1, <4>1, <4>2
        <4>3. CASE other = "redis"  BY <3>1, <4>1, <4>3
        <4> QED  BY <3>2, <3>3, <4>2, <4>3
      <3> QED  BY <2>1, <3>3
    <2>3. opened' \subseteq wired /\ (opened' # {} => "pool" \in opened')  BY <2>1, <2>2
    <2> QED  BY <1>10, <2>3 DEF Close, outside
  <1>11. CASE Exit  BY <1>11 DEF Exit
  <1> QED
    BY <1>1, <1>2, <1>3, <1>4, <1>5, <1>6, <1>7, <1>8, <1>9, <1>10, <1>11 DEF Run

(* What holds of a process holds in every state of it. *)
THEOREM Orderly == Spec => []IInv
  <1>1. Init => IInv
    BY DEF Init, IInv, TypeOK, OpenedSoFar, Asked, Quiet, Starting, Ended, Outcomes
  <1>2. ASSUME IInv, [Next]_vars  PROVE IInv'
    <2>1. CASE Run  BY <1>2, <2>1, RunStep
    <2> USE DEF IInv, TypeOK, OpenedSoFar, Asked, Quiet, Starting, Ended, Resources, Outcomes
    <2>2. CASE Listen  BY <1>2, <2>2 DEF Listen
    <2>3. CASE ListenFails  BY <1>2, <2>3 DEF ListenFails
    <2>4. ASSUME NEW r \in Requests, Accept(r)  PROVE IInv'  BY <1>2, <2>4 DEF Accept
    <2>5. ASSUME NEW r \in Requests, MeetClosed(r)  PROVE IInv'  BY <1>2, <2>5 DEF MeetClosed
    <2>6. ASSUME NEW r \in Requests, Finish(r)  PROVE IInv'  BY <1>2, <2>6 DEF Finish
    <2>7. CASE Kill  BY <1>2, <2>7 DEF Kill
    <2>8. CASE Signal  BY <1>2, <2>8 DEF Signal
    <2>9. CASE Restart  BY <1>2, <2>9 DEF Restart
    <2>10. CASE UNCHANGED vars  BY <1>2, <2>10 DEF vars
    <2> QED
      BY <1>2, <2>1, <2>2, <2>3, <2>4, <2>5, <2>6, <2>7, <2>8, <2>9, <2>10 DEF Next
  <1> QED  BY <1>1, <1>2, PTL DEF Spec

(* Types, the order of the deferred calls included. *)
THEOREM LifecycleTypeCorrect == Spec => []TypeOK
  <1>1. IInv => TypeOK  BY DEF IInv
  <1> QED  BY <1>1, Orderly, PTL

(* After Shutdown has waited nothing is cut off. *)
THEOREM StopsAreGraceful == Spec => []DrainedBeforeClosed
  <1>1. IInv => DrainedBeforeClosed  BY DEF IInv, TypeOK, Quiet, DrainedBeforeClosed
  <1> QED  BY <1>1, Orderly, PTL

(* 0 is the status of a process that was asked to stop, or whose listener   *)
(* ended without an error.                                                  *)
THEOREM StatusIsHonest == Spec => []ZeroIsNoFailure
  <1>1. IInv => ZeroIsNoFailure  BY DEF IInv, Asked, ZeroIsNoFailure
  <1> QED  BY <1>1, Orderly, PTL
=============================================================================
