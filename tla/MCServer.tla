------------------------------- MODULE MCServer -------------------------------
(***************************************************************************)
(* Server with bounds on its environment, so that two connections with      *)
(* their requests, and one with the shutdown, fit in a run.                 *)
(***************************************************************************)
EXTENDS Server

\* Bound: connections accepted, and requests read, when a signal is delivered
\* and until the process ends.
CONSTANT SignalLoad

Bounded ==
  signal' \in {"ready", "taken"} => connections' <= SignalLoad /\ requests' <= SignalLoad

\* Bound: operations fail only while no second connection has been accepted.
Failing(s) == err'[s] => connections' <= 1

BoundedSignal == Signal /\ Bounded
BoundedConnect(s) == Connect(s) /\ Bounded /\ Failing(s)
BoundedRequest(s) == RequestArrives(s) /\ Bounded
BoundedHangUp(s) == HangUp(s) /\ Failing(s)
BoundedSent(s) == Sent(s) /\ Failing(s)

MCEnvironment ==
  \/ BoundedSignal
  \/ \E s \in Session :
       BoundedConnect(s) \/ BoundedRequest(s) \/ BoundedHangUp(s) \/ BoundedSent(s)

MCNext == Main \/ (\E t \in Thread : Pool(t)) \/ HandleLogging \/ MCEnvironment

MCSpec == Init /\ [][MCNext]_vars /\ Fairness
==============================================================================
