---------------------------- MODULE ConnectionLife ----------------------------
(***************************************************************************)
(* What user code may count on in the life of a connection: it is told     *)
(* once that the connection is up, gets messages from then on, is told at  *)
(* most once that it is down, gets no message after that, and the object   *)
(* lives until then.  One that the user has half-closed himself may also   *)
(* go, with its server, without a word.  Nothing is promised to a program  *)
(* that keeps sending on a connection that is going.                       *)
(***************************************************************************)
VARIABLES
  stage,    \* of the connection
  callback  \* the callback that runs

vars == <<stage, callback>>

Init == stage = "new" /\ callback = "none"

Up ==
  /\ stage = "new"
  /\ stage' = "up" /\ callback' = "up"

\* The user calls shutdown(), here or in another thread.
HalfClose ==
  /\ stage = "up"
  /\ stage' = "halfClosed"
  /\ UNCHANGED callback

Message ==
  /\ stage \in {"up", "halfClosed"} /\ callback = "none"
  /\ callback' = "message"
  /\ UNCHANGED stage

Down ==
  /\ stage \in {"up", "halfClosed"} /\ callback = "none"
  /\ stage' = "down" /\ callback' = "down"

Return ==
  /\ callback # "none"
  /\ callback' = "none"
  /\ UNCHANGED stage

\* The object is destroyed, at the latest user's return.
Destroy ==
  /\ stage = "down" \/ (stage = "halfClosed" /\ callback = "none")
  /\ stage' = "freed" /\ callback' = "none"

SentLate ==
  /\ stage \in {"halfClosed", "down", "freed"}
  /\ stage' = "undefined" /\ callback' = "none"

Next == Up \/ HalfClose \/ Message \/ Down \/ Return \/ Destroy \/ SentLate

Spec == Init /\ [][Next]_vars
===============================================================================
