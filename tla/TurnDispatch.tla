---------------------------- MODULE TurnDispatch ----------------------------
(***************************************************************************)
(* What the gateway's scheduling promises, whatever its data structures:   *)
(* a job belongs to one session for good, waits, runs at most once and     *)
(* ends; a session runs at most one job and all sessions together at most  *)
(* Limit.  One step may move several jobs, as a completion that frees a    *)
(* slot and starts the next job does.                                      *)
(***************************************************************************)
EXTENDS Integers, FiniteSets

CONSTANTS Sessions, Jobs, Limit, NoSession

VARIABLES owner,  \* job -> its session, NoSession while the job does not exist
          stage   \* job -> where it is in its life

vars == <<owner, stage>>

Stage == {"new", "waiting", "running", "done"}

(* A job may start at once, and a waiting job may be cleared. *)
Moves == {<<"new", "waiting">>, <<"new", "running">>, <<"waiting", "running">>,
          <<"waiting", "done">>, <<"running", "done">>}

Running(stages) == {j \in Jobs : stages[j] = "running"}

Init ==
  /\ owner = [j \in Jobs |-> NoSession]
  /\ stage = [j \in Jobs |-> "new"]

Next ==
  /\ owner' \in [Jobs -> Sessions \cup {NoSession}]
  /\ stage' \in [Jobs -> Stage]
  /\ \A j \in Jobs :
       /\ stage'[j] = stage[j] \/ <<stage[j], stage'[j]>> \in Moves
       /\ stage[j] # "new" => owner'[j] = owner[j]
       /\ stage'[j] = "new" <=> owner'[j] = NoSession
  /\ \A j, k \in Running(stage') : owner'[j] = owner'[k] => j = k
  /\ Cardinality(Running(stage')) <= Limit

Spec == Init /\ [][Next]_vars
=============================================================================
