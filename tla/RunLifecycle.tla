----------------------------- MODULE RunLifecycle -----------------------------
(***************************************************************************)
(* The life of a run as everyone outside the tables sees it: a run is      *)
(* open (pending or running), stopped (failed or cancelled) or completed.  *)
(* Completed is final. Stopped is not: a poll for a step that was left     *)
(* pending puts the run back to running, and the engine may still settle   *)
(* it. WorkflowExecution implements this specification for runs whose      *)
(* steps are inserted with them; Scheduler, whose runs get their steps one *)
(* by one, builds on its moves.                                            *)
(***************************************************************************)
CONSTANT Runs

VARIABLE life    \* life[r]: where run r stands

Lives == {"absent", "open", "stopped", "completed"}

\* The moves of a run that has its steps.
Moves ==
    {<<"open", "stopped">>, <<"open", "completed">>,
     <<"stopped", "open">>, <<"stopped", "completed">>}

Births == {<<"absent", "open">>}

LifeInit == life = [r \in Runs |-> "absent"]

\* An engine pass over all runs may move several of them.
LifeNext ==
    /\ life' \in [Runs -> Lives]
    /\ \A r \in Runs :
         life'[r] = life[r] \/ <<life[r], life'[r]>> \in Moves \union Births

LifeSpec == LifeInit /\ [][LifeNext]_life
=============================================================================
