----------------------------- MODULE WorkerContract -----------------------------
(***************************************************************************)
(* What a worker process owes the server for the tasks it is given, with   *)
(* its poller, channel and permits left out: it holds at most Limit tasks, *)
(* ends each of them by one report or loses it, loses one at a time while  *)
(* it is up, and all it holds when it goes down.                           *)
(***************************************************************************)
EXTENDS Naturals, FiniteSets

CONSTANTS Tasks, Limit

VARIABLES
    stage,   \* stage[t]: where task t stands
    up       \* the worker process is running

contractVars == <<stage, up>>

Taken == {t \in Tasks : stage[t] = "taken"}

ContractInit == stage = [t \in Tasks |-> "ready"] /\ up = TRUE

Take(t) ==
    /\ up /\ stage[t] = "ready"
    /\ Cardinality(Taken) < Limit
    /\ stage' = [stage EXCEPT ![t] = "taken"]
    /\ UNCHANGED up

Report(t) ==
    /\ up /\ stage[t] = "taken"
    /\ stage' = [stage EXCEPT ![t] = "reported"]
    /\ UNCHANGED up

\* Also a task whose way to the worker failed.
Lose(t) ==
    /\ up /\ stage[t] \in {"ready", "taken"}
    /\ stage' = [stage EXCEPT ![t] = "lost"]
    /\ UNCHANGED up

GoDown ==
    /\ up
    /\ up' = FALSE
    /\ stage' = [t \in Tasks |-> IF t \in Taken THEN "lost" ELSE stage[t]]

ContractNext == (\E t \in Tasks : Take(t) \/ Report(t) \/ Lose(t)) \/ GoDown

ContractSpec == ContractInit /\ [][ContractNext]_contractVars
=============================================================================
