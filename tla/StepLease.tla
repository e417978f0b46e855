------------------------------- MODULE StepLease -------------------------------
(***************************************************************************)
(* What the tables promise a worker about one step, with the tables left   *)
(* out: a step is leased to one worker at a time, a lease ends with the    *)
(* step done, dead, or idle again for a retry, done and dead are final,    *)
(* and the number of leases never exceeds the step's retry policy.         *)
(***************************************************************************)
EXTENDS Naturals

CONSTANTS Steps, MaximumAttempts

VARIABLES
    phase,   \* phase[s]: where step s stands
    leases   \* leases[s]: how often s has been leased

leaseVars == <<phase, leases>>

\* The first execution of a step does not depend on its retry policy.
LeaseLimit(s) == IF MaximumAttempts[s] = 0 THEN 1 ELSE MaximumAttempts[s]

LeaseInit ==
    /\ phase = [s \in Steps |-> "absent"]
    /\ leases = [s \in Steps |-> 0]

\* The steps of a run appear together.
Create(S) ==
    /\ S \subseteq {s \in Steps : phase[s] = "absent"}
    /\ phase' = [s \in Steps |-> IF s \in S THEN "idle" ELSE phase[s]]
    /\ UNCHANGED leases

Acquire(s) ==
    /\ phase[s] = "idle"
    /\ leases[s] < LeaseLimit(s)
    /\ phase' = [phase EXCEPT ![s] = "leased"]
    /\ leases' = [leases EXCEPT ![s] = leases[s] + 1]

Release(s, outcome) ==
    /\ phase[s] = "leased"
    /\ outcome = "idle" => leases[s] < LeaseLimit(s)
    /\ phase' = [phase EXCEPT ![s] = outcome]
    /\ UNCHANGED leases

LeaseNext ==
    \/ \E S \in SUBSET Steps : Create(S)
    \/ \E s \in Steps :
         Acquire(s) \/ \E outcome \in {"idle", "done", "dead"} : Release(s, outcome)

LeaseSpec == LeaseInit /\ [][LeaseNext]_leaseVars
=============================================================================
