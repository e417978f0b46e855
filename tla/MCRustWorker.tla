----------------------------- MODULE MCRustWorker -----------------------------
(***************************************************************************)
(* Instances of RustWorker for TLC. Backoff times are in units of 10 ms.   *)
(***************************************************************************)
EXTENDS RustWorker

\* compute doubles the 100 ms of default_config until the 30 s are reached.
ASSUME BackoffReference ==
    \A n \in 0..16 : Doubled[n] = Smaller(BackoffInitial * 2^n, BackoffMax)

SixTasks == 1..6
\* The second and the third task name activities nobody registered.
FourOfSix == SixTasks \ {2, 3}
=============================================================================
