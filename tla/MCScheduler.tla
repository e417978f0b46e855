------------------------------ MODULE MCScheduler ------------------------------
(***************************************************************************)
(* Instances of Scheduler for TLC. The runs of schedule "a-b" match the    *)
(* pattern of schedule "a".                                                *)
(***************************************************************************)
EXTENDS Scheduler

Every(secs) == [type |-> "interval", secs |-> secs]
Cron(periods) == [type |-> "cron", periods |-> periods]

OneId == {"a"}
TwoIds == {"a", "a-b"}
OnlyOwn == [i \in OneId |-> {i}]
Prefix == [i \in TwoIds |-> IF i = "a" THEN TwoIds ELSE {i}]

\* Two intervals, and a cron trigger behind an expression that does not parse: its
\* entries lie beyond a horizon of one second, but a row that is changed to it
\* after the heap was built may fire or not.
AllSpecs == {Every(1), Every(2), Cron(<<0, 3>>)}
ShortInterval == {Every(1)}
SlowCron == {Cron(<<3>>)}

AllPolicies == {"skip", "buffer", "terminate"}
Skip == {"skip"}

RunPerSecond == 1..((MaxTime + 1) * Cardinality(Ids))
=============================================================================
