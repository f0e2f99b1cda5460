-------------------------- MODULE MCCronScheduler --------------------------
(* CronScheduler on small instances: recurring tasks that match two minutes *)
(* in a row, a one-shot that jitter brings forward by a minute and one     *)
(* that it does not.                                                       *)
EXTENDS CronScheduler, TLC

CONSTANTS r1, o1, o2, first, second

MCMatches == [t \in Recurring |-> {2, 3}]
MCDueAt == [t \in OneShots |-> IF t = o1 THEN 3 ELSE 2]
MCEarly == [t \in OneShots |-> IF t = o1 THEN 1 ELSE 0]
=============================================================================
