-------------------------- MODULE MCSchedulerEngine --------------------------
(* Instances of SchedulerEngine for TLC. *)
EXTENDS SchedulerEngine, TLC

CONSTANTS a, b, c, s1, s2, New

\* a may run twice; the schedule of b ends one boundary early.
ACapped    == [t \in Tasks |-> IF t = a THEN 2 ELSE 0]
BEndsEarly == [t \in Tasks |-> IF t = b THEN MaxTime - 1 ELSE MaxTime + 1]

\* Every task in the same session, with the same policy but for a.
File(some, policyOfA, policy) ==
  [t \in Tasks |-> IF t \notin some THEN None
                   ELSE NewTask(s1, IF t = a THEN policyOfA ELSE policy)]
TwoPolicies == {File(Tasks, "queue", "queue"), File(Tasks, "preempt", "queue")}
SomePolicies == TwoPolicies \cup {File({a}, "queue", "queue"), File(Tasks, "queue", "skip")}

Events(n, some) == [k \in Kinds |-> IF k \in some THEN n ELSE 0]
Timeouts == {Events(2, {"timeout"}), Events(1, {"early"})}
Scenarios ==
  {Events(2, {"timeout", "restart"}), Events(1, {"timeout", "edit"}),
   Events(1, {"manual", "timeout"}), Events(1, {"retarget"}),
   Events(1, {"demote", "reload"}), Events(1, {"demote", "external"}),
   Events(2, {"early"}), Events(1, {"early", "setback"}), Events(1, {"cut", "timeout"}),
   Events(2, {"continue"})}
=============================================================================
