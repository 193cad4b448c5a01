------------------------------ MODULE JobLife ------------------------------
(***************************************************************************)
(* What the control server promises of its jobs, whoever asks for what and *)
(* whatever fails: a job is created, has its first turn when no other job  *)
(* has one, is stopped and taken up again (without asking for the others)  *)
(* any number of times, and is done once.  JobControl implements it        *)
(* (LifeCycle).                                                            *)
(***************************************************************************)
EXTENDS FiniteSets

CONSTANT Jobs

VARIABLE life

Phases == {"none", "waiting", "active", "stopped", "done", "gone"}

Nobody == \A j \in Jobs : life[j] # "active"

Init == life = [j \in Jobs |-> "none"]

\* Jobs are created together, and the first to be created may have its turn at once.
Create(S) ==
    /\ \A j \in S : life[j] = "none"
    /\ \E first \in SUBSET S :
          /\ first # {} => Nobody /\ Cardinality(first) = 1
          /\ life' = [j \in Jobs |-> IF j \in first THEN "active"
                                     ELSE IF j \in S THEN "waiting" ELSE life[j]]

Start(j) == life[j] = "waiting" /\ Nobody /\ life' = [life EXCEPT ![j] = "active"]

Resume(j) == life[j] = "stopped" /\ life' = [life EXCEPT ![j] = "active"]

Stop(j) == life[j] = "active" /\ life' = [life EXCEPT ![j] = "stopped"]

Finish(j) == life[j] = "active" /\ life' = [life EXCEPT ![j] = "done"]

Delete(j) == life[j] \in {"waiting", "stopped", "done"} /\ life' = [life EXCEPT ![j] = "gone"]

Next ==
    \/ \E S \in SUBSET Jobs : S # {} /\ Create(S)
    \/ \E j \in Jobs : Start(j) \/ Resume(j) \/ Stop(j) \/ Finish(j) \/ Delete(j)

Spec == Init /\ [][Next]_life

=============================================================================
