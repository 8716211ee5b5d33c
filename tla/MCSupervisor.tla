---------------------------- MODULE MCSupervisor ----------------------------
(* Instances of Supervisor for TLC: a chain project -> goal -> task, and the *)
(* same with a second task that depends on the first.                        *)
EXTENDS SupervisorProperties

CONSTANTS project, goal, task, task2, none

ChainCards == {project, goal, task}
ChainParent == [c \in ChainCards |->
                  IF c = project THEN none ELSE IF c = goal THEN project ELSE goal]
ChainAnc == [c \in ChainCards |->
               IF c = project THEN {} ELSE IF c = goal THEN {project} ELSE {project, goal}]
ForkCards == ChainCards \cup {task2}
ForkParent == [c \in ForkCards |-> IF c = task2 THEN goal ELSE ChainParent[c]]
ForkAnc == [c \in ForkCards |-> IF c = task2 THEN {project, goal} ELSE ChainAnc[c]]
ForkDeps == [c \in ForkCards |-> IF c = task2 THEN {task} ELSE {}]
ChainDeps == [c \in ChainCards |-> {}]
=============================================================================
