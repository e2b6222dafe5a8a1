---------------------------- MODULE MCTaskPipeline ----------------------------
(***************************************************************************)
(* Finite instances of TaskPipeline.  Task a has two rounds of one         *)
(* question, task b one round of another; the configurations take a        *)
(* prefix of these units.                                                  *)
(***************************************************************************)
EXTENDS TaskPipeline

CONSTANTS a, b, u1, u2, u3

TwoTasks == {a, b}
OneTask  == {a}
TwoUnits == {u1, u2}
AllUnits == {u1, u2, u3}
OneUnit  == {u1}
TaskB    == {b}

OwnerOf  == [u \in Units |-> IF u = u3 THEN b ELSE a]
RowOfUnit == [u \in Units |-> IF u = u3 THEN 2 ELSE 1]
RoundOfUnit == [u \in Units |-> IF u = u2 THEN 2 ELSE 1]
=============================================================================
