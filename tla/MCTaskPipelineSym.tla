--------------------------- MODULE MCTaskPipelineSym ---------------------------
(***************************************************************************)
(* MCTaskPipeline with interchangeable masters and consumers: neither      *)
(* thread is told apart by its name anywhere in TaskPipeline.              *)
(***************************************************************************)
EXTENDS MCTaskPipeline, TLC

CONSTANTS m1, m2, c1, c2

TwoMasters   == {m1, m2}
TwoConsumers == {c1, c2}
Interchangeable == Permutations(TwoMasters) \cup Permutations(TwoConsumers)
=============================================================================
