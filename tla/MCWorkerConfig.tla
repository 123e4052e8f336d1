--------------------------- MODULE MCWorkerConfig ---------------------------
(* Instances of WorkerConfig for TLC. *)
EXTENDS WorkerConfig

CONSTANTS m1, m2, p1, v1, v2, w

NothingBaked == EmptyCatalog
Only(v) == [NoConfig EXCEPT ![p1] = v]
First == {Only(v1)}

AllServable == {}
=============================================================================
