------------------------------- MODULE MCCiJobs -------------------------------
(* Model checking of CiJobs: a job that needs another, two boots with a worker *)
(* each.                                                                       *)
EXTENDS CiJobs, TLC

CONSTANTS j1, j2, b1, b2, w1, w2, o1

MCNeeds  == [j \in Jobs |-> IF j = j2 THEN {j1} ELSE {}]
MCBootOf == [w \in Workers |-> IF w = w1 THEN b1 ELSE b2]

=============================================================================
