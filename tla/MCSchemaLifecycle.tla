------------------------- MODULE MCSchemaLifecycle -------------------------
(***************************************************************************)
(* SchemaLifecycle for TLC.                                                *)
(***************************************************************************)
EXTENDS SchemaLifecycle, TLC

(* The clients are interchangeable.                                        *)
Symmetry == Permutations(Clients)

(* No race was lost yet.  races only grows, so a safety property that is   *)
(* conditional on it needs no state beyond the first race.                 *)
Clean == races = {}

(* What later steps depend on: not the ghost, nor the disk or the cached   *)
(* id of a VM that is gone or was never made, which no step reads.         *)
Relevant ==
    <<vm, [v \in VMs |-> IF Exists(v) THEN disk[v] ELSE {}], copies, row, durable,
      map, cell, client, off, IF cached # None /\ Exists(cached) THEN cached ELSE None,
      reaping, suspects, confirmed, purging, acked>>

=============================================================================
