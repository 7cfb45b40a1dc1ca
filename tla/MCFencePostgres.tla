--------------------------- MODULE MCFencePostgres ---------------------------
(* Model checking of FencePostgres. *)
EXTENDS FencePostgres

CONSTANTS c1, c2

MCClients == {c1, c2}

=============================================================================
