---------------------------- MODULE WriterLineage ----------------------------
(***************************************************************************)
(* What a physical handoff promises the tenant: one database with one      *)
(* writer at a time.  Every acknowledged commit is appended by the current *)
(* writer to the one log, a handoff moves the log whole to a VM that never *)
(* wrote before, and a VM that was retired never writes again.             *)
(***************************************************************************)
EXTENDS Integers, Sequences

CONSTANTS
    VMs,            \* the VMs that may become the writer
    First           \* the writer at the start

VARIABLES
    owner,          \* the writer
    retired,        \* former writers
    log,            \* commits the writer holds, in order
    acked           \* commits acknowledged to tenants

vars == <<owner, retired, log, acked>>

Init ==
    /\ owner = First
    /\ retired = {}
    /\ log = << >>
    /\ acked = {}

Commit(x) ==
    /\ x \notin acked
    /\ log' = Append(log, x)
    /\ acked' = acked \cup {x}
    /\ UNCHANGED <<owner, retired>>

Transfer(v) ==
    /\ v \notin retired \cup {owner}
    /\ owner' = v
    /\ retired' = retired \cup {owner}
    /\ UNCHANGED <<log, acked>>

Next ==
    \/ \E x \in acked' : Commit(x)
    \/ \E v \in VMs : Transfer(v)

Spec == Init /\ [][Next]_vars

=============================================================================
