-------------------------- MODULE MCRegionalRollout --------------------------
(* Model checking of RegionalRollout: two regions that grow, and an endpoint in *)
(* a region that the request does not name.                                     *)
EXTENDS RegionalRollout

CONSTANTS eu, us, ap, l1, l2

MCOrder == <<eu, us>>
MCWas   == [r \in {eu, us, ap} |-> 1]
MCSize  == [r \in {eu, us} |-> 2]

MCIngresses == Permutations(Ingress)

\* No step and no property looks at a version that every ingress has left behind,
\* or at the number of a version but to compare it with another.
MCOldest == Min({adopted[l] : l \in Ingress} \cup {Version})
MCView ==
    <<row, disc, SubSeq(history, MCOldest, Version), [l \in Ingress |-> adopted[l] - MCOldest],
      todo, request, created, base, evidence>>

==============================================================================
