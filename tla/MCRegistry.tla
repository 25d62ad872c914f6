------------------------------ MODULE MCRegistry ------------------------------
(* Two processes share a catalog that is new, in use or of an earlier
   release, and race to publish one version from two roots. *)
EXTENDS DatasetRegistry, TLC

CONSTANTS p1, p2, r1, r2, none

MCProcs == {p1, p2}
MCRoots == {r1, r2}
MCLegacyRows == {[id |-> "d", version |-> 1, root |-> r1, digest |-> 0,
                  status |-> "sealed", at |-> 1]}
Symmetric == Permutations(MCProcs)
=============================================================================
