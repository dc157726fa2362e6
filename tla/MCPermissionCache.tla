------------------------- MODULE MCPermissionCache -------------------------
(* Instances of PermissionCache for TLC.                                    *)
EXTENDS PermissionCache, TLC

Symmetry == Permutations(Requests) \cup Permutations(Writers)

=============================================================================
