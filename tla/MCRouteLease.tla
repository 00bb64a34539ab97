---------------------------- MODULE MCRouteLease ----------------------------
(***************************************************************************)
(* Small instances of RouteLease.                                          *)
(***************************************************************************)
EXTENDS RouteLease, TLC

Symmetry == Permutations(Call) \cup Permutations(Key) \cup Permutations(Lease)

=============================================================================
