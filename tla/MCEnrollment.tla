---------------------------- MODULE MCEnrollment ----------------------------
(***************************************************************************)
(* Small instances of Enrollment, and its refinement of DeviceAuthority.   *)
(***************************************************************************)
EXTENDS Enrollment, TLC

Symmetry ==
  Permutations(Device) \cup Permutations(Code) \cup Permutations(RequestId)

=============================================================================
