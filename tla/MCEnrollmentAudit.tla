------------------------- MODULE MCEnrollmentAudit -------------------------
(***************************************************************************)
(* A small instance of EnrollmentAudit.                                    *)
(***************************************************************************)
EXTENDS EnrollmentAudit, TLC

Symmetry ==
  Permutations(Device) \cup Permutations(Code) \cup Permutations(RequestId)

=============================================================================
