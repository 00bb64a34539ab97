-------------------------- MODULE MCLinuxUpgrade --------------------------
(***************************************************************************)
(* The instance of LinuxUpgrade that TLC checks: three releases, so that   *)
(* an update can follow, repeat or supersede one that was interrupted      *)
(* while it replaced an earlier one.                                       *)
(***************************************************************************)
EXTENDS LinuxUpgrade

=============================================================================
