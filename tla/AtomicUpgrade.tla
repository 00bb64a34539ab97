--------------------------- MODULE AtomicUpgrade ---------------------------
(***************************************************************************)
(* What an update of the managed programs promises, whatever is            *)
(* interrupted: the installed set of programs changes from one whole set   *)
(* to another in one step, only to a release whose daemon ran and passed   *)
(* its health check, and never to an older release than one installed.     *)
(* "Installed" is what the computer has once recovery is done.             *)
(***************************************************************************)
EXTENDS Naturals

CONSTANTS
  Name,      \* the managed programs
  Helper,    \* the one of them that recovers
  Release,   \* sequence numbers of releases
  Version,   \* what a file can be: a release, or not the product of one
  NoRelease

VARIABLES
  installed, \* what recovery leaves in place of each program
  trial,     \* release that passed its health check and is not installed yet
  running    \* what the service runs

vars == <<installed, trial, running>>

TypeOK ==
  /\ installed \in [Name -> Version]
  /\ trial \in Release \cup {NoRelease}

Init ==
  /\ installed \in [Name -> Version \ Release]
  /\ trial = NoRelease

Newest(r) == \A n \in Name : installed[n] \in Release => installed[n] <= r

\* The service starts and stops; a trial may be forgotten.
Run ==
  /\ trial' \in {trial, NoRelease}
  /\ UNCHANGED installed

PassHealthCheck ==
  /\ running \in Release /\ Newest(running)
  /\ trial' = running
  /\ UNCHANGED <<installed, running>>

Switch ==
  /\ trial # NoRelease
  /\ installed' = [n \in Name |-> trial]
  /\ trial' = NoRelease
  /\ UNCHANGED running

\* The first update puts a recovery helper where there is none.
PlaceHelper ==
  /\ installed[Helper] \notin Release
  /\ \E v \in Version : installed' = [installed EXCEPT ![Helper] = v]
  /\ UNCHANGED <<trial, running>>

Next == Run \/ PassHealthCheck \/ Switch \/ PlaceHelper

Spec == Init /\ [][Next]_vars
=============================================================================
