--------------------------- MODULE VersionSwitch ---------------------------
(***************************************************************************)
(* What the Windows installation promises about the version a user has,    *)
(* "installed": what current.json selects once an interrupted upgrade is   *)
(* recovered.  It changes in one step: to a release that was activated, to *)
(* one whose installation began before there was any, back to the one      *)
(* before it at the user's request, or to nothing.                         *)
(***************************************************************************)
EXTENDS Naturals

CONSTANTS Release, NoState

VARIABLES
  installed, \* NoState, or the selected release and the one before it
  first,     \* releases whose installation found nothing installed
  trial,     \* releases activated and not yet installed for good
  serving    \* releases whose background programs all run

vars == <<installed, first, trial, serving>>

Selection == [current : Release, previous : Release \cup {0}]

Init == installed = NoState /\ first = {} /\ trial = {} /\ serving = {}

\* Background programs start and stop.
Serve == UNCHANGED <<installed, first, trial>>

Choose ==
  /\ installed = NoState
  /\ \E r \in Release : first' = first \cup {r}
  /\ UNCHANGED <<installed, trial, serving>>

Activate ==
  /\ \E r \in serving : trial' = trial \cup {r}
  /\ UNCHANGED <<installed, first, serving>>

\* What is not installed yet may be given up, also because everything stops.
GiveUp ==
  /\ first' \in SUBSET first /\ trial' \in SUBSET trial
  /\ UNCHANGED installed

\* The release before it stays available.
Installing(r) ==
  installed' =
    [current  |-> r,
     previous |-> IF installed = NoState THEN 0
                  ELSE IF installed.current # r THEN installed.current
                  ELSE installed.previous]

Install ==
  /\ \E r \in first : Installing(r) /\ first' \in {first, first \ {r}}
  /\ UNCHANGED <<trial, serving>>

Keep ==
  /\ installed # NoState
  /\ \E r \in trial : Installing(r) /\ trial' \in {trial, trial \ {r}}
  /\ UNCHANGED <<first, serving>>

GoBack ==
  /\ installed # NoState /\ installed.previous # 0
  /\ installed' = [current  |-> installed.previous,
                   previous |-> installed.current]
  /\ UNCHANGED <<first, trial, serving>>

Remove == installed' = NoState /\ UNCHANGED <<first, trial, serving>>

Next ==
  \/ Serve \/ Choose \/ Activate \/ GiveUp \/ Install \/ Keep \/ GoBack
  \/ Remove

Spec == Init /\ [][Next]_vars
=============================================================================
