--------------------------- MODULE MCFleetUpdates ---------------------------
(***************************************************************************)
(* Instances of FleetUpdates with a bounded number of requests by people   *)
(* and of faults.                                                          *)
(***************************************************************************)
EXTENDS FleetUpdates

CONSTANTS MaxAsked, MaxFaults

VARIABLES asked, faults

boundedVars == <<vars, asked, faults>>

BoundedInit == Init /\ asked = 0 /\ faults = 0

\* That the clock moves, or shows an earlier time, counts as a request.
BoundedAsked ==
  /\ asked < MaxAsked
  /\ asked' = asked + 1
  /\ Asked \/ Monitor(Times \ {observed}) \/ Install(Times \ {observed})
  /\ UNCHANGED faults

BoundedFault ==
  faults < MaxFaults /\ faults' = faults + 1 /\ Fault /\ UNCHANGED asked

Free(A) == A /\ UNCHANGED <<asked, faults>>

Checks == Monitor({observed})

Installs == Install({observed})

BoundedNext ==
  \/ BoundedAsked \/ BoundedFault
  \/ Free(\/ Coordination \/ Checks \/ Installs \/ Leave \/ TimePasses
          \/ GatewayRestarts \/ DaemonStarts
          \/ \E r \in Release : Publish(r))

\* The feed serves the latest release again and again.
FindsLatest == \E r \in Release : r = feed /\ Discover(r, observed)

Fairness ==
  /\ WF_boundedVars(Free(Coordination))
  /\ WF_boundedVars(Free(Checks)) /\ SF_boundedVars(Free(FindsLatest))
  /\ WF_boundedVars(Free(Leave \/ LeaseEnds \/ StatusAges))
  /\ WF_boundedVars(Free(GatewayRestarts \/ DaemonStarts))
  /\ WF_boundedVars(Free(Installs))

BoundedSpec == BoundedInit /\ [][BoundedNext]_boundedVars /\ Fairness

AllTimes == [r \in Release |-> IF r = 1 THEN {0} ELSE Times]

(***************************************************************************)
(* A computer that was offline, or whose answer was lost, catches up with  *)
(* the hint of the Gateway (fleetUpdates.sync).                            *)
(***************************************************************************)
CursorCatchesUp == (version # 0 /\ cursor < hint) ~> (cursor >= hint)

Handled(r) ==
  \/ version = r \/ trust > r \/ r \notin Compatible
  \/ status # NoStatus /\ status.release = r /\ status.phase # "installing"
  \/ package[r] = "damaged"

(***************************************************************************)
(* The latest release is installed, or its installation was tried and      *)
(* reported, whatever hints were lost and whoever crashed on the way       *)
(* (Monitor.Run, applyBackgroundUpdate, ActionGate, WriteStatus).          *)
(***************************************************************************)
LatestIsHandled ==
  \A r \in Release :
    (feed = r /\ version # 0)
      ~> (Handled(r) \/ trustFile # "ready" \/ feed # r)

=============================================================================
