---------------------------- MODULE MCDirectory ----------------------------
(***************************************************************************)
(* Instances of Directory with a bounded number of requests by people, of  *)
(* faults and of publications by peers.                                    *)
(***************************************************************************)
EXTENDS Directory

CONSTANTS MaxAsked, MaxFaults

VARIABLES asked, faults

boundedVars == <<vars, asked, faults>>

Free(A) == A /\ UNCHANGED <<asked, faults>>

Asked == asked < MaxAsked /\ asked' = asked + 1 /\ UNCHANGED faults

Failed == faults < MaxFaults /\ faults' = faults + 1 /\ UNCHANGED asked

BoundedInit == Init /\ asked = 0 /\ faults = 0

BoundedNext ==
  \/ Asked /\ Administration
  \/ Failed /\ Fault
  \/ Free(Start \/ Synchronization \/ UseCatalog \/ Restore \/ TimePasses)

Fairness ==
  WF_boundedVars(Free(Start)) /\ WF_boundedVars(Free(Synchronization))

BoundedSpec == BoundedInit /\ [][BoundedNext]_boundedVars /\ Fairness

(***************************************************************************)
(* On the Owner's computer what a Device published arrives, unless a claim *)
(* conflicts with the directory, or the Gateway's is no newer.             *)
(***************************************************************************)
ClaimsArrive ==
  \A d \in Device :
    (/\ pull /\ Founded /\ View # NoSnapshot
     /\ ~Conflicts(View, gateway) /\ d \in News(View, gateway))
    ~> (\/ ~Founded \/ View = NoSnapshot
        \/ Conflicts(View, gateway) \/ d \notin News(View, gateway))

(***************************************************************************)
(* The authority of a controlled node that is active at the Gateway does   *)
(* not stay expired.                                                       *)
(***************************************************************************)
NodeStaysConfirmed ==
  (~pull /\ gateway.status[Self] = "active" /\ Expired)
    ~> (~Expired \/ gateway.status[Self] # "active" \/ now < clock)

=============================================================================
