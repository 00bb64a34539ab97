------------------------------- MODULE Routes -------------------------------
(***************************************************************************)
(* How a session gets its route: the Selector, which tries the providers   *)
(* of a session one after the other or all at once, the direct providers   *)
(* (LAN, Tailscale), whose end point is tested, and the FRP adapter, which *)
(* leases a proxy at the Gateway and runs a visitor process for it.        *)
(*                                                                         *)
(* Simplifications: latencies, scores and the history of a route           *)
(* (HealthTracker) decide which of the open routes is taken: any of them.  *)
(* A lease that is not released ("lost") expires at the Gateway.           *)
(***************************************************************************)
EXTENDS Naturals, FiniteSets

CONSTANTS
  Run,          \* the sessions
  Direct,       \* adapters that only dial
  Frp           \* the adapter of the Gateway

Adapter == Direct \cup {Frp}

ASSUME RoutesAssumption == Frp \notin Direct

VARIABLES
  managed,      \* the visitors of the Gateway's routes are run by others
  try,          \* how far the acquisition of a route is
  lease,        \* the lease at the Gateway
  config,       \* the visitor's configuration file exists
  visitor       \* the visitor runs

routeVars == <<try, lease, config, visitor>>

RoutesTypeOK ==
  /\ managed \in BOOLEAN
  /\ try \in [Run -> [Adapter -> {"idle", "asked", "leased", "ready",
                                  "started", "open", "failed", "passed",
                                  "closed"}]]
  /\ lease \in [Run -> {"none", "held", "released", "lost"}]
  /\ {config, visitor} \subseteq [Run -> BOOLEAN]

NoRoutes ==
  /\ try = [r \in Run |-> [a \in Adapter |-> "idle"]]
  /\ lease = [r \in Run |-> "none"]
  /\ config = [r \in Run |-> FALSE] /\ visitor = [r \in Run |-> FALSE]

Set(r, a, state) == try' = [try EXCEPT ![r][a] = state]

-----------------------------------------------------------------------------
(* One acquisition.  "over" tells that the session's context has ended.    *)

\* EndpointProvider and ReachableProvider: two of three dials succeed.
Dial(r, a, over) ==
  /\ a \in Direct \/ managed
  /\ try[r][a] = "asked"
  /\ \/ ~over /\ Set(r, a, "open")
     \/ Set(r, a, "failed")
  /\ UNCHANGED <<lease, config, visitor>>

\* GatewayClient.Acquire; the answer may be lost.
LeaseRoute(r, over) ==
  /\ ~managed /\ try[r][Frp] = "asked"
  /\ \/ ~over /\ Set(r, Frp, "leased") /\ lease' = [lease EXCEPT ![r] = "held"]
     \/ Set(r, Frp, "failed") /\ \E l \in {"none", "lost"} :
                                   lease' = [lease EXCEPT ![r] = l]
  /\ UNCHANGED <<config, visitor>>

\* What is held goes; the request to release the lease may fail.
GiveUp(r) ==
  /\ config' = [config EXCEPT ![r] = FALSE]
  /\ visitor' = [visitor EXCEPT ![r] = FALSE]
  /\ IF lease[r] # "held" THEN UNCHANGED lease
     ELSE \E l \in {"released", "lost"} : lease' = [lease EXCEPT ![r] = l]

\* The lease does not fit the request, or the file cannot be written.
WriteConfig(r) ==
  /\ try[r][Frp] = "leased"
  /\ \/ /\ Set(r, Frp, "ready")
        /\ config' = [config EXCEPT ![r] = TRUE]
        /\ UNCHANGED <<lease, visitor>>
     \/ Set(r, Frp, "failed") /\ GiveUp(r)

StartVisitor(r, over) ==
  /\ try[r][Frp] = "ready"
  /\ \/ /\ ~over /\ Set(r, Frp, "started")
        /\ visitor' = [visitor EXCEPT ![r] = TRUE]
        /\ UNCHANGED <<lease, config>>
     \/ Set(r, Frp, "failed") /\ GiveUp(r)

\* waitReady, and the dials of ReachableProvider.
AwaitReady(r, over) ==
  /\ try[r][Frp] = "started"
  /\ \/ ~over /\ Set(r, Frp, "open") /\ UNCHANGED <<lease, config, visitor>>
     \/ Set(r, Frp, "failed") /\ GiveUp(r)

Acquire(r, over) ==
  \/ \E a \in Adapter : Dial(r, a, over)
  \/ LeaseRoute(r, over) \/ WriteConfig(r) \/ StartVisitor(r, over)
  \/ AwaitReady(r, over)

-----------------------------------------------------------------------------
(* The selector.                                                           *)

Open(r) == {a \in Adapter : try[r][a] = "open"}

Settled(r) ==
  \A a \in Adapter : try[r][a] \notin {"asked", "leased", "ready", "started"}

\* The acquisitions A are closed.
Drop(r, A, state) ==
  /\ try' = [try EXCEPT ![r] = [a \in Adapter |-> IF a \in A THEN state
                                                  ELSE @[a]]]
  /\ IF Frp \in A /\ ~managed THEN GiveUp(r)
     ELSE UNCHANGED <<lease, config, visitor>>

Close(r) == Drop(r, Open(r), "closed")

\* acquireBest asks all providers A at once.
AskAll(r, A) ==
  /\ try' = [try EXCEPT ![r] = [a \in Adapter |-> IF a \in A THEN "asked"
                                                  ELSE @[a]]]
  /\ UNCHANGED <<lease, config, visitor>>

\* Selector.Acquire asks the next one (any order: lists differ).
AskNext(r, A) ==
  /\ Settled(r) /\ Open(r) = {}
  /\ \E a \in A : try[r][a] = "idle" /\ Set(r, a, "asked")
  /\ UNCHANGED <<lease, config, visitor>>

\* Route a is kept.
Select(r, a) == a \in Open(r) /\ Drop(r, Open(r) \ {a}, "passed")

=============================================================================
