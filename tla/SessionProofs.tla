---------------------------- MODULE SessionProofs ----------------------------
(***************************************************************************)
(* Proofs about Session, for any set of direct adapters.                   *)
(***************************************************************************)
EXTENDS Session, TLAPS

\* What is held is held for the route of the Gateway, by whoever works on it.
RoutesAreHeld ==
  \A r \in Run :
    /\ lease[r] = "held" =>
         ~managed /\ try[r][Frp] \in {"leased", "ready", "started", "open"}
    /\ config[r] => ~managed /\ try[r][Frp] \in {"ready", "started", "open"}
    /\ visitor[r] => ~managed /\ try[r][Frp] \in {"started", "open"}
    /\ try[r][Frp] \in {"leased", "ready", "started"} => ~managed

\* Routes are acquired in one phase of a session only.
PhaseAgrees ==
  \A r \in Run :
    /\ pc[r] \in {"idle", "resolve"} => Open(r) = {}
    /\ pc[r] # "route" => Settled(r)
    /\ pc[r] = "over" => Open(r) = {}
    /\ hosts[r] => pc[r] = "running"

ForwardStands ==
  \/ pc[Forward] = "running"
  \/ pc[Forward] = "over" /\ (result[Forward] = "ok" \/ ~Resolved)

\* Between the viewer's launch and its exit the forward's context ends with
\* the authorization only; the profile belongs to the viewer in the same way.
ForwardFollows ==
  /\ pc[Request] \in {"idle", "resolve", "route", "execute", "running"} =>
       pc[Forward] = "idle"
  /\ viewer # "none" => pc[Request] = "over"
  /\ pc[Request] = "idle" => cause[Forward] = "none"
  /\ cause[Forward] # "none" =>
       ~Resolved \/ (pc[Request] = "over" /\ viewer # "running")
  /\ (/\ kind = "vnc"
      /\ pc[Request] \in {"probe", "launch", "start"} \/ viewer = "running")
     => ForwardStands
  /\ profile => pc[Request] = "start" \/ viewer = "running"

IInv == TypeOK /\ RoutesAreHeld /\ PhaseAgrees /\ ForwardFollows

-----------------------------------------------------------------------------
(* Lemmas about the routes.                                                *)

\* What giving up leaves: nothing that is still held.
LEMMA GiveUpReleases ==
  ASSUME RoutesTypeOK, NEW r \in Run, GiveUp(r)
  PROVE  /\ lease' \in [Run -> {"none", "held", "released", "lost"}]
         /\ {config', visitor'} \subseteq [Run -> BOOLEAN]
         /\ lease'[r] # "held" /\ config'[r] = FALSE /\ visitor'[r] = FALSE
         /\ \A q \in Run : q # r => /\ lease'[q] = lease[q]
                                    /\ config'[q] = config[q]
                                    /\ visitor'[q] = visitor[q]
<1>1. CASE lease[r] = "held"
  <2>1. PICK l \in {"released", "lost"} : lease' = [lease EXCEPT ![r] = l]
    BY <1>1 DEF GiveUp
  <2>. QED
    BY <2>1 DEF GiveUp, RoutesTypeOK
<1>2. CASE lease[r] # "held"
  BY <1>2 DEF GiveUp, RoutesTypeOK
<1>. QED
  BY <1>1, <1>2

\* Closing open routes keeps the books of what is held.
LEMMA DropKeeps ==
  ASSUME RoutesTypeOK, RoutesAreHeld, NEW r \in Run,
         NEW A \in SUBSET Open(r), NEW state \in {"passed", "closed"},
         Drop(r, A, state), managed' = managed
  PROVE  /\ RoutesTypeOK' /\ RoutesAreHeld'
         /\ \A q \in Run : q # r => try'[q] = try[q]
         /\ \A a \in Adapter : try'[r][a] = IF a \in A THEN state
                                            ELSE try[r][a]
<1>1. /\ try' \in [Run -> [Adapter -> {"idle", "asked", "leased", "ready",
                                       "started", "open", "failed", "passed",
                                       "closed"}]]
      /\ \A q \in Run : q # r => try'[q] = try[q]
      /\ \A a \in Adapter : try'[r][a] = IF a \in A THEN state ELSE try[r][a]
  BY DEF Drop, RoutesTypeOK
<1>2. Frp \in Adapter
  BY DEF Adapter
<1>3. CASE Frp \in A /\ ~managed
  <2>1. GiveUp(r)
    BY <1>3 DEF Drop
  <2>2. RoutesTypeOK'
    BY <1>1, <2>1, GiveUpReleases DEF RoutesTypeOK
  <2>3. RoutesAreHeld'
    <3> SUFFICES ASSUME NEW q \in Run
                 PROVE  /\ lease'[q] = "held" => ~managed' /\
                             try'[q][Frp] \in {"leased", "ready", "started",
                                               "open"}
                        /\ config'[q] => ~managed' /\
                             try'[q][Frp] \in {"ready", "started", "open"}
                        /\ visitor'[q] => ~managed' /\
                             try'[q][Frp] \in {"started", "open"}
                        /\ try'[q][Frp] \in {"leased", "ready", "started"} =>
                             ~managed'
      BY DEF RoutesAreHeld
    <3>1. CASE q = r
      BY <3>1, <1>1, <1>2, <1>3, <2>1, GiveUpReleases
    <3>2. CASE q # r
      BY <3>2, <1>1, <2>1, GiveUpReleases DEF RoutesAreHeld
    <3>. QED
      BY <3>1, <3>2
  <2>. QED
    BY <1>1, <2>2, <2>3
<1>4. CASE ~(Frp \in A /\ ~managed)
  <2>1. UNCHANGED <<lease, config, visitor>>
    BY <1>4 DEF Drop
  <2>2. RoutesTypeOK'
    BY <1>1, <2>1 DEF RoutesTypeOK
  <2>3. RoutesAreHeld'
    BY <1>1, <1>2, <1>4, <2>1 DEF RoutesAreHeld
  <2>. QED
    BY <1>1, <2>2, <2>3
<1>. QED
  BY <1>3, <1>4

\* A step of an acquisition keeps them too.
LEMMA AcquireKeeps ==
  ASSUME RoutesTypeOK, RoutesAreHeld, NEW r \in Run, NEW over \in BOOLEAN,
         Acquire(r, over), managed' = managed
  PROVE  /\ RoutesTypeOK' /\ RoutesAreHeld'
         /\ \A q \in Run : q # r => try'[q] = try[q]
<1>. Frp \in Adapter /\ Direct \subseteq Adapter /\ Frp \notin Direct
  BY RoutesAssumption DEF Adapter
<1>1. CASE \E a \in Adapter : Dial(r, a, over)
  <2>1. PICK a \in Adapter : Dial(r, a, over)
    BY <1>1
  <2>2. /\ try' \in [Run -> [Adapter -> {"idle", "asked", "leased", "ready",
                                         "started", "open", "failed",
                                         "passed", "closed"}]]
        /\ \A q \in Run : q # r => try'[q] = try[q]
        /\ \A b \in Adapter : b # a => try'[r][b] = try[r][b]
        /\ try'[r][a] \in {"open", "failed"}
        /\ UNCHANGED <<lease, config, visitor>>
        /\ a # Frp \/ managed
        /\ try[r][a] = "asked"
    <3>1. PICK state \in {"open", "failed"} : Set(r, a, state)
      BY <2>1 DEF Dial
    <3>2. /\ UNCHANGED <<lease, config, visitor>>
          /\ a # Frp \/ managed
          /\ try[r][a] = "asked"
      BY <2>1 DEF Dial
    <3>. QED
      BY <3>1, <3>2 DEF Set, RoutesTypeOK
  <2>3. RoutesTypeOK'
    BY <2>2 DEF RoutesTypeOK
  <2>4. RoutesAreHeld'
    BY <2>2 DEF RoutesAreHeld
  <2>. QED
    BY <2>2, <2>3, <2>4
<1>2. CASE LeaseRoute(r, over)
  <2>1. /\ ~managed /\ UNCHANGED <<config, visitor>> /\ try[r][Frp] = "asked"
        /\ \/ Set(r, Frp, "leased") /\ lease' = [lease EXCEPT ![r] = "held"]
           \/ Set(r, Frp, "failed") /\ \E l \in {"none", "lost"} :
                                         lease' = [lease EXCEPT ![r] = l]
    BY <1>2 DEF LeaseRoute
  <2>2. CASE Set(r, Frp, "leased") /\ lease' = [lease EXCEPT ![r] = "held"]
    <3>1. RoutesTypeOK'
      BY <2>1, <2>2 DEF Set, RoutesTypeOK
    <3>2. /\ \A q \in Run : q # r => try'[q] = try[q] /\ lease'[q] = lease[q]
          /\ try'[r][Frp] = "leased"
      BY <2>2 DEF Set, RoutesTypeOK
    <3>. QED
      BY <2>1, <3>1, <3>2 DEF RoutesAreHeld
  <2>3. CASE /\ Set(r, Frp, "failed")
             /\ \E l \in {"none", "lost"} : lease' = [lease EXCEPT ![r] = l]
    <3>1. RoutesTypeOK'
      BY <2>1, <2>3 DEF Set, RoutesTypeOK
    <3>2. /\ \A q \in Run : q # r => try'[q] = try[q] /\ lease'[q] = lease[q]
          /\ lease'[r] # "held"
      BY <2>3 DEF Set, RoutesTypeOK
    <3>. QED
      BY <2>1, <3>1, <3>2 DEF RoutesAreHeld
  <2>. QED
    BY <2>1, <2>2, <2>3
<1>3. ASSUME Set(r, Frp, "failed"), GiveUp(r)
      PROVE  /\ RoutesTypeOK' /\ RoutesAreHeld'
             /\ \A q \in Run : q # r => try'[q] = try[q]
  <2>1. /\ try' \in [Run -> [Adapter -> {"idle", "asked", "leased", "ready",
                                         "started", "open", "failed",
                                         "passed", "closed"}]]
        /\ \A q \in Run : q # r => try'[q] = try[q]
        /\ try'[r][Frp] = "failed"
    BY <1>3 DEF Set, RoutesTypeOK
  <2>2. RoutesTypeOK'
    BY <1>3, <2>1, GiveUpReleases DEF RoutesTypeOK
  <2>. QED
    BY <1>3, <2>1, <2>2, GiveUpReleases DEF RoutesAreHeld
<1>4. CASE WriteConfig(r)
  <2>1. CASE /\ Set(r, Frp, "ready")
             /\ config' = [config EXCEPT ![r] = TRUE]
             /\ UNCHANGED <<lease, visitor>>
    <3>1. try[r][Frp] = "leased"
      BY <1>4 DEF WriteConfig
    <3>2. RoutesTypeOK'
      BY <2>1 DEF Set, RoutesTypeOK
    <3>3. /\ \A q \in Run : q # r => try'[q] = try[q] /\ config'[q] = config[q]
          /\ try'[r][Frp] = "ready"
      BY <2>1 DEF Set, RoutesTypeOK
    <3>4. RoutesAreHeld'
      BY <2>1, <3>1, <3>3 DEF RoutesAreHeld
    <3>. QED
      BY <3>2, <3>3, <3>4
  <2>2. CASE Set(r, Frp, "failed") /\ GiveUp(r)
    BY <1>3, <2>2
  <2>. QED
    BY <1>4, <2>1, <2>2 DEF WriteConfig
<1>5. CASE StartVisitor(r, over)
  <2>1. CASE /\ Set(r, Frp, "started")
             /\ visitor' = [visitor EXCEPT ![r] = TRUE]
             /\ UNCHANGED <<lease, config>>
    <3>1. try[r][Frp] = "ready"
      BY <1>5 DEF StartVisitor
    <3>2. RoutesTypeOK'
      BY <2>1 DEF Set, RoutesTypeOK
    <3>3. /\ \A q \in Run : q # r => /\ try'[q] = try[q]
                                     /\ visitor'[q] = visitor[q]
          /\ try'[r][Frp] = "started"
      BY <2>1 DEF Set, RoutesTypeOK
    <3>4. RoutesAreHeld'
      BY <2>1, <3>1, <3>3 DEF RoutesAreHeld
    <3>. QED
      BY <3>2, <3>3, <3>4
  <2>2. CASE Set(r, Frp, "failed") /\ GiveUp(r)
    BY <1>3, <2>2
  <2>. QED
    BY <1>5, <2>1, <2>2 DEF StartVisitor
<1>6. CASE AwaitReady(r, over)
  <2>1. CASE Set(r, Frp, "open") /\ UNCHANGED <<lease, config, visitor>>
    <3>1. try[r][Frp] = "started"
      BY <1>6 DEF AwaitReady
    <3>2. RoutesTypeOK'
      BY <2>1 DEF Set, RoutesTypeOK
    <3>3. /\ \A q \in Run : q # r => try'[q] = try[q]
          /\ try'[r][Frp] = "open"
      BY <2>1 DEF Set, RoutesTypeOK
    <3>. QED
      BY <2>1, <3>1, <3>2, <3>3 DEF RoutesAreHeld
  <2>2. CASE Set(r, Frp, "failed") /\ GiveUp(r)
    BY <1>3, <2>2
  <2>. QED
    BY <1>6, <2>1, <2>2 DEF AwaitReady
<1>. QED
  BY <1>1, <1>2, <1>4, <1>5, <1>6 DEF Acquire

-----------------------------------------------------------------------------
(* Lemmas about the sessions.                                              *)

LEMMA FaultIsResult ==
  ASSUME TypeOK, NEW r \in Run
  PROVE  Fault(r) \in Results \ {"none"}
BY DEF TypeOK, Fault, Ended, Results

\* A session that returns leaves nothing, and the other one alone.
LEMMA ReturnKeeps ==
  ASSUME TypeOK, RoutesAreHeld, PhaseAgrees, NEW r \in Run, Settled(r),
         NEW answer \in Results \ {"none"}, Return(r, answer),
         managed' = managed
  PROVE  /\ RoutesTypeOK' /\ RoutesAreHeld' /\ PhaseAgrees'
         /\ pc' = [pc EXCEPT ![r] = "over"]
         /\ result' = [result EXCEPT ![r] = answer]
         /\ hosts' = [hosts EXCEPT ![r] = FALSE]
<1>1. /\ pc' = [pc EXCEPT ![r] = "over"]
      /\ result' = [result EXCEPT ![r] = answer]
      /\ hosts' = [hosts EXCEPT ![r] = FALSE]
      /\ Drop(r, Open(r), "closed")
  BY DEF Return, GoTo, Close
<1>2. /\ RoutesTypeOK' /\ RoutesAreHeld'
      /\ \A q \in Run : q # r => try'[q] = try[q]
      /\ \A a \in Adapter : try'[r][a] = IF a \in Open(r) THEN "closed"
                                         ELSE try[r][a]
  BY <1>1, DropKeeps DEF TypeOK
<1>3. PhaseAgrees'
  <2> SUFFICES ASSUME NEW q \in Run
               PROVE  /\ pc'[q] \in {"idle", "resolve"} => Open(q)' = {}
                      /\ pc'[q] # "route" => Settled(q)'
                      /\ pc'[q] = "over" => Open(q)' = {}
                      /\ hosts'[q] => pc'[q] = "running"
    BY DEF PhaseAgrees
  <2>1. CASE q = r
    <3>1. Open(q)' = {}
      BY <1>2, <2>1 DEF Open
    <3>2. Settled(q)'
      BY <1>2, <2>1 DEF Settled
    <3>3. ~hosts'[q]
      BY <1>1, <2>1 DEF TypeOK
    <3>. QED
      BY <3>1, <3>2, <3>3
  <2>2. CASE q # r
    <3>1. try'[q] = try[q] /\ pc'[q] = pc[q] /\ hosts'[q] = hosts[q]
      BY <1>1, <1>2, <2>2 DEF TypeOK
    <3>2. Open(q)' = Open(q) /\ Settled(q)' = Settled(q)
      BY <3>1 DEF Open, Settled
    <3>. QED
      BY <3>1, <3>2 DEF PhaseAgrees
  <2>. QED
    BY <2>1, <2>2
<1>. QED
  BY <1>1, <1>2, <1>3

\* What happens without touching any route.
LEMMA QuietStep ==
  ASSUME TypeOK, RoutesAreHeld, PhaseAgrees, UNCHANGED <<routeVars, managed>>,
         \A r \in Run :
           /\ pc'[r] # pc[r] => /\ Settled(r)
                                /\ pc[r] = "idle" => pc'[r] = "resolve"
                                /\ pc[r] # "idle" => pc'[r] \notin
                                     {"idle", "resolve", "over"}
           /\ hosts'[r] => pc'[r] = "running"
  PROVE  RoutesTypeOK' /\ RoutesAreHeld' /\ PhaseAgrees'
<1>1. RoutesTypeOK' /\ RoutesAreHeld'
  BY DEF TypeOK, RoutesTypeOK, RoutesAreHeld, routeVars
<1>2. \A r \in Run : Open(r)' = Open(r) /\ Settled(r)' = Settled(r)
  BY DEF Open, Settled, routeVars
<1>3. PhaseAgrees'
  BY <1>2 DEF PhaseAgrees
<1>. QED
  BY <1>1, <1>3

-----------------------------------------------------------------------------
(* The invariant.                                                          *)

\* The routes' part of the invariant, and the control's part of TypeOK.
RoutesPart == RoutesTypeOK /\ RoutesAreHeld /\ PhaseAgrees

ControlTypeOK ==
  /\ kind \in {"shell", "rdp", "vnc"}
  /\ pc \in [Run -> {"idle", "resolve", "route", "execute", "running",
                     "prepare", "probe", "launch", "start", "over"}]
  /\ cause \in [Run -> {"none", "expired", "revoked", "canceled"}]
  /\ result \in [Run -> Results]
  /\ hosts \in [Run -> BOOLEAN]
  /\ viewer \in {"none", "running", "gone"}
  /\ {profile, required, revoked, copy, expired} \subseteq BOOLEAN
  /\ \A r \in Run : (pc[r] = "over") = (result[r] # "none")

LEMMA InitInvariant == Init => IInv
<1> SUFFICES ASSUME Init PROVE IInv
  OBVIOUS
<1>. Request \in Run /\ Forward \in Run /\ Request # Forward
  BY SessionAssumption
<1>1. RoutesTypeOK
  BY DEF Init, NoRoutes, RoutesTypeOK
<1>2. TypeOK
  BY <1>1 DEF Init, TypeOK, Results
<1>3. RoutesAreHeld
  <2>. Frp \in Adapter
    BY DEF Adapter
  <2>. QED
    BY DEF Init, NoRoutes, RoutesAreHeld
<1>4. PhaseAgrees
  BY DEF Init, NoRoutes, PhaseAgrees, Open, Settled
<1>5. ForwardFollows
  BY DEF Init, ForwardFollows
<1>. QED
  BY <1>2, <1>3, <1>4, <1>5 DEF IInv

\* A forward that returns stands, or nobody looks at it.
LEMMA ForwardReturns ==
  ASSUME IInv, pc[Forward] \notin {"idle", "over"},
         pc[Forward] = "running" => \/ Ended(Forward)
                                    \/ result'[Forward] = "ok",
         pc' = [pc EXCEPT ![Forward] = "over"],
         UNCHANGED <<cause, viewer, profile, kind, copy, expired>>
  PROVE  ForwardFollows'
<1>. Request \in Run /\ Forward \in Run /\ Request # Forward
  BY SessionAssumption
<1>1. pc'[Request] = pc[Request] /\ pc'[Forward] = "over"
  BY DEF IInv, TypeOK
<1>2. Resolved' = Resolved
  BY DEF Resolved
<1>3. ASSUME kind = "vnc",
             pc[Request] \in {"probe", "launch", "start"} \/ viewer = "running"
      PROVE  result'[Forward] = "ok" \/ ~Resolved
  <2>1. pc[Forward] = "running"
    BY <1>3 DEF IInv, ForwardFollows, ForwardStands
  <2>2. pc[Request] = "over" => viewer = "running"
    BY <1>3
  <2>3. Ended(Forward) => ~Resolved
    BY <2>2 DEF IInv, ForwardFollows, Ended
  <2>. QED
    BY <2>1, <2>3
<1>. QED
  BY <1>1, <1>2, <1>3 DEF IInv, ForwardFollows, ForwardStands

\* A request that returns without a viewer has stopped its forward, if any.
LEMMA RequestReturns ==
  ASSUME IInv, pc[Request] \notin {"idle", "over"},
         pc' = [pc EXCEPT ![Request] = "over"],
         UNCHANGED <<viewer, kind>>, profile' \in {profile, FALSE},
         pc[Request] = "start" => ~profile',
         result'[Forward] = result[Forward]
  PROVE  ForwardFollows'
<1>. Request \in Run /\ Forward \in Run /\ Request # Forward
  BY SessionAssumption
<1>1. pc'[Request] = "over" /\ pc'[Forward] = pc[Forward]
  BY DEF IInv, TypeOK
<1>2. viewer = "none" /\ ~profile'
  BY DEF IInv, TypeOK, ForwardFollows
<1>. QED
  BY <1>1, <1>2 DEF ForwardFollows

\* A session whose context may end, and nothing else happens.
LEMMA CancelKeeps ==
  ASSUME IInv, NEW r \in Run, NEW why \in {"expired", "revoked", "canceled"},
         Cancel(r, why),
         r = Forward => Busy(r) /\ ~Resolved,
         UNCHANGED <<routeVars, pc, result, hosts, viewer, profile, outside>>
  PROVE  IInv'
<1>. Request \in Run /\ Forward \in Run /\ Request # Forward
  BY SessionAssumption
<1>1. RoutesPart'
  BY DEF IInv, RoutesPart, TypeOK, RoutesTypeOK, RoutesAreHeld, PhaseAgrees,
         Open, Settled, routeVars, outside
<1>2. ControlTypeOK'
  BY DEF IInv, TypeOK, ControlTypeOK, Cancel, outside
<1>3. Resolved' = Resolved
  BY DEF Resolved, outside
<1>4. cause'[Forward] = cause[Forward] \/ (Busy(Forward) /\ ~Resolved)
  BY DEF IInv, TypeOK, Cancel
<1>5. Busy(Forward) => pc[Request] # "idle"
  BY DEF IInv, ForwardFollows, Busy
<1>6. ForwardFollows'
  BY <1>3, <1>4, <1>5 DEF IInv, ForwardFollows, ForwardStands, Resolved,
     outside
<1>. QED
  BY <1>1, <1>2, <1>6 DEF RoutesPart, IInv, ControlTypeOK, TypeOK

\* All the ways in which a session returns without having launched a viewer.
LEMMA ReturnStep ==
  ASSUME IInv, NEW r \in Run, NEW answer \in Results \ {"none"},
         Return(r, answer), Settled(r), pc[r] \notin {"idle", "over"},
         UNCHANGED <<viewer, outside>>,
         profile' = profile \/ (r = Request /\ profile' = FALSE),
         r = Request /\ pc[r] = "start" => profile' = FALSE,
         cause' = cause \/ (r = Request /\ StopForward),
         r = Forward /\ pc[r] = "running" => Ended(r) \/ answer = "ok"
  PROVE  IInv'
<1>. Request \in Run /\ Forward \in Run /\ Request # Forward
  BY SessionAssumption
<1>. TypeOK /\ RoutesAreHeld /\ PhaseAgrees /\ ForwardFollows
  BY DEF IInv
<1>1. /\ RoutesPart'
      /\ pc' = [pc EXCEPT ![r] = "over"]
      /\ result' = [result EXCEPT ![r] = answer]
      /\ hosts' = [hosts EXCEPT ![r] = FALSE]
  BY ReturnKeeps DEF RoutesPart, outside
<1>2. cause' \in [Run -> {"none", "expired", "revoked", "canceled"}]
  BY DEF StopForward, Cancel, TypeOK
<1>3. ControlTypeOK'
  BY <1>1, <1>2 DEF ControlTypeOK, TypeOK, outside, Results
<1>4. ASSUME r = Forward PROVE ForwardFollows'
  <2>1. UNCHANGED <<cause, viewer, profile, kind, copy, expired>>
    BY <1>4, SessionAssumption DEF outside
  <2>2. result'[Forward] = answer
    BY <1>1, <1>4 DEF TypeOK
  <2>. QED
    BY <1>1, <1>4, <2>1, <2>2, ForwardReturns
<1>5. ASSUME r = Request PROVE ForwardFollows'
  <2>1. result'[Forward] = result[Forward]
    BY <1>1, <1>5 DEF TypeOK
  <2>. QED
    BY <1>1, <1>5, <2>1, RequestReturns DEF outside
<1>. QED
  BY <1>1, <1>3, <1>4, <1>5, SessionAssumption
     DEF RoutesPart, IInv, ControlTypeOK, TypeOK

LEMMA StepInvariant == IInv /\ [Next]_vars => IInv'
<1> SUFFICES ASSUME IInv, [Next]_vars PROVE IInv'
  OBVIOUS
<1>. Request \in Run /\ Forward \in Run /\ Request # Forward
  BY SessionAssumption
<1>. TypeOK /\ RoutesAreHeld /\ PhaseAgrees /\ ForwardFollows
  BY DEF IInv
<1>1. CASE Arrive
  <2>1. /\ pc' = [pc EXCEPT ![Request] = "resolve"] /\ pc[Request] = "idle"
        /\ copy' = revoked
        /\ UNCHANGED <<routeVars, cause, result, hosts, viewer, profile,
                       managed, kind, required, revoked, expired>>
    BY <1>1 DEF Arrive, GoTo
  <2>2. RoutesPart'
    BY <2>1, QuietStep DEF RoutesPart, PhaseAgrees, TypeOK
  <2>3. ControlTypeOK'
    BY <2>1 DEF ControlTypeOK, TypeOK
  <2>4. ForwardFollows'
    BY <2>1 DEF ForwardFollows, ForwardStands, TypeOK
  <2>. QED
    BY <2>2, <2>3, <2>4 DEF RoutesPart, IInv, ControlTypeOK, TypeOK
<1>2. ASSUME NEW r \in Run, Resolve(r) PROVE IInv'
  <2>1. /\ pc[r] = "resolve" /\ cause' = cause
        /\ UNCHANGED <<viewer, profile, outside>>
    BY <1>2 DEF Resolve
  <2>2. Open(r) = {} /\ Settled(r)
    BY <2>1 DEF PhaseAgrees
  <2>3. CASE Resolved
    <3>1. /\ pc' = [pc EXCEPT ![r] = "route"] /\ UNCHANGED <<result, hosts>>
          /\ InTurn(r) => UNCHANGED routeVars
          /\ ~InTurn(r) => AskAll(r, Providers(r))
      BY <1>2, <2>3 DEF Resolve, GoTo
    <3>2. ControlTypeOK'
      BY <2>1, <3>1 DEF ControlTypeOK, TypeOK, outside
    <3>3. ForwardFollows'
      BY <2>1, <3>1
         DEF ForwardFollows, ForwardStands, Resolved, TypeOK, outside
    <3>4. ASSUME InTurn(r) PROVE RoutesPart'
      BY <2>1, <2>2, <3>1, <3>4, QuietStep
         DEF RoutesPart, PhaseAgrees, TypeOK, outside
    <3>5. ASSUME ~InTurn(r) PROVE RoutesPart'
      <4>1. /\ try' = [try EXCEPT ![r] = [a \in Adapter |->
                          IF a \in Providers(r) THEN "asked" ELSE @[a]]]
            /\ UNCHANGED <<lease, config, visitor>>
        BY <3>1, <3>5 DEF AskAll
      <4>2. ~InTurn(r) => r = Request /\ ~required
        BY SessionAssumption DEF InTurn
      <4>3. lease[r] # "held" /\ ~config[r] /\ ~visitor[r]
        <5>1. try[r][Frp] \notin {"leased", "ready", "started", "open"}
          <6>1. Frp \in Adapter
            BY DEF Adapter
          <6>. QED
            BY <2>2, <6>1 DEF Open, Settled
        <5>. QED
          BY <5>1 DEF RoutesAreHeld
      <4>4. RoutesTypeOK'
        BY <2>1, <4>1 DEF TypeOK, RoutesTypeOK, outside
      <4>5. \A q \in Run : q # r => try'[q] = try[q]
        BY <4>1 DEF TypeOK, RoutesTypeOK
      <4>6. try'[r][Frp] \notin {"leased", "ready", "started"}
        <5>1. Frp \in Adapter
          BY DEF Adapter
        <5>. QED
          BY <2>2, <4>1, <5>1 DEF TypeOK, RoutesTypeOK, Settled
      <4>7. RoutesAreHeld'
        BY <2>1, <4>1, <4>3, <4>5, <4>6 DEF RoutesAreHeld, outside
      <4>8. PhaseAgrees'
        BY <2>1, <3>1, <4>5 DEF PhaseAgrees, Open, Settled, TypeOK
      <4>. QED
        BY <4>4, <4>7, <4>8 DEF RoutesPart
    <3>. QED
      BY <3>2, <3>3, <3>4, <3>5 DEF RoutesPart, IInv, ControlTypeOK, TypeOK
  <2>4. CASE ~Resolved
    <3>1. PICK answer \in {"expired", "failed"} : Return(r, answer)
      BY <1>2, <2>4 DEF Resolve
    <3>. QED
      BY <2>1, <2>2, <3>1, ReturnStep DEF Results
  <2>. QED
    BY <2>3, <2>4
<1>3. ASSUME NEW r \in Run, TryNext(r) PROVE IInv'
  <2>1. /\ pc[r] = "route" /\ AskNext(r, Providers(r))
        /\ UNCHANGED <<control, outside>>
    BY <1>3 DEF TryNext
  <2>2. PICK a \in Providers(r) : try[r][a] = "idle" /\ Set(r, a, "asked")
    BY <2>1 DEF AskNext
  <2>3. a \in Adapter
    BY <2>2 DEF Providers, Adapter
  <2>4. /\ try' \in [Run -> [Adapter -> {"idle", "asked", "leased", "ready",
                                         "started", "open", "failed",
                                         "passed", "closed"}]]
        /\ \A q \in Run : q # r => try'[q] = try[q]
        /\ \A b \in Adapter : b # a => try'[r][b] = try[r][b]
        /\ try'[r][a] = "asked"
        /\ UNCHANGED <<lease, config, visitor, managed>>
    BY <2>1, <2>2, <2>3 DEF AskNext, Set, TypeOK, RoutesTypeOK, outside
  <2>5. RoutesTypeOK'
    BY <2>4 DEF TypeOK, RoutesTypeOK
  <2>6. RoutesAreHeld'
    <3>. Frp \in Adapter
      BY DEF Adapter
    <3>. QED
      BY <2>2, <2>4 DEF RoutesAreHeld
  <2>7. PhaseAgrees'
    BY <2>1, <2>4 DEF PhaseAgrees, Open, Settled, control
  <2>. QED
    BY <2>1, <2>5, <2>6, <2>7
       DEF IInv, TypeOK, ForwardFollows, ForwardStands, Resolved, control,
           outside
<1>4. ASSUME NEW r \in Run, Try(r) PROVE IInv'
  <2>1. /\ pc[r] = "route" /\ Acquire(r, Ended(r))
        /\ UNCHANGED <<control, outside>>
    BY <1>4 DEF Try
  <2>2. Ended(r) \in BOOLEAN
    BY DEF Ended
  <2>3. /\ RoutesTypeOK' /\ RoutesAreHeld'
        /\ \A q \in Run : q # r => try'[q] = try[q]
    BY <2>1, <2>2, AcquireKeeps DEF TypeOK, outside
  <2>4. PhaseAgrees'
    BY <2>1, <2>3 DEF PhaseAgrees, Open, Settled, control
  <2>. QED
    BY <2>1, <2>3, <2>4
       DEF IInv, TypeOK, ForwardFollows, ForwardStands, Resolved, control,
           outside
<1>5. ASSUME NEW r \in Run, Choose(r) PROVE IInv'
  <2>1. /\ pc[r] = "route" /\ Settled(r)
        /\ cause' = cause /\ UNCHANGED <<viewer, profile, outside>>
    BY <1>5 DEF Choose
  <2>2. CASE Unroutable(r)
    BY <2>1, <2>2, ReturnStep DEF Unroutable, Results
  <2>3. CASE /\ \E a \in Adapter : Select(r, a)
             /\ GoTo(r, "execute") /\ UNCHANGED <<result, hosts>>
    <3>1. PICK a \in Adapter : Drop(r, Open(r) \ {a}, "passed")
      BY <2>3 DEF Select
    <3>2. /\ RoutesTypeOK' /\ RoutesAreHeld'
          /\ \A q \in Run : q # r => try'[q] = try[q]
          /\ \A b \in Adapter : try'[r][b] = IF b \in Open(r) \ {a}
                                             THEN "passed" ELSE try[r][b]
      <4>1. Open(r) \ {a} \in SUBSET Open(r)
        OBVIOUS
      <4>. QED
        BY <2>1, <3>1, <4>1, DropKeeps DEF TypeOK, outside
    <3>3. pc' = [pc EXCEPT ![r] = "execute"]
      BY <2>3 DEF GoTo
    <3>4. Settled(r)'
      BY <2>1, <3>2 DEF Settled
    <3>5. PhaseAgrees'
      BY <2>1, <2>3, <3>2, <3>3, <3>4
         DEF PhaseAgrees, Open, Settled, TypeOK
    <3>6. ForwardFollows'
      BY <2>1, <2>3, <3>3
         DEF ForwardFollows, ForwardStands, Resolved, TypeOK, outside
    <3>. QED
      BY <2>1, <2>3, <3>2, <3>3, <3>5, <3>6 DEF IInv, TypeOK, outside
  <2>. QED
    BY <1>5, <2>2, <2>3 DEF Choose
<1>6. ASSUME NEW r \in Run, ExecuteShell(r) PROVE IInv'
  <2>1. /\ pc[r] = "execute" /\ IsShell(r)
        /\ cause' = cause /\ UNCHANGED <<viewer, profile, outside>>
    BY <1>6 DEF ExecuteShell
  <2>2. CASE /\ GoTo(r, "running") /\ hosts' = [hosts EXCEPT ![r] = TRUE]
             /\ UNCHANGED <<routeVars, result>>
    <3>1. pc' = [pc EXCEPT ![r] = "running"]
      BY <2>2 DEF GoTo
    <3>2. \A q \in Run : hosts'[q] => pc'[q] = "running"
      BY <2>2, <3>1 DEF PhaseAgrees, TypeOK
    <3>3. RoutesPart'
      BY <2>1, <2>2, <3>1, <3>2, QuietStep
         DEF RoutesPart, PhaseAgrees, TypeOK, outside
    <3>4. ControlTypeOK'
      BY <2>1, <2>2, <3>1 DEF ControlTypeOK, TypeOK, outside
    <3>5. ForwardFollows'
      BY <2>1, <2>2, <3>1
         DEF ForwardFollows, ForwardStands, Resolved, TypeOK, outside
    <3>. QED
      BY <3>3, <3>4, <3>5 DEF RoutesPart, IInv, ControlTypeOK, TypeOK
  <2>3. CASE Return(r, Fault(r))
    <3>1. Settled(r)
      BY <2>1 DEF PhaseAgrees
    <3>. QED
      BY <2>1, <2>3, <3>1, FaultIsResult, ReturnStep
  <2>. QED
    BY <1>6, <2>2, <2>3 DEF ExecuteShell
<1>7. ASSUME NEW r \in Run, ShellEnds(r) PROVE IInv'
  <2>1. /\ pc[r] = "running" /\ cause' = cause
        /\ UNCHANGED <<viewer, profile, outside>>
    BY <1>7 DEF ShellEnds
  <2>2. Settled(r)
    BY <2>1 DEF PhaseAgrees
  <2>3. CASE Ended(r)
    <3>1. Return(r, cause[r]) /\ cause[r] \in Results \ {"none"}
      BY <1>7, <2>3 DEF ShellEnds, Ended, TypeOK, Results
    <3>. QED
      BY <2>1, <2>2, <2>3, <3>1, ReturnStep
  <2>4. CASE ~Ended(r)
    <3>1. PICK answer \in {"ok", "failed"} :
            Return(r, answer) /\ (r = Forward => answer = "ok")
      BY <1>7, <2>4 DEF ShellEnds, EndsItself
    <3>2. pc[r] # "start"
      BY <2>1
    <3>. QED
      BY <2>1, <2>2, <3>1, <3>2, ReturnStep DEF Results
  <2>. QED
    BY <2>3, <2>4
<1>8. CASE OpenDesktop
  <2>1. /\ pc[Request] = "execute" /\ kind # "shell"
        /\ cause' = cause /\ UNCHANGED <<viewer, profile, outside>>
    BY <1>8 DEF OpenDesktop, IsShell
  <2>2. Settled(Request) /\ pc[Forward] = "idle" /\ Settled(Forward)
    BY <2>1 DEF PhaseAgrees, ForwardFollows
  <2>3. CASE /\ kind = "rdp" /\ GoTo(Request, "launch")
             /\ UNCHANGED <<routeVars, result, hosts>>
    <3>1. pc' = [pc EXCEPT ![Request] = "launch"]
      BY <2>3 DEF GoTo
    <3>2. RoutesPart'
      BY <2>1, <2>2, <2>3, <3>1, QuietStep
         DEF RoutesPart, PhaseAgrees, TypeOK, outside
    <3>3. ControlTypeOK'
      BY <2>1, <2>3, <3>1 DEF ControlTypeOK, TypeOK, outside
    <3>4. ForwardFollows'
      BY <2>1, <2>3, <3>1
         DEF ForwardFollows, ForwardStands, Resolved, TypeOK, outside
    <3>. QED
      BY <3>2, <3>3, <3>4 DEF RoutesPart, IInv, ControlTypeOK, TypeOK
  <2>4. CASE /\ pc' = [pc EXCEPT ![Request] = "prepare",
                                 ![Forward] = "resolve"]
             /\ UNCHANGED <<routeVars, result, hosts>>
    <3>1. RoutesPart'
      BY <2>1, <2>2, <2>4, QuietStep
         DEF RoutesPart, PhaseAgrees, TypeOK, outside
    <3>2. ControlTypeOK'
      BY <2>1, <2>2, <2>4, SessionAssumption
         DEF ControlTypeOK, TypeOK, outside
    <3>3. ForwardFollows'
      BY <2>1, <2>4
         DEF ForwardFollows, ForwardStands, Resolved, TypeOK, outside
    <3>. QED
      BY <3>1, <3>2, <3>3 DEF RoutesPart, IInv, ControlTypeOK, TypeOK
  <2>5. CASE Return(Request, Fault(Request))
    BY <2>1, <2>2, <2>5, FaultIsResult, ReturnStep
  <2>. QED
    BY <1>8, <2>3, <2>4, <2>5 DEF OpenDesktop
<1>9. ASSUME NEW step \in {"probe", "launch"}, GoTo(Request, step),
             pc[Request] \in {"prepare", "probe"}, pc[Forward] = "running",
             UNCHANGED <<routeVars, cause, result, hosts, viewer, profile,
                         outside>>
      PROVE  IInv'
  <2>1. pc' = [pc EXCEPT ![Request] = step]
    BY <1>9 DEF GoTo
  <2>2. RoutesPart'
    BY <1>9, <2>1, QuietStep DEF RoutesPart, PhaseAgrees, TypeOK, outside
  <2>3. ControlTypeOK'
    BY <1>9, <2>1 DEF ControlTypeOK, TypeOK, outside
  <2>4. ForwardFollows'
    BY <1>9, <2>1 DEF ForwardFollows, ForwardStands, Resolved, TypeOK, outside
  <2>. QED
    BY <2>2, <2>3, <2>4 DEF RoutesPart, IInv, ControlTypeOK, TypeOK
<1>10. CASE ForwardReady
  BY <1>9, <1>10 DEF ForwardReady
<1>11. CASE Probe
  BY <1>9, <1>11 DEF Probe
<1>12. ASSUME pc[Request] \in {"prepare", "probe", "launch", "start"},
              StopForward, Return(Request, Fault(Request)),
              UNCHANGED <<viewer, outside>>,
              \/ profile' = FALSE
              \/ profile' = profile /\ pc[Request] # "start"
       PROVE  IInv'
  <2>1. Settled(Request)
    BY <1>12 DEF PhaseAgrees
  <2>. QED
    BY <1>12, <2>1, FaultIsResult, ReturnStep
<1>21. CASE WriteProfile
  <2>1. /\ pc[Request] = "launch" /\ pc' = [pc EXCEPT ![Request] = "start"]
        /\ profile' = TRUE
        /\ UNCHANGED <<routeVars, cause, result, hosts, viewer, outside>>
    BY <1>21 DEF WriteProfile, GoTo
  <2>2. RoutesPart'
    BY <2>1, QuietStep DEF RoutesPart, PhaseAgrees, TypeOK, outside
  <2>3. ControlTypeOK'
    BY <2>1 DEF ControlTypeOK, TypeOK, outside
  <2>4. Resolved' = Resolved
    BY <2>1 DEF Resolved, outside
  <2>5. ForwardFollows'
    BY <2>1, <2>4 DEF ForwardFollows, ForwardStands, Resolved, TypeOK, outside
  <2>. QED
    BY <2>2, <2>3, <2>5 DEF RoutesPart, IInv, ControlTypeOK, TypeOK
<1>13. CASE PrepareFails
  BY <1>12, <1>13 DEF PrepareFails
<1>14. CASE LaunchFails
  BY <1>12, <1>14 DEF LaunchFails
<1>15. CASE Launch
  <2>1. /\ Startable /\ viewer' = "running"
        /\ Return(Request, "ok") /\ UNCHANGED <<cause, profile, outside>>
    BY <1>15 DEF Launch
  <2>2. /\ pc[Request] \in {"launch", "start"} /\ Settled(Request)
        /\ viewer = "none"
    BY <2>1 DEF Startable, PhaseAgrees, ForwardFollows, TypeOK
  <2>3. /\ RoutesPart'
        /\ pc' = [pc EXCEPT ![Request] = "over"]
        /\ result' = [result EXCEPT ![Request] = "ok"]
        /\ hosts' = [hosts EXCEPT ![Request] = FALSE]
    BY <2>1, <2>2, ReturnKeeps DEF RoutesPart, outside, Results
  <2>4. ControlTypeOK'
    BY <2>1, <2>3 DEF ControlTypeOK, TypeOK, outside, Results
  <2>5. Resolved' = Resolved
    BY <2>1 DEF Resolved, outside
  <2>6. ForwardFollows'
    BY <2>1, <2>2, <2>3, <2>5
       DEF ForwardFollows, ForwardStands, Resolved, TypeOK, outside
  <2>. QED
    BY <2>3, <2>4, <2>6 DEF RoutesPart, IInv, ControlTypeOK, TypeOK
<1>16. CASE ViewerExits
  <2>1. /\ viewer = "running" /\ viewer' = "gone" /\ profile' = FALSE
        /\ UNCHANGED <<routeVars, pc, result, hosts, outside>>
    BY <1>16 DEF ViewerExits
  <2>2. cause' \in [Run -> {"none", "expired", "revoked", "canceled"}]
    BY <1>16 DEF ViewerExits, StopForward, Cancel, TypeOK
  <2>3. RoutesPart'
    BY <2>1, QuietStep DEF RoutesPart, PhaseAgrees, TypeOK, outside
  <2>4. ControlTypeOK'
    BY <2>1, <2>2 DEF ControlTypeOK, TypeOK, outside
  <2>5. ForwardFollows'
    BY <2>1 DEF ForwardFollows, ForwardStands, Resolved, TypeOK, outside
  <2>. QED
    BY <2>3, <2>4, <2>5 DEF RoutesPart, IInv, ControlTypeOK, TypeOK
<1>17. ASSUME NEW r \in Run, Signal(r) PROVE IInv'
  <2>1. PICK why \in {"expired", "revoked", "canceled"} : Cancel(r, why)
    BY <1>17 DEF Signal, Deadline, Poll
  <2>2. /\ Busy(r) /\ ~Resolved
        /\ UNCHANGED <<routeVars, pc, result, hosts, viewer, profile, outside>>
    BY <1>17 DEF Signal, Deadline, Poll, Watched, Resolved
  <2>. QED
    BY <2>1, <2>2, CancelKeeps
<1>18. CASE CallerGoes
  BY <1>18, CancelKeeps DEF CallerGoes
<1>19. ASSUME UNCHANGED <<routeVars, control, managed, kind, required>>,
              UNCHANGED copy, expired' \in {expired, TRUE},
              revoked' \in BOOLEAN
       PROVE  IInv'
  <2>1. RoutesPart'
    BY <1>19, QuietStep DEF RoutesPart, PhaseAgrees, TypeOK, control
  <2>2. ControlTypeOK'
    BY <1>19 DEF ControlTypeOK, TypeOK, control
  <2>3. Resolved' => Resolved
    BY <1>19 DEF Resolved
  <2>4. /\ pc' = pc /\ cause' = cause /\ result' = result
        /\ viewer' = viewer /\ profile' = profile /\ kind' = kind
    BY <1>19 DEF control
  <2>5. ForwardFollows'
    BY <2>3, <2>4 DEF ForwardFollows, ForwardStands
  <2>. QED
    BY <2>1, <2>2, <2>5 DEF RoutesPart, IInv, ControlTypeOK, TypeOK
<1>20. CASE Expire \/ Revoke \/ UNCHANGED vars
  BY <1>19, <1>20 DEF Expire, Revoke, vars, outside, TypeOK
<1>. QED
  BY <1>1, <1>2, <1>3, <1>4, <1>5, <1>6, <1>7, <1>8, <1>10, <1>11, <1>13,
     <1>14, <1>15, <1>16, <1>17, <1>18, <1>20, <1>21 DEF Next, Progress

-----------------------------------------------------------------------------
(* Theorems.                                                               *)

(***************************************************************************)
(* The inductive invariant: what a session holds, in which phase, and who  *)
(* may end a forward (Coordinator.Run, Prepare, Adapter.Acquire).          *)
(***************************************************************************)
THEOREM Invariance == Spec => []IInv
<1>. QED
  BY InitInvariant, StepInvariant, PTL DEF Spec

(***************************************************************************)
(* Type correctness of the coordinators and the routes.                    *)
(***************************************************************************)
THEOREM TypeCorrect == Spec => []TypeOK
<1>1. IInv => TypeOK
  BY DEF IInv
<1>. QED
  BY <1>1, Invariance, PTL

(***************************************************************************)
(* A session that is over has given everything back, whichever provider,   *)
(* executor or watcher ended it (acquireBest, Adapter.Acquire, the         *)
(* deferred calls of Run).                                                 *)
(***************************************************************************)
THEOREM NothingLeft == Spec => []NothingIsLeft
<1>1. IInv => NothingIsLeft
  <2> SUFFICES ASSUME IInv, NEW r \in Run, pc[r] = "over"
               PROVE  /\ Open(r) = {} /\ ~visitor[r] /\ ~config[r] /\ ~hosts[r]
                      /\ lease[r] # "held"
                      /\ r = Request /\ profile => viewer = "running"
    BY DEF NothingIsLeft
  <2>1. Open(r) = {} /\ Settled(r) /\ ~hosts[r]
    BY DEF IInv, PhaseAgrees
  <2>2. try[r][Frp] \notin {"leased", "ready", "started", "open"}
    <3>. Frp \in Adapter
      BY DEF Adapter
    <3>. QED
      BY <2>1 DEF Open, Settled
  <2>. QED
    BY <2>1, <2>2 DEF IInv, RoutesAreHeld, ForwardFollows
<1>. QED
  BY <1>1, Invariance, PTL

(***************************************************************************)
(* While a viewer runs that is authorized, its forward runs and nobody     *)
(* ends its context, unless the forward's own listener has failed          *)
(* (Forwarder.Prepare, ForwardExecutor.Execute).                           *)
(***************************************************************************)
THEOREM ForwardIsKept == Spec => []ViewerKeepsForward
<1>1. IInv => ViewerKeepsForward
  BY DEF IInv, ForwardFollows, ForwardStands, ViewerKeepsForward, Ended
<1>. QED
  BY <1>1, Invariance, PTL

=============================================================================
