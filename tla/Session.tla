------------------------------ MODULE Session ------------------------------
(***************************************************************************)
(* A Shell or Desktop session of one request at the daemon's local API:    *)
(* the coordinator resolves and authorizes the target, acquires a route,   *)
(* runs the executor under a deadline and a watcher of the authorization,  *)
(* and gives the route back.  A private Desktop (VNC) is carried by a      *)
(* second, Shell, session, the forward, which belongs to the viewer and    *)
(* not to the request (desktopforward).                                    *)
(*                                                                         *)
(* Simplifications: one request, one target, one authorization, which      *)
(* expires; the ways in which a request can be invalid are one failure; a  *)
(* VNC Desktop that needs no forward is an RDP one without a profile.      *)
(***************************************************************************)
EXTENDS Routes

CONSTANTS
  Request, Forward   \* the two sessions

ASSUME SessionAssumption ==
  Run = {Request, Forward} /\ Request # Forward

VARIABLES
  kind,         \* "shell", "rdp", "vnc"
  required,     \* LocalRouting requires the Gateway, with managed visitors
  pc,
  cause,        \* why the context of a session ended
  result,
  hosts,        \* the known-hosts file of an SSH client exists
  viewer,       \* the desktop application
  profile,      \* the file that tells it an RDP server and password exists
  revoked,      \* the directory revokes the target
  copy,         \* what the request's Catalog holds of that
  expired       \* the authorization's time is over

outside == <<managed, kind, required, revoked, copy, expired>>
control == <<pc, cause, result, hosts, viewer, profile>>
vars == <<routeVars, control, outside>>

Busy(r) == pc[r] \notin {"idle", "over"}

Results == {"none", "ok", "failed", "expired", "revoked", "canceled"}

TypeOK ==
  /\ RoutesTypeOK
  /\ kind \in {"shell", "rdp", "vnc"}
  /\ pc \in [Run -> {"idle", "resolve", "route", "execute", "running",
                     "prepare", "probe", "launch", "start", "over"}]
  /\ cause \in [Run -> {"none", "expired", "revoked", "canceled"}]
  /\ result \in [Run -> Results]
  /\ hosts \in [Run -> BOOLEAN]
  /\ viewer \in {"none", "running", "gone"}
  /\ {profile, required, revoked, copy, expired} \subseteq BOOLEAN
  /\ \A r \in Run : (pc[r] = "over") = (result[r] # "none")

Init ==
  /\ NoRoutes
  /\ kind \in {"shell", "rdp", "vnc"} /\ required \in BOOLEAN
  /\ managed \in IF required THEN {TRUE} ELSE BOOLEAN
  /\ pc = [r \in Run |-> "idle"] /\ cause = [r \in Run |-> "none"]
  /\ result = [r \in Run |-> "none"] /\ hosts = [r \in Run |-> FALSE]
  /\ viewer = "none" /\ profile = FALSE
  /\ revoked = FALSE /\ copy = FALSE /\ expired = FALSE

Ended(r) == cause[r] # "none"

GoTo(r, step) == pc' = [pc EXCEPT ![r] = step]

\* The context of session r ends, if it has not; the first cause stands.
Cancel(r, why) ==
  cause' = [cause EXCEPT ![r] = IF @ = "none" THEN why ELSE @]

\* Faulty variant: a session that was canceled has no outcome.
ReturnSilently(r, answer) ==
  /\ GoTo(r, "over")
  /\ result' = [result EXCEPT ![r] = IF cause[r] = "canceled" THEN @
                                      ELSE answer]
  /\ hosts' = [hosts EXCEPT ![r] = FALSE]
  /\ Close(r)

\* Run returns: the deferred calls give back what the session holds.
Return(r, answer) ==
  /\ GoTo(r, "over")
  /\ result' = [result EXCEPT ![r] = answer]
  /\ hosts' = [hosts EXCEPT ![r] = FALSE]
  /\ Close(r)

\* The fault of a session that did not succeed.
Fault(r) == IF Ended(r) THEN cause[r] ELSE "failed"

-----------------------------------------------------------------------------
(* The coordinator.                                                        *)

\* HandleContext: the Catalog is a copy of the directory as it is now.
Arrive ==
  /\ pc[Request] = "idle"
  /\ GoTo(Request, "resolve")
  /\ copy' = revoked
  /\ UNCHANGED <<routeVars, cause, result, hosts, viewer, profile, managed,
                 kind, required, revoked, expired>>

\* ResolveAuthorized: of the copy, at the present time.
Resolved == ~copy /\ ~expired

Providers(r) == IF required \/ r = Forward THEN {Frp} ELSE Adapter

\* Shell sessions try one provider after the other, Desktop sessions all.
InTurn(r) == r = Forward \/ kind = "shell" \/ required

Resolve(r) ==
  /\ pc[r] = "resolve"
  /\ IF Resolved
     THEN /\ GoTo(r, "route")
          /\ IF InTurn(r) THEN UNCHANGED routeVars ELSE AskAll(r, Providers(r))
          /\ UNCHANGED <<result, hosts>>
     ELSE Return(r, IF expired THEN "expired" ELSE "failed")
  /\ UNCHANGED <<cause, viewer, profile, outside>>

TryNext(r) ==
  /\ pc[r] = "route" /\ InTurn(r) /\ ~Ended(r)
  /\ AskNext(r, Providers(r))
  /\ UNCHANGED <<control, outside>>

Try(r) ==
  /\ pc[r] = "route"
  /\ Acquire(r, Ended(r))
  /\ UNCHANGED <<control, outside>>

\* The selector has no route to offer; all at once, it closes what is open
\* if the context has ended in the meantime.
NoneLeft(r) ==
  IF InTurn(r)
  THEN Open(r) = {} /\ (Ended(r) \/ \A a \in Providers(r) : try[r][a] # "idle")
  ELSE Open(r) = {} \/ Ended(r)

\* Faulty variant: what is open is forgotten.
LeaveRoutes(r) ==
  /\ GoTo(r, "over") /\ result' = [result EXCEPT ![r] = "failed"]
  /\ UNCHANGED <<routeVars, hosts>>

Unroutable(r) == Return(r, "failed")

Choose(r) ==
  /\ pc[r] = "route" /\ Settled(r)
  /\ \/ NoneLeft(r) /\ Unroutable(r)
     \/ /\ ~NoneLeft(r) /\ \E a \in Adapter : Select(r, a)
        /\ GoTo(r, "execute")
        /\ UNCHANGED <<result, hosts>>
  /\ UNCHANGED <<cause, viewer, profile, outside>>

-----------------------------------------------------------------------------
(* The executors.                                                          *)

IsShell(r) == r = Forward \/ kind = "shell"

\* Executor.Execute; a forward also opens its listener and tells so.
ExecuteShell(r) ==
  /\ pc[r] = "execute" /\ IsShell(r)
  /\ \/ /\ GoTo(r, "running") /\ hosts' = [hosts EXCEPT ![r] = TRUE]
        /\ UNCHANGED <<routeVars, result>>
     \/ Return(r, Fault(r))
  /\ UNCHANGED <<cause, viewer, profile, outside>>

\* How a session ends whose context has not: the SSH client exits, or Accept
\* fails in a forward, which takes that for a success.
EndsItself(r) == IF r = Forward THEN {"ok"} ELSE {"ok", "failed"}

ShellEnds(r) ==
  /\ pc[r] = "running"
  /\ \E answer \in IF Ended(r) THEN {cause[r]} ELSE EndsItself(r) :
       Return(r, answer)
  /\ UNCHANGED <<cause, viewer, profile, outside>>

\* Executor.Open: no client, no credential, no forward for this route.
OpenDesktop ==
  /\ pc[Request] = "execute" /\ ~IsShell(Request)
  /\ \/ kind = "rdp" /\ GoTo(Request, "launch")
        /\ UNCHANGED <<routeVars, result, hosts>>
     \/ /\ kind = "vnc" /\ Frp \in Open(Request) /\ Resolved
        /\ pc' = [pc EXCEPT ![Request] = "prepare", ![Forward] = "resolve"]
        /\ UNCHANGED <<routeVars, result, hosts>>
     \/ Return(Request, Fault(Request))
  /\ UNCHANGED <<cause, viewer, profile, outside>>

\* Prepare waits for the forward, and fetches the viewer's banner through it.
ForwardReady ==
  /\ pc[Request] = "prepare" /\ pc[Forward] = "running"
  /\ GoTo(Request, "probe")
  /\ UNCHANGED <<routeVars, cause, result, hosts, viewer, profile, outside>>

Probe ==
  /\ pc[Request] = "probe" /\ pc[Forward] = "running"
  /\ ~Ended(Request) /\ ~Ended(Forward)
  /\ GoTo(Request, "launch")
  /\ UNCHANGED <<routeVars, cause, result, hosts, viewer, profile, outside>>

\* Faulty variant: a caller that has gone leaves the forward alone.
StopForwardUnlessGone ==
  IF Ended(Request) THEN UNCHANGED cause ELSE Cancel(Forward, "canceled")

StopForward ==
  IF kind = "vnc" THEN Cancel(Forward, "canceled") ELSE UNCHANGED cause

PrepareFails ==
  /\ \/ /\ pc[Request] = "prepare"
        /\ pc[Forward] = "over" \/ Ended(Request) \/ Ended(Forward)
     \/ pc[Request] = "probe"
  /\ StopForward
  /\ Return(Request, Fault(Request))
  /\ UNCHANGED <<viewer, profile, outside>>

\* OSCommand.Run: the profile is there while it is signed, and longer.
WriteProfile ==
  /\ pc[Request] = "launch" /\ kind = "rdp" /\ ~Ended(Request)
  /\ profile' = TRUE
  /\ GoTo(Request, "start")
  /\ UNCHANGED <<routeVars, cause, result, hosts, viewer, outside>>

Startable ==
  \/ pc[Request] = "launch" /\ kind = "vnc" /\ ~Ended(Request)
  \/ pc[Request] = "start"

\* Faulty variant: the forward's context is one of the request's.
LaunchInRequest ==
  /\ Startable
  /\ viewer' = "running"
  /\ StopForward
  /\ Return(Request, "ok")
  /\ UNCHANGED <<profile, outside>>

\* OSCommand.Run does not wait for the application: Run returns at once.
Launch ==
  /\ Startable
  /\ viewer' = "running"
  /\ Return(Request, "ok")
  /\ UNCHANGED <<cause, profile, outside>>

LaunchFails ==
  /\ pc[Request] \in {"launch", "start"}
  /\ profile' = FALSE
  /\ StopForward
  /\ Return(Request, Fault(Request))
  /\ UNCHANGED <<viewer, outside>>

ViewerExits ==
  /\ viewer = "running"
  /\ viewer' = "gone" /\ profile' = FALSE
  /\ StopForward
  /\ UNCHANGED <<routeVars, pc, result, hosts, outside>>

-----------------------------------------------------------------------------
(* Deadlines and watchers.                                                 *)

\* A request is watched while its executor is at work, a forward always.
Watched(r) ==
  Busy(r) /\ (r = Forward \/ pc[r] \notin {"resolve", "route"})

Deadline(r) ==
  /\ Watched(r) /\ ~Ended(r) /\ expired
  /\ Cancel(r, "expired")
  /\ UNCHANGED <<routeVars, pc, result, hosts, viewer, profile, outside>>

\* pollingAuthorizationWatcher; the one of the forward's Desktop just cancels.
Poll(r) ==
  /\ Watched(r) /\ ~Ended(r) /\ ~Resolved
  /\ \E why \in {"revoked"} \cup IF r = Forward THEN {"canceled"} ELSE {} :
       Cancel(r, why)
  /\ UNCHANGED <<routeVars, pc, result, hosts, viewer, profile, outside>>

CallerGoes ==
  /\ Busy(Request) /\ ~Ended(Request)
  /\ Cancel(Request, "canceled")
  /\ UNCHANGED <<routeVars, pc, result, hosts, viewer, profile, outside>>

Expire ==
  /\ ~expired /\ expired' = TRUE
  /\ UNCHANGED <<routeVars, control, managed, kind, required, revoked, copy>>

Revoke ==
  /\ ~revoked /\ revoked' = TRUE
  /\ UNCHANGED <<routeVars, control, managed, kind, required, copy, expired>>

-----------------------------------------------------------------------------
\* What the daemon goes on to do, but for an SSH client that may run on.
Progress(r) ==
  \/ Resolve(r) \/ TryNext(r) \/ Try(r) \/ Choose(r) \/ ExecuteShell(r)
  \/ Ended(r) /\ ShellEnds(r)
  \/ r = Request /\ (\/ OpenDesktop \/ ForwardReady \/ Probe \/ PrepareFails
                     \/ WriteProfile \/ Launch \/ LaunchFails)

Signal(r) == Deadline(r) \/ Poll(r)

Next ==
  \/ Arrive \/ ViewerExits \/ CallerGoes \/ Expire \/ Revoke
  \/ \E r \in Run : Progress(r) \/ ShellEnds(r) \/ Signal(r)

Fairness == \A r \in Run : WF_vars(Progress(r)) /\ WF_vars(Signal(r))

Spec == Init /\ [][Next]_vars /\ Fairness

-----------------------------------------------------------------------------
(* Properties.                                                             *)

(***************************************************************************)
(* A session that is over holds nothing: no route, no visitor process, no  *)
(* file with secrets or keys, and no lease it could still release; only    *)
(* the viewer it launched still has its profile (acquireBest,              *)
(* Adapter.Acquire, the deferred calls of Run, OSCommand.Run).             *)
(***************************************************************************)
NothingIsLeft ==
  \A r \in Run : pc[r] = "over" =>
    /\ Open(r) = {} /\ ~visitor[r] /\ ~config[r] /\ ~hosts[r]
    /\ lease[r] # "held"
    /\ r = Request /\ profile => viewer = "running"

(***************************************************************************)
(* The viewer owns its forward: while it runs and is authorized, nobody    *)
(* ends the forward's context, neither the request that started it nor the *)
(* caller that went; the forward runs, unless its own listener has failed, *)
(* which is no error to it (Forwarder.Prepare, ForwardExecutor.Execute).   *)
(***************************************************************************)
ViewerKeepsForward ==
  kind = "vnc" /\ viewer = "running" /\ Resolved =>
    \/ pc[Forward] = "running" /\ ~Ended(Forward)
    \/ pc[Forward] = "over" /\ result[Forward] = "ok"

(***************************************************************************)
(* Nothing runs on for nobody: a session ends after its authorization      *)
(* expired, and a forward after its viewer exited or was never started     *)
(* (WithDeadlineCause, Forwarder.Prepare).                                 *)
(***************************************************************************)
SessionsEnd ==
  /\ \A r \in Run : (pc[r] = "running" /\ expired) ~> pc[r] = "over"
  /\ (Busy(Forward) /\ pc[Request] = "over" /\ viewer # "running")
       ~> pc[Forward] = "over"

(***************************************************************************)
(* "keeps the route owned until the desktop application exits,             *)
(* authorization expires, or the caller cancels"                           *)
(* (contracts/desktop-session-v1.md).                                      *)
(***************************************************************************)
ViewerKeepsRoute ==
  viewer = "running" /\ ~expired /\ try[Request][Frp] = "closed" =>
    managed \/ \E r \in Run : visitor[r]

(***************************************************************************)
(* "A missing/revoked Grant, unavailable or revoked target ... cancels the *)
(* current executor" (contracts/shell-session-v1.md).                      *)
(***************************************************************************)
RevocationEndsSession ==
  \A r \in Run : (pc[r] = "running" /\ revoked) ~> pc[r] # "running"

=============================================================================
