---------------------------- MODULE FleetUpdates ----------------------------
(***************************************************************************)
(* Automatic updates of one computer: the hints the Gateway spreads        *)
(* (enrollment.SyncUpdates), the daemon's cursor (fleetUpdates) and update *)
(* monitor (updatecheck), the release trust store (releaseauth), the       *)
(* hand-off to Setup (applyBackgroundUpdate), and the gate that keeps      *)
(* remote actions and the hand-off apart (localapi.ActionGate).            *)
(*                                                                         *)
(* Simplifications.                                                        *)
(*  - The other computers appear as peers whose reports announce news.     *)
(*  - Time passes at will: a period is a flag that ends at some moment,    *)
(*    and each look at the clock sees some time.                           *)
(*  - A release is its sequence number; each sequence has one digest.      *)
(*  - What Setup does to the programs (LinuxUpgrade, WindowsSetup) is one  *)
(*    stop of the daemon and one outcome.                                  *)
(***************************************************************************)
EXTENDS Naturals, FiniteSets

CONSTANTS
  Release,    \* sequence numbers that are published
  Compatible, \* those of the daemon's data epoch and protocol
  Period,     \* the times between the issue and the expiry of each
  Setup,      \* Setup processes
  NoStatus,   \* there is no status file
  MaxTime, MaxActions \* bounds of the clock and of the actions at a time

ASSUME FleetAssumption ==
  /\ Release \subseteq Nat \ {0}
  /\ Compatible \subseteq Release
  /\ Period \in [Release -> SUBSET Nat]
  /\ {MaxTime, MaxActions} \subseteq Nat
  /\ NoStatus \notin [phase : {"installing", "failed", "complete"},
                      release : Release]

VARIABLES
  linux,      \* the computer's system; Windows, if not
  \* the Gateway's update row, and its latch after a failed save
  hint, reported, broken,
  \* the highest sequence published
  feed,
  \* the computer's disk
  version,    \* the release installed, or 0
  cursor,     \* the highest hint acted upon
  status,     \* status-v1.json
  fresh,      \* it is less than ten minutes old
  package,    \* the release-<sequence> directories
  marker,     \* bootstrap-v1
  trustFile,  \* the trust store: "absent", "empty" or "ready"
  trust,      \* its checkpoint
  observed,   \* the latest time it has seen
  \* the daemon's memory
  up,
  answer,     \* the hint in the answer being handled, or 0
  telling,    \* the cursor is saved, the monitor not told yet
  hints,      \* the monitor's channel holds a hint
  monitor,    \* the step of the monitor and the release it has in hand
  leased,     \* the gate's lease has not ended
  active,     \* remote actions inside the gate
  \* the Setup processes
  setup,
  \* history: the highest checkpoint there ever was
  floor

gatewayVars == <<linux, hint, reported, broken>>
trustVars == <<marker, trustFile, trust, observed, floor>>
diskVars == <<version, cursor, status, fresh, package, trustVars>>
daemonVars == <<up, answer, telling, hints, monitor, leased, active>>
vars == <<gatewayVars, feed, diskVars, daemonVars, setup>>

Statuses == [phase : {"installing", "failed", "complete"}, release : Release]

MonitorStep ==
  {"idle", "discover", "apply", "verify", "gate", "write", "start"}

SetupStep ==
  {"none", "bootstrap", "create", "table", "verify", "stop", "replace",
   "failed", "complete"}

NoSetup == [pc |-> "none", release |-> 0, automatic |-> FALSE]

Idle == [pc |-> "idle", release |-> 0]

TypeOK ==
  /\ {hint, cursor, answer, observed} \subseteq Nat
  /\ {linux, broken, fresh, marker} \subseteq BOOLEAN
  /\ {up, telling, hints, leased} \subseteq BOOLEAN
  /\ {reported, feed, version, trust, floor} \subseteq Release \cup {0}
  /\ status \in Statuses \cup {NoStatus}
  /\ package \in [Release -> {"absent", "whole", "damaged"}]
  /\ trustFile \in {"absent", "empty", "ready"}
  /\ monitor \in [pc : MonitorStep, release : Release \cup {0}]
  /\ active \in 0..MaxActions
  /\ setup \in [Setup -> [pc : SetupStep, release : Release \cup {0},
                          automatic : BOOLEAN]]

Init ==
  /\ linux \in BOOLEAN
  /\ hint = 0 /\ reported = 0 /\ broken = FALSE
  /\ feed = 0
  /\ version = 0 /\ cursor = 0 /\ status = NoStatus /\ fresh = FALSE
  /\ package = [r \in Release |-> "absent"]
  /\ marker = FALSE /\ trustFile = "absent" /\ trust = 0 /\ observed = 0
  /\ up = FALSE /\ answer = 0 /\ telling = FALSE /\ hints = FALSE
  /\ monitor = Idle /\ leased = FALSE /\ active = 0
  /\ setup = [p \in Setup |-> NoSetup]
  /\ floor = 0

Later(x, y) == IF x > y THEN x ELSE y

Run(p, pc) == setup' = [setup EXCEPT ![p].pc = pc]

Exit(p) == setup' = [setup EXCEPT ![p] = NoSetup]

-----------------------------------------------------------------------------
(* The Gateway.                                                            *)

\* A report that announces something counts once in thirty seconds.
Announce(news) == hint' \in {hint} \cup IF news THEN {hint + 1} ELSE {}

PeerAnnounces ==
  /\ ~broken
  /\ Announce(TRUE)
  /\ UNCHANGED <<linux, reported, broken, feed, diskVars, daemonVars, setup>>

\* The row is saved after the authority; if that fails nothing is answered
\* until the Gateway restarts.
SaveFails ==
  /\ ~broken
  /\ broken' = TRUE
  /\ UNCHANGED <<linux, hint, reported, feed, diskVars, daemonVars, setup>>

GatewayRestarts ==
  /\ broken
  /\ broken' = FALSE
  /\ UNCHANGED <<linux, hint, reported, feed, diskVars, daemonVars, setup>>

\* A Gateway recovered from a bundle begins with an empty row.
RowLost ==
  /\ hint' = 0 /\ reported' = 0
  /\ UNCHANGED <<linux, broken, feed, diskVars, daemonVars, setup>>

Publish(r) ==
  /\ r > feed
  /\ feed' = r
  /\ UNCHANGED <<gatewayVars, diskVars, daemonVars, setup>>

-----------------------------------------------------------------------------
(* fleetUpdates.                                                           *)

\* One synchronization at a time.
Sync(notify) ==
  /\ up /\ answer = 0 /\ ~telling /\ ~broken
  /\ Announce(notify \/ reported # version)
  /\ reported' = version
  /\ answer' = hint'
  /\ UNCHANGED <<linux, broken, feed, diskVars, up, telling, hints, monitor,
                 leased, active, setup>>

\* The answer is lost, or the cursor cannot be saved.
SyncFails ==
  /\ answer # 0
  /\ answer' = 0
  /\ UNCHANGED <<gatewayVars, feed, diskVars, up, telling, hints, monitor,
                 leased, active, setup>>

\* Faulty variant: an answer is news only if it is the very next one.
SaveCursorInOrder ==
  /\ answer # 0
  /\ answer' = 0
  /\ cursor' = IF answer = cursor + 1 THEN answer ELSE cursor
  /\ telling' = (answer = cursor + 1)
  /\ UNCHANGED <<gatewayVars, feed, version, status, fresh, package, trustVars,
                 up, hints, monitor, leased, active, setup>>

SaveCursor ==
  /\ answer # 0
  /\ answer' = 0
  /\ cursor' = Later(cursor, answer)
  /\ telling' = (cursor < answer)
  /\ UNCHANGED <<gatewayVars, feed, version, status, fresh, package, trustVars,
                 up, hints, monitor, leased, active, setup>>

\* The monitor is told after the cursor is saved, or when the user asks.
HintMonitor ==
  /\ up
  /\ hints' = TRUE /\ telling' = FALSE
  /\ UNCHANGED <<gatewayVars, feed, diskVars, up, answer, monitor,
                 leased, active, setup>>

-----------------------------------------------------------------------------
(* The trust store.                                                        *)

\* Accept at time t: the clock moves on even if the release is refused.
Accept(r, t, accepted) ==
  LET seen == Later(observed, t)
  IN  /\ accepted = (/\ trustFile = "ready"
                     /\ seen \in Period[r] /\ r >= trust)
      /\ IF trustFile = "ready"
         THEN /\ observed' = seen
              /\ trust' = IF accepted THEN r ELSE trust
              /\ floor' = Later(floor, trust')
         ELSE UNCHANGED <<observed, trust, floor>>
      /\ UNCHANGED <<marker, trustFile>>

-----------------------------------------------------------------------------
(* The update monitor.                                                     *)

NotCoordinating ==
  UNCHANGED <<gatewayVars, feed, version, cursor, up, answer, telling, active>>

Proceed(pc) == monitor' = [monitor EXCEPT !.pc = pc]

EndCheck == monitor' = Idle

\* A hint that comes too soon after a check (notBefore) is dropped.
TakeHint ==
  /\ monitor.pc = "idle" /\ hints
  /\ hints' = FALSE
  /\ monitor' \in {monitor, [monitor EXCEPT !.pc = "discover"]}
  /\ NotCoordinating
  /\ UNCHANGED <<status, fresh, package, trustVars, leased, setup>>

TimerFires ==
  /\ up /\ monitor.pc = "idle"
  /\ Proceed("discover")
  /\ NotCoordinating
  /\ UNCHANGED <<status, fresh, package, trustVars, hints, leased, setup>>

\* The feed may still serve an older release than the latest.
Discover(r, t) ==
  /\ monitor.pc = "discover" /\ r <= feed
  /\ \E accepted \in BOOLEAN :
       /\ Accept(r, t, accepted)
       /\ IF accepted /\ r # version /\ r \in Compatible
          THEN monitor' = [pc |-> "apply", release |-> r]
          ELSE EndCheck
  /\ NotCoordinating
  /\ UNCHANGED <<status, fresh, package, hints, leased, setup>>

\* No download, no staging: the check ends.
CheckFails ==
  /\ monitor.pc \in {"discover", "apply"}
  /\ EndCheck
  /\ NotCoordinating
  /\ UNCHANGED <<status, fresh, package, trustVars, hints, leased, setup>>

\* Faulty variant: an installation that was begun is waited for forever.
HeldForever(r) ==
  /\ status # NoStatus
  /\ status.release = r

Held(r) ==
  /\ status # NoStatus
  /\ status.release = r
  /\ status.phase \in {"failed", "complete"} \/ fresh

Stage ==
  /\ monitor.pc = "apply"
  /\ IF Held(monitor.release)
     THEN EndCheck /\ UNCHANGED package
     ELSE /\ package' = [package EXCEPT ![monitor.release] =
                           IF @ = "absent" THEN "whole" ELSE @]
          /\ Proceed("verify")
  /\ NotCoordinating
  /\ UNCHANGED <<status, fresh, trustVars, hints, leased, setup>>

VerifyStaged(t) ==
  /\ monitor.pc = "verify"
  /\ \E accepted \in BOOLEAN :
       /\ Accept(monitor.release, t, accepted)
       /\ IF accepted /\ package[monitor.release] = "whole"
          THEN Proceed("gate") ELSE EndCheck
  /\ NotCoordinating
  /\ UNCHANGED <<status, fresh, package, hints, leased, setup>>

BeginUpdate ==
  /\ monitor.pc = "gate"
  /\ IF active = 0 /\ ~leased
     THEN leased' = TRUE /\ Proceed("write")
     ELSE EndCheck /\ UNCHANGED leased
  /\ NotCoordinating
  /\ UNCHANGED <<status, fresh, package, trustVars, hints, setup>>

WriteInstalling ==
  /\ monitor.pc = "write"
  /\ status' = [phase |-> "installing", release |-> monitor.release]
  /\ fresh' = TRUE
  /\ Proceed("start")
  /\ NotCoordinating
  /\ UNCHANGED <<package, trustVars, hints, leased, setup>>

\* The gate opens again if the hand-off fails.
HandOffFails ==
  /\ monitor.pc \in {"write", "start"}
  /\ leased' = FALSE
  /\ \/ UNCHANGED <<status, fresh>>
     \/ /\ monitor.pc = "start"
        /\ status' = [phase |-> "failed", release |-> monitor.release]
        /\ fresh' = TRUE
  /\ EndCheck
  /\ NotCoordinating
  /\ UNCHANGED <<package, trustVars, hints, setup>>

\* A Setup that finds the lock taken ends at once.
Shut(p) == linux /\ \E q \in Setup \ {p} : setup[q].pc # "none"

StartSetup(p) ==
  /\ monitor.pc = "start" /\ setup[p].pc = "none"
  /\ setup' = [setup EXCEPT ![p] =
       IF Shut(p) THEN NoSetup
       ELSE [pc |-> "verify", release |-> monitor.release, automatic |-> TRUE]]
  /\ EndCheck
  /\ NotCoordinating
  /\ UNCHANGED <<status, fresh, package, trustVars, hints, leased>>

-----------------------------------------------------------------------------
(* The gate, and what time ends.                                           *)

Enter ==
  /\ up /\ ~leased /\ active < MaxActions
  /\ active' = active + 1
  /\ UNCHANGED <<gatewayVars, feed, diskVars, up, answer, telling, hints,
                 monitor, leased, setup>>

\* Faulty variant: an action may leave more than once.
LeaveAgain ==
  /\ up
  /\ active' = active - 1
  /\ UNCHANGED <<gatewayVars, feed, diskVars, up, answer, telling, hints,
                 monitor, leased, setup>>

Leave ==
  /\ active > 0
  /\ active' = active - 1
  /\ UNCHANGED <<gatewayVars, feed, diskVars, up, answer, telling, hints,
                 monitor, leased, setup>>

LeaseEnds ==
  /\ leased
  /\ leased' = FALSE
  /\ UNCHANGED <<gatewayVars, feed, diskVars, up, answer, telling, hints,
                 monitor, active, setup>>

StatusAges ==
  /\ fresh
  /\ fresh' = FALSE
  /\ UNCHANGED <<gatewayVars, feed, version, cursor, status, package,
                 trustVars, daemonVars, setup>>

-----------------------------------------------------------------------------
(* Setup.                                                                  *)

OnlySetup ==
  UNCHANGED <<gatewayVars, feed, version, cursor, status, fresh, package,
              daemonVars>>

InstallByHand(p, r) ==
  /\ setup[p].pc = "none" /\ ~Shut(p)
  /\ setup' = [setup EXCEPT ![p] =
                 [pc |-> "bootstrap", release |-> r, automatic |-> FALSE]]
  /\ OnlySetup
  /\ UNCHANGED trustVars

\* Faulty variant: the marker is not looked at.
BootstrapAgain(p) ==
  /\ setup[p].pc = "bootstrap"
  /\ IF trustFile # "absent" THEN Run(p, "verify") /\ UNCHANGED marker
     ELSE marker' = TRUE /\ Run(p, "create")
  /\ OnlySetup
  /\ UNCHANGED <<trustFile, trust, observed, floor>>

\* The marker tells a first installation from a lost trust store.
Bootstrap(p) ==
  /\ setup[p].pc = "bootstrap"
  /\ IF trustFile # "absent" THEN Run(p, "verify") /\ UNCHANGED marker
     ELSE IF marker THEN Exit(p) /\ UNCHANGED marker
     ELSE marker' = TRUE /\ Run(p, "create")
  /\ OnlySetup
  /\ UNCHANGED <<trustFile, trust, observed, floor>>

CreateTrust(p) ==
  /\ setup[p].pc = "create"
  /\ IF trustFile = "absent" THEN trustFile' = "empty" /\ Run(p, "table")
     ELSE Exit(p) /\ UNCHANGED trustFile
  /\ OnlySetup
  /\ UNCHANGED <<marker, trust, observed, floor>>

FillTrust(p) ==
  /\ setup[p].pc = "table"
  /\ IF trustFile = "empty"
     THEN /\ trustFile' = "ready" /\ trust' = 0 /\ observed' = 0
          /\ Run(p, "verify")
     ELSE Exit(p) /\ UNCHANGED <<trustFile, trust, observed>>
  /\ OnlySetup
  /\ UNCHANGED <<marker, floor>>

\* Faulty variant: a package is trusted for its signature alone.
VerifySignature(p, t) ==
  /\ setup[p].pc = "verify"
  /\ t \in Period[setup[p].release]
  /\ Run(p, "stop")
  /\ OnlySetup
  /\ UNCHANGED trustVars

Verify(p, t) ==
  /\ setup[p].pc = "verify"
  /\ \E accepted \in BOOLEAN :
       /\ Accept(setup[p].release, t, accepted)
       /\ IF /\ accepted
             /\ setup[p].automatic => package[setup[p].release] = "whole"
          THEN Run(p, "stop") ELSE Exit(p)
  /\ OnlySetup

DaemonEnds ==
  /\ up' = FALSE /\ answer' = 0 /\ telling' = FALSE /\ hints' = FALSE
  /\ monitor' = Idle /\ leased' = FALSE /\ active' = 0

\* Setup has the lock from here on.
StopDaemon(p) ==
  /\ setup[p].pc = "stop"
  /\ IF \E q \in Setup : setup[q].pc = "replace"
     THEN Run(p, "failed") /\ UNCHANGED daemonVars
     ELSE Run(p, "replace") /\ DaemonEnds
  /\ UNCHANGED <<gatewayVars, feed, diskVars>>

\* The new daemon is healthy.
Replace(p) ==
  /\ setup[p].pc = "replace"
  /\ version' = setup[p].release
  /\ up' = TRUE
  /\ Run(p, "complete")
  /\ UNCHANGED <<gatewayVars, feed, cursor, status, fresh, package, trustVars,
                 answer, telling, hints, monitor, leased, active>>

\* The old one is restored, if there was one.
ReplaceFails(p) ==
  /\ setup[p].pc \in {"stop", "replace"}
  /\ up' = (up \/ (version # 0 /\ setup[p].pc = "replace"))
  /\ Run(p, "failed")
  /\ UNCHANGED <<gatewayVars, feed, diskVars, answer, telling, hints, monitor,
                 leased, active>>

\* On Linux an installation by hand reports too.
Report(p) ==
  /\ setup[p].pc \in {"failed", "complete"}
  /\ IF setup[p].automatic \/ linux
     THEN /\ status' = [phase |-> setup[p].pc, release |-> setup[p].release]
          /\ fresh' = TRUE
     ELSE UNCHANGED <<status, fresh>>
  /\ Exit(p)
  /\ UNCHANGED <<gatewayVars, feed, version, cursor, package, trustVars,
                 daemonVars>>

-----------------------------------------------------------------------------
(* Failures.                                                               *)

Killed(p) ==
  /\ setup[p].pc # "none"
  /\ Exit(p)
  /\ OnlySetup
  /\ UNCHANGED trustVars

DaemonStops ==
  /\ up
  /\ DaemonEnds
  /\ UNCHANGED <<gatewayVars, feed, diskVars, setup>>

DaemonStarts ==
  /\ ~up /\ version # 0
  /\ \A p \in Setup : setup[p].pc # "replace"
  /\ up' = TRUE
  /\ UNCHANGED <<gatewayVars, feed, diskVars, answer, telling, hints, monitor,
                 leased, active, setup>>

PackageDamaged(r) ==
  /\ package[r] = "whole"
  /\ package' = [package EXCEPT ![r] = "damaged"]
  /\ UNCHANGED <<gatewayVars, feed, version, cursor, status, fresh, trustVars,
                 daemonVars, setup>>

TrustLost ==
  /\ trustFile # "absent"
  /\ trustFile' = "absent" /\ trust' = 0 /\ observed' = 0
  /\ UNCHANGED <<gatewayVars, feed, version, cursor, status, fresh, package,
                 marker, floor, daemonVars, setup>>

-----------------------------------------------------------------------------
Times == 0..MaxTime

\* What people do.
Asked ==
  \/ PeerAnnounces \/ Sync(TRUE) \/ (HintMonitor /\ ~telling) \/ Enter
  \/ \E p \in Setup, r \in Release : InstallByHand(p, r)

\* T: the times the clock may show.
Monitor(T) ==
  \/ TakeHint \/ TimerFires \/ Stage \/ BeginUpdate \/ WriteInstalling
  \/ \E t \in T : VerifyStaged(t) \/ \E r \in Release : Discover(r, t)
  \/ \E p \in Setup : StartSetup(p)

Install(T) ==
  \E p \in Setup :
    \/ Bootstrap(p) \/ CreateTrust(p) \/ FillTrust(p) \/ StopDaemon(p)
    \/ Replace(p) \/ Report(p) \/ \E t \in T : Verify(p, t)

Coordination == Sync(FALSE) \/ SaveCursor \/ (telling /\ HintMonitor)

TimePasses == LeaseEnds \/ StatusAges

Fault ==
  \/ SaveFails \/ RowLost \/ SyncFails \/ CheckFails \/ HandOffFails
  \/ DaemonStops \/ TrustLost
  \/ \E r \in Release : PackageDamaged(r)
  \/ \E p \in Setup : Killed(p) \/ ReplaceFails(p)

Next ==
  \/ Asked \/ Coordination \/ Monitor(Times) \/ Install(Times)
  \/ Leave \/ TimePasses
  \/ \E r \in Release : Publish(r)
  \/ GatewayRestarts \/ DaemonStarts \/ Fault

Spec == Init /\ [][Next]_vars

-----------------------------------------------------------------------------
(* Properties.                                                             *)

(***************************************************************************)
(* A trust store that can be used is never behind a checkpoint committed   *)
(* before, even after the store was lost (Bootstrap, Accept).              *)
(***************************************************************************)
NoSilentReset == trustFile = "ready" => trust >= floor

(***************************************************************************)
(* On Linux no Setup replaces a release by an older one, however long ago  *)
(* it was staged or started.  (On Windows VerifyPackage comes before the   *)
(* lock: a Setup that was overtaken while it waited may.)                  *)
(***************************************************************************)
NoDowngrade == [][linux => version' >= version]_vars

=============================================================================
