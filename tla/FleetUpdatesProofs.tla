------------------------- MODULE FleetUpdatesProofs -------------------------
(***************************************************************************)
(* Proofs about FleetUpdates, for any releases, compatibility, periods and *)
(* number of Setup processes.                                              *)
(***************************************************************************)
EXTENDS FleetUpdates, TLAPS

\* A check, or a Setup, has a release in hand.
InHand ==
  /\ monitor.pc \notin {"idle", "discover"} => monitor.release \in Release
  /\ \A p \in Setup : setup[p].pc # "none" => setup[p].release \in Release

Creates(p) == setup[p].pc \in {"create", "table"}

\* The trust store is created once, by one process, before anything is
\* accepted.
TrustIsOnce ==
  /\ ~marker => /\ trustFile = "absent" /\ floor = 0
                /\ \A p \in Setup : ~Creates(p)
  /\ \A p \in Setup : Creates(p) => floor = 0 /\ trustFile # "ready"
  /\ \A p, q \in Setup : Creates(p) /\ Creates(q) => p = q
  /\ NoSilentReset

\* On Linux the lock lets one Setup in at a time; what it has verified is no
\* older than what is installed.
OneAtATime ==
  linux =>
    /\ \A p, q \in Setup :
         setup[p].pc # "none" /\ setup[q].pc # "none" => p = q
    /\ version <= floor
    /\ \A p \in Setup : setup[p].pc \in {"stop", "replace"} =>
         version <= setup[p].release /\ setup[p].release <= floor

IInv == TypeOK /\ InHand /\ TrustIsOnce /\ OneAtATime

-----------------------------------------------------------------------------
(* Lemmas.                                                                 *)

SetupProcess == [pc : SetupStep, release : Release \cup {0},
                 automatic : BOOLEAN]

\* One Setup takes a step; the others stay where they are.
LEMMA RunKeeps ==
  ASSUME TypeOK, NEW p \in Setup, NEW pc \in SetupStep, Run(p, pc)
  PROVE  /\ setup' \in [Setup -> SetupProcess]
         /\ setup'[p].pc = pc /\ setup'[p].release = setup[p].release
         /\ \A q \in Setup \ {p} : setup'[q] = setup[q]
BY DEF TypeOK, Run, SetupProcess

\* One Setup becomes another record.
LEMMA BecomesKeeps ==
  ASSUME TypeOK, NEW p \in Setup, NEW s \in SetupProcess,
         setup' = [setup EXCEPT ![p] = s]
  PROVE  /\ setup' \in [Setup -> SetupProcess]
         /\ setup'[p] = s
         /\ \A q \in Setup \ {p} : setup'[q] = setup[q]
BY DEF TypeOK, SetupProcess

LEMMA ExitKeeps ==
  ASSUME TypeOK, NEW p \in Setup, Exit(p)
  PROVE  /\ setup' \in [Setup -> SetupProcess]
         /\ setup'[p].pc = "none"
         /\ \A q \in Setup \ {p} : setup'[q] = setup[q]
<1>1. NoSetup \in SetupProcess
  BY DEF NoSetup, SetupProcess, SetupStep
<1>. QED
  BY <1>1, BecomesKeeps DEF Exit, NoSetup

\* A Setup that ends takes nothing away from the others.
LEMMA ExitIsHarmless ==
  ASSUME IInv, NEW p \in Setup, Exit(p), UNCHANGED <<linux, version, marker>>,
         UNCHANGED <<trustFile, trust, floor>>
  PROVE  TrustIsOnce' /\ OneAtATime'
<1>1. /\ setup'[p].pc = "none"
      /\ \A q \in Setup \ {p} : setup'[q] = setup[q]
  BY ExitKeeps DEF IInv
<1>2. TrustIsOnce'
  BY <1>1 DEF IInv, TrustIsOnce, Creates, NoSilentReset
<1>3. OneAtATime'
  BY <1>1 DEF IInv, OneAtATime
<1>. QED
  BY <1>2, <1>3

\* What leaves trust and Setup alone keeps what is said about them.
LEMMA Elsewhere ==
  ASSUME IInv, UNCHANGED <<linux, version, trustVars, setup>>
  PROVE  TrustIsOnce' /\ OneAtATime'
BY DEF IInv, TrustIsOnce, OneAtATime, Creates, NoSilentReset, trustVars

\* A checkpoint that is offered never lowers the store's.
LEMMA AcceptKeeps ==
  ASSUME TypeOK, NoSilentReset, NEW r \in Release, NEW t \in Nat,
         NEW accepted \in BOOLEAN, Accept(r, t, accepted)
  PROVE  /\ observed' \in Nat /\ {trust', floor'} \subseteq Release \cup {0}
         /\ UNCHANGED <<marker, trustFile>>
         /\ NoSilentReset' /\ floor <= floor'
         /\ trustFile # "ready" => floor' = floor
         /\ accepted => floor <= r /\ r <= floor'
<1>. Release \subseteq Nat
  BY FleetAssumption
<1>. DEFINE seen == Later(observed, t)
<1>. {observed, trust, floor} \subseteq Nat
  BY DEF TypeOK
<1>a. accepted => trustFile = "ready" /\ r >= trust
  BY DEF Accept
<1>b. /\ UNCHANGED <<marker, trustFile>>
      /\ trustFile = "ready" => /\ observed' = seen
                                /\ trust' = IF accepted THEN r ELSE trust
                                /\ floor' = Later(floor, trust')
      /\ trustFile # "ready" => UNCHANGED <<observed, trust, floor>>
  BY DEF Accept
<1>1. CASE trustFile = "ready"
  <2>1. seen \in Nat
    BY DEF Later
  <2>2. trust' \in Release \cup {0} /\ trust <= trust'
    BY <1>1, <1>a, <1>b DEF TypeOK
  <2>. QED
    BY <1>1, <1>a, <1>b, <2>1, <2>2 DEF TypeOK, NoSilentReset, Later
<1>2. CASE trustFile # "ready"
  BY <1>2, <1>a, <1>b DEF TypeOK, NoSilentReset
<1>. QED
  BY <1>1, <1>2

\* The checkpoints and releases are numbers.
LEMMA Numbers ==
  ASSUME TypeOK
  PROVE  /\ version \in Nat /\ trust \in Nat /\ floor \in Nat
         /\ \A p \in Setup : setup[p].release \in Nat
<1>1. Release \cup {0} \subseteq Nat
  BY FleetAssumption
<1>2. \A p \in Setup : setup[p].release \in Release \cup {0}
  BY DEF TypeOK
<1>3. {version, trust, floor} \subseteq Release \cup {0}
  BY DEF TypeOK
<1>. QED
  BY <1>1, <1>2, <1>3

\* A checkpoint that rises disturbs no Setup.
LEMMA FloorRises ==
  ASSUME IInv, UNCHANGED <<linux, version, marker, trustFile, setup>>,
         floor' \in Release \cup {0}, NoSilentReset', floor <= floor',
         trustFile # "ready" => floor' = floor
  PROVE  TrustIsOnce' /\ OneAtATime'
<1>. Release \subseteq Nat
  BY FleetAssumption
<1>1. TrustIsOnce'
  BY DEF IInv, TrustIsOnce, Creates
<1>2. ASSUME linux PROVE OneAtATime'
  <2>1. ASSUME NEW p \in Setup, setup[p].pc \in {"stop", "replace"}
        PROVE  version <= setup[p].release /\ setup[p].release <= floor'
    <3>1. version <= setup[p].release /\ setup[p].release <= floor
      BY <1>2, <2>1 DEF IInv, OneAtATime
    <3>. QED
      BY <3>1, Numbers DEF IInv
  <2>2. version <= floor'
    <3>1. version <= floor
      BY <1>2 DEF IInv, OneAtATime
    <3>. QED
      BY <3>1, Numbers DEF IInv
  <2>. QED
    BY <1>2, <2>1, <2>2 DEF IInv, OneAtATime
<1>. QED
  BY <1>1, <1>2 DEF OneAtATime

LEMMA InitInvariant == Init => IInv
<1> SUFFICES ASSUME Init PROVE IInv
  OBVIOUS
<1>. Release \subseteq Nat /\ MaxActions \in Nat
  BY FleetAssumption
<1>1. monitor \in [pc : MonitorStep, release : Release \cup {0}]
  BY DEF Init, Idle, MonitorStep
<1>2. setup \in [Setup -> [pc : SetupStep, release : Release \cup {0},
                          automatic : BOOLEAN]]
  BY DEF Init, NoSetup, SetupStep
<1>3. TypeOK
  <2>1. /\ {hint, cursor, answer, observed} \subseteq Nat
        /\ {reported, feed, version, trust, floor} \subseteq Release \cup {0}
        /\ active \in 0..MaxActions
    BY DEF Init
  <2>2. /\ {linux, broken, fresh, marker} \subseteq BOOLEAN
        /\ {up, telling, hints, leased} \subseteq BOOLEAN
    BY DEF Init
  <2>3. /\ status \in Statuses \cup {NoStatus}
        /\ package \in [Release -> {"absent", "whole", "damaged"}]
        /\ trustFile \in {"absent", "empty", "ready"}
    BY DEF Init
  <2>. QED
    BY <1>1, <1>2, <2>1, <2>2, <2>3 DEF TypeOK
<1>4. InHand /\ TrustIsOnce /\ OneAtATime
  BY DEF Init, InHand, TrustIsOnce, OneAtATime, Creates, NoSilentReset,
         NoSetup, Idle
<1>. QED
  BY <1>3, <1>4 DEF IInv

LEMMA PeerAnnouncesKeeps == ASSUME IInv, PeerAnnounces PROVE IInv'
<1>. Release \subseteq Nat /\ MaxActions \in Nat
  BY FleetAssumption
<1>1. UNCHANGED <<linux, version, trustVars, setup>>
  BY DEF PeerAnnounces, gatewayVars, diskVars, trustVars, daemonVars
<1>2. TypeOK'
  BY DEF PeerAnnounces, Announce, IInv, InHand, TypeOK, gatewayVars,
     diskVars, trustVars, daemonVars
<1>3. InHand'
  BY DEF PeerAnnounces, Announce, IInv, InHand, TypeOK, gatewayVars,
     diskVars, trustVars, daemonVars
<1>. QED
  BY <1>1, <1>2, <1>3, Elsewhere DEF IInv

LEMMA SaveFailsKeeps == ASSUME IInv, SaveFails PROVE IInv'
<1>. Release \subseteq Nat /\ MaxActions \in Nat
  BY FleetAssumption
<1>1. UNCHANGED <<linux, version, trustVars, setup>>
  BY DEF SaveFails, gatewayVars, diskVars, trustVars, daemonVars
<1>2. TypeOK'
  BY DEF SaveFails, IInv, InHand, TypeOK, gatewayVars, diskVars, trustVars,
     daemonVars
<1>3. InHand'
  BY DEF SaveFails, IInv, InHand, TypeOK, gatewayVars, diskVars, trustVars,
     daemonVars
<1>. QED
  BY <1>1, <1>2, <1>3, Elsewhere DEF IInv

LEMMA GatewayRestartsKeeps == ASSUME IInv, GatewayRestarts PROVE IInv'
<1>. Release \subseteq Nat /\ MaxActions \in Nat
  BY FleetAssumption
<1>1. UNCHANGED <<linux, version, trustVars, setup>>
  BY DEF GatewayRestarts, gatewayVars, diskVars, trustVars, daemonVars
<1>2. TypeOK'
  BY DEF GatewayRestarts, IInv, InHand, TypeOK, gatewayVars, diskVars,
     trustVars, daemonVars
<1>3. InHand'
  BY DEF GatewayRestarts, IInv, InHand, TypeOK, gatewayVars, diskVars,
     trustVars, daemonVars
<1>. QED
  BY <1>1, <1>2, <1>3, Elsewhere DEF IInv

LEMMA RowLostKeeps == ASSUME IInv, RowLost PROVE IInv'
<1>. Release \subseteq Nat /\ MaxActions \in Nat
  BY FleetAssumption
<1>1. UNCHANGED <<linux, version, trustVars, setup>>
  BY DEF RowLost, gatewayVars, diskVars, trustVars, daemonVars
<1>2. TypeOK'
  BY DEF RowLost, IInv, InHand, TypeOK, gatewayVars, diskVars, trustVars,
     daemonVars
<1>3. InHand'
  BY DEF RowLost, IInv, InHand, TypeOK, gatewayVars, diskVars, trustVars,
     daemonVars
<1>. QED
  BY <1>1, <1>2, <1>3, Elsewhere DEF IInv

LEMMA PublishKeeps == ASSUME IInv, NEW r \in Release, Publish(r) PROVE IInv'
<1>. Release \subseteq Nat /\ MaxActions \in Nat
  BY FleetAssumption
<1>1. UNCHANGED <<linux, version, trustVars, setup>>
  BY DEF Publish, gatewayVars, diskVars, trustVars, daemonVars
<1>2. TypeOK'
  BY DEF Publish, IInv, InHand, TypeOK, gatewayVars, diskVars, trustVars,
     daemonVars
<1>3. InHand'
  BY DEF Publish, IInv, InHand, TypeOK, gatewayVars, diskVars, trustVars,
     daemonVars
<1>. QED
  BY <1>1, <1>2, <1>3, Elsewhere DEF IInv

LEMMA SyncKeeps ==
  ASSUME IInv, NEW notify \in BOOLEAN, Sync(notify)
  PROVE  IInv'
<1>. Release \subseteq Nat /\ MaxActions \in Nat
  BY FleetAssumption
<1>1. UNCHANGED <<linux, version, trustVars, setup>>
  BY DEF Sync, gatewayVars, diskVars, trustVars, daemonVars
<1>2. TypeOK'
  BY DEF Sync, Announce, IInv, InHand, TypeOK, gatewayVars, diskVars,
     trustVars, daemonVars
<1>3. InHand'
  BY DEF Sync, Announce, IInv, InHand, TypeOK, gatewayVars, diskVars,
     trustVars, daemonVars
<1>. QED
  BY <1>1, <1>2, <1>3, Elsewhere DEF IInv

LEMMA SyncFailsKeeps == ASSUME IInv, SyncFails PROVE IInv'
<1>. Release \subseteq Nat /\ MaxActions \in Nat
  BY FleetAssumption
<1>1. UNCHANGED <<linux, version, trustVars, setup>>
  BY DEF SyncFails, gatewayVars, diskVars, trustVars, daemonVars
<1>2. TypeOK'
  BY DEF SyncFails, IInv, InHand, TypeOK, gatewayVars, diskVars, trustVars,
     daemonVars
<1>3. InHand'
  BY DEF SyncFails, IInv, InHand, TypeOK, gatewayVars, diskVars, trustVars,
     daemonVars
<1>. QED
  BY <1>1, <1>2, <1>3, Elsewhere DEF IInv

LEMMA SaveCursorKeeps == ASSUME IInv, SaveCursor PROVE IInv'
<1>. Release \subseteq Nat /\ MaxActions \in Nat
  BY FleetAssumption
<1>1. UNCHANGED <<linux, version, trustVars, setup>>
  BY DEF SaveCursor, gatewayVars, diskVars, trustVars, daemonVars
<1>2. TypeOK'
  BY DEF SaveCursor, Later, IInv, InHand, TypeOK, gatewayVars, diskVars,
     trustVars, daemonVars
<1>3. InHand'
  BY DEF SaveCursor, Later, IInv, InHand, TypeOK, gatewayVars, diskVars,
     trustVars, daemonVars
<1>. QED
  BY <1>1, <1>2, <1>3, Elsewhere DEF IInv

LEMMA HintMonitorKeeps == ASSUME IInv, HintMonitor PROVE IInv'
<1>. Release \subseteq Nat /\ MaxActions \in Nat
  BY FleetAssumption
<1>1. UNCHANGED <<linux, version, trustVars, setup>>
  BY DEF HintMonitor, gatewayVars, diskVars, trustVars, daemonVars
<1>2. TypeOK'
  BY DEF HintMonitor, IInv, InHand, TypeOK, gatewayVars, diskVars,
     trustVars, daemonVars
<1>3. InHand'
  BY DEF HintMonitor, IInv, InHand, TypeOK, gatewayVars, diskVars,
     trustVars, daemonVars
<1>. QED
  BY <1>1, <1>2, <1>3, Elsewhere DEF IInv

LEMMA TakeHintKeeps == ASSUME IInv, TakeHint PROVE IInv'
<1>. Release \subseteq Nat /\ MaxActions \in Nat
  BY FleetAssumption
<1>1. UNCHANGED <<linux, version, trustVars, setup>>
  BY DEF TakeHint, NotCoordinating, gatewayVars, diskVars, trustVars,
     daemonVars
<1>2. TypeOK'
  <2>1. monitor' \in [pc : MonitorStep, release : Release \cup {0}]
    BY DEF TakeHint, NotCoordinating, MonitorStep, IInv, TypeOK
  <2>. QED
    BY <2>1 DEF TakeHint, NotCoordinating, IInv, InHand, TypeOK, MonitorStep,
       gatewayVars, diskVars, trustVars, daemonVars
<1>3. InHand'
  BY DEF TakeHint, NotCoordinating, MonitorStep, IInv, InHand, TypeOK,
     gatewayVars, diskVars, trustVars, daemonVars
<1>. QED
  BY <1>1, <1>2, <1>3, Elsewhere DEF IInv

LEMMA TimerFiresKeeps == ASSUME IInv, TimerFires PROVE IInv'
<1>. Release \subseteq Nat /\ MaxActions \in Nat
  BY FleetAssumption
<1>1. UNCHANGED <<linux, version, trustVars, setup>>
  BY DEF TimerFires, NotCoordinating, gatewayVars, diskVars, trustVars,
     daemonVars
<1>2. TypeOK'
  BY DEF TimerFires, NotCoordinating, Proceed, MonitorStep, IInv, InHand,
     TypeOK, gatewayVars, diskVars, trustVars, daemonVars
<1>3. InHand'
  BY DEF TimerFires, NotCoordinating, Proceed, MonitorStep, IInv, InHand,
     TypeOK, gatewayVars, diskVars, trustVars, daemonVars
<1>. QED
  BY <1>1, <1>2, <1>3, Elsewhere DEF IInv

LEMMA CheckFailsKeeps == ASSUME IInv, CheckFails PROVE IInv'
<1>. Release \subseteq Nat /\ MaxActions \in Nat
  BY FleetAssumption
<1>1. UNCHANGED <<linux, version, trustVars, setup>>
  BY DEF CheckFails, NotCoordinating, gatewayVars, diskVars, trustVars,
     daemonVars
<1>2. TypeOK'
  BY DEF CheckFails, EndCheck, Idle, NotCoordinating, MonitorStep, IInv,
     InHand, TypeOK, gatewayVars, diskVars, trustVars, daemonVars
<1>3. InHand'
  BY DEF CheckFails, EndCheck, Idle, NotCoordinating, MonitorStep, IInv,
     InHand, TypeOK, gatewayVars, diskVars, trustVars, daemonVars
<1>. QED
  BY <1>1, <1>2, <1>3, Elsewhere DEF IInv

LEMMA StageKeeps == ASSUME IInv, Stage PROVE IInv'
<1>. Release \subseteq Nat /\ MaxActions \in Nat
  BY FleetAssumption
<1>1. UNCHANGED <<linux, version, trustVars, setup>>
  BY DEF Stage, NotCoordinating, gatewayVars, diskVars, trustVars,
     daemonVars
<1>2. TypeOK'
  BY DEF Stage, EndCheck, Idle, Proceed, NotCoordinating, MonitorStep, IInv,
     InHand, TypeOK, gatewayVars, diskVars, trustVars, daemonVars
<1>3. InHand'
  BY DEF Stage, EndCheck, Idle, Proceed, NotCoordinating, MonitorStep, IInv,
     InHand, TypeOK, gatewayVars, diskVars, trustVars, daemonVars
<1>. QED
  BY <1>1, <1>2, <1>3, Elsewhere DEF IInv

LEMMA BeginUpdateKeeps == ASSUME IInv, BeginUpdate PROVE IInv'
<1>. Release \subseteq Nat /\ MaxActions \in Nat
  BY FleetAssumption
<1>1. UNCHANGED <<linux, version, trustVars, setup>>
  BY DEF BeginUpdate, NotCoordinating, gatewayVars, diskVars, trustVars,
     daemonVars
<1>2. TypeOK'
  <2>1. monitor' \in [pc : MonitorStep, release : Release \cup {0}]
    BY DEF BeginUpdate, EndCheck, Idle, Proceed, NotCoordinating, MonitorStep,
       IInv, TypeOK
  <2>. QED
    BY <2>1 DEF BeginUpdate, NotCoordinating, IInv, InHand, TypeOK,
       MonitorStep, gatewayVars, diskVars, trustVars, daemonVars
<1>3. InHand'
  BY DEF BeginUpdate, EndCheck, Idle, Proceed, NotCoordinating, MonitorStep,
     IInv, InHand, TypeOK, gatewayVars, diskVars, trustVars, daemonVars
<1>. QED
  BY <1>1, <1>2, <1>3, Elsewhere DEF IInv

LEMMA WriteInstallingKeeps == ASSUME IInv, WriteInstalling PROVE IInv'
<1>. Release \subseteq Nat /\ MaxActions \in Nat
  BY FleetAssumption
<1>1. UNCHANGED <<linux, version, trustVars, setup>>
  BY DEF WriteInstalling, NotCoordinating, gatewayVars, diskVars, trustVars,
     daemonVars
<1>2. TypeOK'
  BY DEF WriteInstalling, Proceed, NotCoordinating, MonitorStep, Statuses,
     IInv, InHand, TypeOK, gatewayVars, diskVars, trustVars, daemonVars
<1>3. InHand'
  BY DEF WriteInstalling, Proceed, NotCoordinating, MonitorStep, Statuses,
     IInv, InHand, TypeOK, gatewayVars, diskVars, trustVars, daemonVars
<1>. QED
  BY <1>1, <1>2, <1>3, Elsewhere DEF IInv

LEMMA HandOffFailsKeeps == ASSUME IInv, HandOffFails PROVE IInv'
<1>. Release \subseteq Nat /\ MaxActions \in Nat
  BY FleetAssumption
<1>1. UNCHANGED <<linux, version, trustVars, setup>>
  BY DEF HandOffFails, NotCoordinating, gatewayVars, diskVars, trustVars,
     daemonVars
<1>2. TypeOK'
  <2>1. monitor' \in [pc : MonitorStep, release : Release \cup {0}]
    BY DEF HandOffFails, EndCheck, Idle, NotCoordinating, MonitorStep,
       Statuses, IInv, TypeOK
  <2>2. status' \in Statuses \cup {NoStatus} /\ fresh' \in BOOLEAN
    <3>1. monitor.release \in Release
      BY DEF HandOffFails, IInv, InHand
    <3>2. status \in Statuses \cup {NoStatus} /\ fresh \in BOOLEAN
      BY DEF IInv, TypeOK
    <3>3. CASE UNCHANGED <<status, fresh>>
      BY <3>2, <3>3
    <3>4. CASE /\ status' = [phase |-> "failed", release |-> monitor.release]
               /\ fresh' = TRUE
      BY <3>1, <3>4 DEF Statuses
    <3>. QED
      BY <3>3, <3>4 DEF HandOffFails
  <2>. QED
    BY <2>1, <2>2 DEF HandOffFails, NotCoordinating, IInv, TypeOK,
       gatewayVars, trustVars
<1>3. InHand'
  BY DEF HandOffFails, EndCheck, Idle, NotCoordinating, MonitorStep,
     Statuses, IInv, InHand, TypeOK, gatewayVars, diskVars, trustVars,
     daemonVars
<1>. QED
  BY <1>1, <1>2, <1>3, Elsewhere DEF IInv

LEMMA EnterKeeps == ASSUME IInv, Enter PROVE IInv'
<1>. Release \subseteq Nat /\ MaxActions \in Nat
  BY FleetAssumption
<1>1. UNCHANGED <<linux, version, trustVars, setup>>
  BY DEF Enter, gatewayVars, diskVars, trustVars, daemonVars
<1>2. TypeOK'
  BY DEF Enter, IInv, InHand, TypeOK, gatewayVars, diskVars, trustVars,
     daemonVars
<1>3. InHand'
  BY DEF Enter, IInv, InHand, TypeOK, gatewayVars, diskVars, trustVars,
     daemonVars
<1>. QED
  BY <1>1, <1>2, <1>3, Elsewhere DEF IInv

LEMMA LeaveKeeps == ASSUME IInv, Leave PROVE IInv'
<1>. Release \subseteq Nat /\ MaxActions \in Nat
  BY FleetAssumption
<1>1. UNCHANGED <<linux, version, trustVars, setup>>
  BY DEF Leave, gatewayVars, diskVars, trustVars, daemonVars
<1>2. TypeOK'
  BY DEF Leave, IInv, InHand, TypeOK, gatewayVars, diskVars, trustVars,
     daemonVars
<1>3. InHand'
  BY DEF Leave, IInv, InHand, TypeOK, gatewayVars, diskVars, trustVars,
     daemonVars
<1>. QED
  BY <1>1, <1>2, <1>3, Elsewhere DEF IInv

LEMMA LeaseEndsKeeps == ASSUME IInv, LeaseEnds PROVE IInv'
<1>. Release \subseteq Nat /\ MaxActions \in Nat
  BY FleetAssumption
<1>1. UNCHANGED <<linux, version, trustVars, setup>>
  BY DEF LeaseEnds, gatewayVars, diskVars, trustVars, daemonVars
<1>2. TypeOK'
  BY DEF LeaseEnds, IInv, InHand, TypeOK, gatewayVars, diskVars, trustVars,
     daemonVars
<1>3. InHand'
  BY DEF LeaseEnds, IInv, InHand, TypeOK, gatewayVars, diskVars, trustVars,
     daemonVars
<1>. QED
  BY <1>1, <1>2, <1>3, Elsewhere DEF IInv

LEMMA StatusAgesKeeps == ASSUME IInv, StatusAges PROVE IInv'
<1>. Release \subseteq Nat /\ MaxActions \in Nat
  BY FleetAssumption
<1>1. UNCHANGED <<linux, version, trustVars, setup>>
  BY DEF StatusAges, gatewayVars, diskVars, trustVars, daemonVars
<1>2. TypeOK'
  BY DEF StatusAges, IInv, InHand, TypeOK, gatewayVars, diskVars, trustVars,
     daemonVars
<1>3. InHand'
  BY DEF StatusAges, IInv, InHand, TypeOK, gatewayVars, diskVars, trustVars,
     daemonVars
<1>. QED
  BY <1>1, <1>2, <1>3, Elsewhere DEF IInv

LEMMA DaemonStopsKeeps == ASSUME IInv, DaemonStops PROVE IInv'
<1>. Release \subseteq Nat /\ MaxActions \in Nat
  BY FleetAssumption
<1>1. UNCHANGED <<linux, version, trustVars, setup>>
  BY DEF DaemonStops, gatewayVars, diskVars, trustVars, daemonVars
<1>2. TypeOK'
  <2>1. monitor' \in [pc : MonitorStep, release : Release \cup {0}]
    BY DEF DaemonStops, DaemonEnds, Idle, MonitorStep, IInv, TypeOK
  <2>2. /\ {up', telling', hints', leased'} \subseteq BOOLEAN
        /\ answer' = 0 /\ active' = 0
    BY DEF DaemonStops, DaemonEnds
  <2>. QED
    BY <2>1, <2>2 DEF DaemonStops, IInv, TypeOK, gatewayVars, diskVars,
       trustVars
<1>3. InHand'
  BY DEF DaemonStops, DaemonEnds, Idle, MonitorStep, IInv, InHand, TypeOK,
     gatewayVars, diskVars, trustVars, daemonVars
<1>. QED
  BY <1>1, <1>2, <1>3, Elsewhere DEF IInv

LEMMA DaemonStartsKeeps == ASSUME IInv, DaemonStarts PROVE IInv'
<1>. Release \subseteq Nat /\ MaxActions \in Nat
  BY FleetAssumption
<1>1. UNCHANGED <<linux, version, trustVars, setup>>
  BY DEF DaemonStarts, gatewayVars, diskVars, trustVars, daemonVars
<1>2. TypeOK'
  BY DEF DaemonStarts, IInv, InHand, TypeOK, gatewayVars, diskVars,
     trustVars, daemonVars
<1>3. InHand'
  BY DEF DaemonStarts, IInv, InHand, TypeOK, gatewayVars, diskVars,
     trustVars, daemonVars
<1>. QED
  BY <1>1, <1>2, <1>3, Elsewhere DEF IInv

LEMMA PackageDamagedKeeps ==
  ASSUME IInv, NEW r \in Release, PackageDamaged(r)
  PROVE  IInv'
<1>. Release \subseteq Nat /\ MaxActions \in Nat
  BY FleetAssumption
<1>1. UNCHANGED <<linux, version, trustVars, setup>>
  BY DEF PackageDamaged, gatewayVars, diskVars, trustVars, daemonVars
<1>2. TypeOK'
  BY DEF PackageDamaged, IInv, InHand, TypeOK, gatewayVars, diskVars,
     trustVars, daemonVars
<1>3. InHand'
  BY DEF PackageDamaged, IInv, InHand, TypeOK, gatewayVars, diskVars,
     trustVars, daemonVars
<1>. QED
  BY <1>1, <1>2, <1>3, Elsewhere DEF IInv

\* The monitor and the trust store.

LEMMA DiscoverKeeps ==
  ASSUME IInv, NEW r \in Release, NEW t \in Nat, Discover(r, t)
  PROVE  IInv'
<1>. Release \subseteq Nat
  BY FleetAssumption
<1>1. PICK accepted \in BOOLEAN :
        /\ Accept(r, t, accepted)
        /\ monitor' \in {[pc |-> "apply", release |-> r], Idle}
  BY DEF Discover, EndCheck
<1>2. /\ observed' \in Nat /\ {trust', floor'} \subseteq Release \cup {0}
      /\ UNCHANGED <<marker, trustFile>>
      /\ NoSilentReset' /\ floor <= floor'
      /\ trustFile # "ready" => floor' = floor
  <2>. TypeOK /\ NoSilentReset
    BY DEF IInv, TrustIsOnce
  <2>. QED
    BY <1>1, AcceptKeeps
<1>3. TypeOK'
  <2>1. monitor' \in [pc : MonitorStep, release : Release \cup {0}]
    BY <1>1 DEF Idle, MonitorStep
  <2>. QED
    BY <1>2, <2>1 DEF Discover, NotCoordinating, IInv, TypeOK, gatewayVars
<1>4. InHand'
  BY <1>1 DEF Discover, Idle, IInv, InHand
<1>5. TrustIsOnce' /\ OneAtATime'
  BY <1>2, FloorRises DEF Discover, NotCoordinating, gatewayVars
<1>. QED
  BY <1>3, <1>4, <1>5 DEF IInv

LEMMA VerifyStagedKeeps ==
  ASSUME IInv, NEW t \in Nat, VerifyStaged(t)
  PROVE  IInv'
<1>. Release \subseteq Nat
  BY FleetAssumption
<1>r. monitor.release \in Release
  BY DEF VerifyStaged, IInv, InHand
<1>1. PICK accepted \in BOOLEAN :
        /\ Accept(monitor.release, t, accepted)
        /\ monitor' \in {[monitor EXCEPT !.pc = "gate"], Idle}
  BY DEF VerifyStaged, EndCheck, Proceed
<1>2. /\ observed' \in Nat /\ {trust', floor'} \subseteq Release \cup {0}
      /\ UNCHANGED <<marker, trustFile>>
      /\ NoSilentReset' /\ floor <= floor'
      /\ trustFile # "ready" => floor' = floor
  <2>. TypeOK /\ NoSilentReset
    BY DEF IInv, TrustIsOnce
  <2>. QED
    BY <1>r, <1>1, AcceptKeeps
<1>3. TypeOK'
  <2>1. monitor' \in [pc : MonitorStep, release : Release \cup {0}]
    BY <1>1 DEF Idle, MonitorStep, IInv, TypeOK
  <2>. QED
    BY <1>2, <2>1 DEF VerifyStaged, NotCoordinating, IInv, TypeOK, gatewayVars
<1>4. InHand'
  BY <1>r, <1>1 DEF VerifyStaged, Idle, IInv, InHand, TypeOK
<1>5. TrustIsOnce' /\ OneAtATime'
  BY <1>2, FloorRises DEF VerifyStaged, NotCoordinating, gatewayVars
<1>. QED
  BY <1>3, <1>4, <1>5 DEF IInv

LEMMA TrustLostKeeps == ASSUME IInv, TrustLost PROVE IInv'
<1>1. TypeOK'
  BY DEF TrustLost, IInv, TypeOK, gatewayVars, daemonVars
<1>2. InHand'
  BY DEF TrustLost, IInv, InHand, daemonVars
<1>3. TrustIsOnce'
  BY DEF TrustLost, IInv, TrustIsOnce, Creates, NoSilentReset
<1>4. OneAtATime'
  BY DEF TrustLost, IInv, OneAtATime, gatewayVars
<1>. QED
  BY <1>1, <1>2, <1>3, <1>4 DEF IInv

\* The steps of a Setup.

LEMMA KilledKeeps == ASSUME IInv, NEW p \in Setup, Killed(p) PROVE IInv'
<1>1. Exit(p) /\ OnlySetup /\ UNCHANGED trustVars
  BY DEF Killed
<1>2. /\ setup' \in [Setup -> SetupProcess]
      /\ setup'[p].pc = "none"
      /\ \A q \in Setup \ {p} : setup'[q] = setup[q]
  BY <1>1, ExitKeeps DEF IInv
<1>3. TypeOK'
  BY <1>1, <1>2 DEF OnlySetup, IInv, TypeOK, SetupProcess, gatewayVars,
     trustVars, daemonVars
<1>4. InHand'
  BY <1>1, <1>2 DEF OnlySetup, IInv, InHand, daemonVars
<1>5. TrustIsOnce' /\ OneAtATime'
  BY <1>1, ExitIsHarmless DEF OnlySetup, gatewayVars, trustVars
<1>. QED
  BY <1>3, <1>4, <1>5 DEF IInv

LEMMA ReportKeeps == ASSUME IInv, NEW p \in Setup, Report(p) PROVE IInv'
<1>1. /\ Exit(p)
      /\ UNCHANGED <<gatewayVars, feed, version, cursor, package, trustVars,
                     daemonVars>>
  BY DEF Report
<1>2. /\ setup' \in [Setup -> SetupProcess]
      /\ setup'[p].pc = "none"
      /\ \A q \in Setup \ {p} : setup'[q] = setup[q]
  BY <1>1, ExitKeeps DEF IInv
<1>3. status' \in Statuses \cup {NoStatus} /\ fresh' \in BOOLEAN
  <2>1. status \in Statuses \cup {NoStatus} /\ fresh \in BOOLEAN
    BY DEF IInv, TypeOK
  <2>2. setup[p].release \in Release /\ setup[p].pc \in {"failed", "complete"}
    BY DEF Report, IInv, InHand
  <2>3. [phase |-> setup[p].pc, release |-> setup[p].release] \in Statuses
    BY <2>2 DEF Statuses
  <2>. QED
    BY <2>1, <2>3 DEF Report
<1>4. TypeOK'
  BY <1>1, <1>2, <1>3 DEF IInv, TypeOK, SetupProcess, gatewayVars, trustVars,
     daemonVars
<1>5. InHand'
  BY <1>1, <1>2 DEF IInv, InHand, daemonVars
<1>6. TrustIsOnce' /\ OneAtATime'
  BY <1>1, ExitIsHarmless DEF gatewayVars, trustVars
<1>. QED
  BY <1>4, <1>5, <1>6 DEF IInv

\* A Setup that appears has verified nothing and creates nothing.
LEMMA BeginsKeeps ==
  ASSUME IInv, NEW p \in Setup, NEW s \in SetupProcess,
         setup' = [setup EXCEPT ![p] = s],
         s = NoSetup \/ (s.release \in Release /\ ~Shut(p)),
         setup[p].pc = "none", s.pc \in {"none", "bootstrap", "verify"},
         UNCHANGED <<linux, version, trustVars>>
  PROVE  /\ setup' \in [Setup -> SetupProcess]
         /\ \A q \in Setup : setup'[q].pc # "none" =>
              setup'[q].release \in Release
         /\ TrustIsOnce' /\ OneAtATime'
<1>1. /\ setup' \in [Setup -> SetupProcess]
      /\ setup'[p] = s
      /\ \A q \in Setup \ {p} : setup'[q] = setup[q]
  BY BecomesKeeps DEF IInv
<1>2. \A q \in Setup : setup'[q].pc # "none" => setup'[q].release \in Release
  BY <1>1 DEF IInv, InHand, NoSetup
<1>3. TrustIsOnce'
  BY <1>1 DEF IInv, TrustIsOnce, Creates, NoSilentReset, trustVars
<1>4. OneAtATime'
  BY <1>1 DEF IInv, OneAtATime, NoSetup, Shut, trustVars
<1>. QED
  BY <1>1, <1>2, <1>3, <1>4

LEMMA StartSetupKeeps ==
  ASSUME IInv, NEW p \in Setup, StartSetup(p)
  PROVE  IInv'
<1>. DEFINE started == [pc |-> "verify", release |-> monitor.release,
                        automatic |-> TRUE]
            s == IF Shut(p) THEN NoSetup ELSE started
<1>1. monitor.release \in Release /\ setup[p].pc = "none"
  BY DEF StartSetup, IInv, InHand
<1>2. s \in SetupProcess /\ s.pc \in {"none", "verify"}
  BY <1>1 DEF NoSetup, SetupProcess, SetupStep
<1>3. s = NoSetup \/ (s.release \in Release /\ ~Shut(p))
  BY <1>1
<1>4. setup' = [setup EXCEPT ![p] = s]
  BY DEF StartSetup
<1>5. UNCHANGED <<linux, version, trustVars>>
  BY DEF StartSetup, NotCoordinating, gatewayVars
<1>. HIDE DEF s
<1>6. /\ setup' \in [Setup -> SetupProcess]
      /\ \A q \in Setup : setup'[q].pc # "none" =>
           setup'[q].release \in Release
      /\ TrustIsOnce' /\ OneAtATime'
  BY <1>1, <1>2, <1>3, <1>4, <1>5, BeginsKeeps
<1>7. monitor' = Idle /\ Idle \in [pc : MonitorStep,
                                   release : Release \cup {0}]
  BY DEF StartSetup, EndCheck, Idle, MonitorStep
<1>8. TypeOK'
  BY <1>6, <1>7 DEF StartSetup, NotCoordinating, IInv, TypeOK, SetupProcess,
     gatewayVars, trustVars
<1>9. InHand'
  BY <1>6, <1>7 DEF InHand, Idle
<1>. QED
  BY <1>6, <1>8, <1>9 DEF IInv

LEMMA InstallByHandKeeps ==
  ASSUME IInv, NEW p \in Setup, NEW r \in Release, InstallByHand(p, r)
  PROVE  IInv'
<1>. DEFINE s == [pc |-> "bootstrap", release |-> r, automatic |-> FALSE]
<1>1. /\ s \in SetupProcess /\ s.pc = "bootstrap" /\ s.release \in Release
      /\ ~Shut(p) /\ setup[p].pc = "none"
      /\ setup' = [setup EXCEPT ![p] = s]
      /\ UNCHANGED <<linux, version, trustVars>>
  BY DEF InstallByHand, OnlySetup, gatewayVars, SetupProcess, SetupStep
<1>. HIDE DEF s
<1>2. /\ setup' \in [Setup -> SetupProcess]
      /\ \A q \in Setup : setup'[q].pc # "none" =>
           setup'[q].release \in Release
      /\ TrustIsOnce' /\ OneAtATime'
  BY <1>1, BeginsKeeps
<1>3. TypeOK'
  BY <1>2 DEF InstallByHand, OnlySetup, IInv, TypeOK, SetupProcess,
     gatewayVars, trustVars, daemonVars
<1>4. InHand'
  BY <1>2 DEF InstallByHand, OnlySetup, IInv, InHand, daemonVars
<1>. QED
  BY <1>2, <1>3, <1>4 DEF IInv

LEMMA BootstrapKeeps == ASSUME IInv, NEW p \in Setup, Bootstrap(p) PROVE IInv'
<1>1. /\ setup[p].pc = "bootstrap"
      /\ OnlySetup /\ UNCHANGED <<trustFile, trust, observed, floor>>
      /\ marker' \in BOOLEAN
  BY DEF Bootstrap, IInv, TypeOK
<1>2. CASE Run(p, "verify") /\ UNCHANGED marker
  <2>. "verify" \in SetupStep
    BY DEF SetupStep
  <2>1. /\ setup' \in [Setup -> SetupProcess]
        /\ setup'[p].pc = "verify" /\ setup'[p].release = setup[p].release
        /\ \A q \in Setup \ {p} : setup'[q] = setup[q]
    BY <1>2, RunKeeps DEF IInv
  <2>2. TypeOK'
    BY <1>1, <2>1 DEF OnlySetup, IInv, TypeOK, SetupProcess, gatewayVars,
       daemonVars
  <2>3. InHand'
    BY <1>1, <2>1 DEF OnlySetup, IInv, InHand, daemonVars
  <2>4. TrustIsOnce'
    BY <1>1, <1>2, <2>1 DEF IInv, TrustIsOnce, Creates, NoSilentReset
  <2>5. OneAtATime'
    BY <1>1, <2>1 DEF OnlySetup, IInv, OneAtATime, gatewayVars
  <2>. QED
    BY <2>2, <2>3, <2>4, <2>5 DEF IInv
<1>3. CASE Exit(p) /\ UNCHANGED marker
  <2>1. /\ setup' \in [Setup -> SetupProcess]
        /\ setup'[p].pc = "none"
        /\ \A q \in Setup \ {p} : setup'[q] = setup[q]
    BY <1>3, ExitKeeps DEF IInv
  <2>2. TypeOK'
    BY <1>1, <2>1 DEF OnlySetup, IInv, TypeOK, SetupProcess, gatewayVars,
       daemonVars
  <2>3. InHand'
    BY <1>1, <2>1 DEF OnlySetup, IInv, InHand, daemonVars
  <2>4. TrustIsOnce' /\ OneAtATime'
    BY <1>1, <1>3, ExitIsHarmless DEF OnlySetup, gatewayVars
  <2>. QED
    BY <2>2, <2>3, <2>4 DEF IInv
<1>4. CASE /\ ~marker /\ marker' = TRUE
           /\ Run(p, "create")
  <2>. "create" \in SetupStep
    BY DEF SetupStep
  <2>1. /\ setup' \in [Setup -> SetupProcess]
        /\ setup'[p].pc = "create" /\ setup'[p].release = setup[p].release
        /\ \A q \in Setup \ {p} : setup'[q] = setup[q]
    BY <1>4, RunKeeps DEF IInv
  <2>2. TypeOK'
    BY <1>1, <2>1 DEF OnlySetup, IInv, TypeOK, SetupProcess, gatewayVars,
       daemonVars
  <2>3. InHand'
    BY <1>1, <2>1 DEF OnlySetup, IInv, InHand, daemonVars
  <2>4. TrustIsOnce'
    BY <1>1, <1>4, <2>1 DEF IInv, TrustIsOnce, Creates, NoSilentReset
  <2>5. OneAtATime'
    BY <1>1, <2>1 DEF OnlySetup, IInv, OneAtATime, gatewayVars
  <2>. QED
    BY <2>2, <2>3, <2>4, <2>5 DEF IInv
<1>. QED
  BY <1>2, <1>3, <1>4 DEF Bootstrap

LEMMA CreateTrustKeeps ==
  ASSUME IInv, NEW p \in Setup, CreateTrust(p)
  PROVE  IInv'
<1>1. /\ setup[p].pc = "create"
      /\ OnlySetup /\ UNCHANGED <<marker, trust, observed, floor>>
  BY DEF CreateTrust
<1>2. CASE trustFile' = "empty" /\ Run(p, "table")
  <2>. "table" \in SetupStep
    BY DEF SetupStep
  <2>1. /\ setup' \in [Setup -> SetupProcess]
        /\ setup'[p].pc = "table" /\ setup'[p].release = setup[p].release
        /\ \A q \in Setup \ {p} : setup'[q] = setup[q]
    BY <1>2, RunKeeps DEF IInv
  <2>2. TypeOK'
    BY <1>1, <1>2, <2>1 DEF OnlySetup, IInv, TypeOK, SetupProcess,
       gatewayVars, daemonVars
  <2>3. InHand'
    BY <1>1, <2>1 DEF OnlySetup, IInv, InHand, daemonVars
  <2>4. TrustIsOnce'
    BY <1>1, <1>2, <2>1 DEF IInv, TrustIsOnce, Creates, NoSilentReset
  <2>5. OneAtATime'
    BY <1>1, <2>1 DEF OnlySetup, IInv, OneAtATime, gatewayVars
  <2>. QED
    BY <2>2, <2>3, <2>4, <2>5 DEF IInv
<1>3. CASE Exit(p) /\ UNCHANGED trustFile
  <2>1. /\ setup' \in [Setup -> SetupProcess]
        /\ setup'[p].pc = "none"
        /\ \A q \in Setup \ {p} : setup'[q] = setup[q]
    BY <1>3, ExitKeeps DEF IInv
  <2>2. TypeOK'
    BY <1>1, <1>3, <2>1 DEF OnlySetup, IInv, TypeOK, SetupProcess,
       gatewayVars, daemonVars
  <2>3. InHand'
    BY <1>1, <2>1 DEF OnlySetup, IInv, InHand, daemonVars
  <2>4. TrustIsOnce' /\ OneAtATime'
    BY <1>1, <1>3, ExitIsHarmless DEF OnlySetup, gatewayVars
  <2>. QED
    BY <2>2, <2>3, <2>4 DEF IInv
<1>. QED
  BY <1>2, <1>3 DEF CreateTrust

LEMMA FillTrustKeeps == ASSUME IInv, NEW p \in Setup, FillTrust(p) PROVE IInv'
<1>1. /\ setup[p].pc = "table"
      /\ OnlySetup /\ UNCHANGED <<marker, floor>>
  BY DEF FillTrust
<1>2. CASE /\ trustFile' = "ready" /\ trust' = 0 /\ observed' = 0
           /\ Run(p, "verify")
  <2>. "verify" \in SetupStep
    BY DEF SetupStep
  <2>1. /\ setup' \in [Setup -> SetupProcess]
        /\ setup'[p].pc = "verify" /\ setup'[p].release = setup[p].release
        /\ \A q \in Setup \ {p} : setup'[q] = setup[q]
    BY <1>2, RunKeeps DEF IInv
  <2>2. TypeOK'
    BY <1>1, <1>2, <2>1 DEF OnlySetup, IInv, TypeOK, SetupProcess,
       gatewayVars, daemonVars
  <2>3. InHand'
    BY <1>1, <2>1 DEF OnlySetup, IInv, InHand, daemonVars
  <2>4. TrustIsOnce'
    BY <1>1, <1>2, <2>1 DEF IInv, TrustIsOnce, Creates, NoSilentReset
  <2>5. OneAtATime'
    BY <1>1, <2>1 DEF OnlySetup, IInv, OneAtATime, gatewayVars
  <2>. QED
    BY <2>2, <2>3, <2>4, <2>5 DEF IInv
<1>3. CASE Exit(p) /\ UNCHANGED <<trustFile, trust, observed>>
  <2>1. /\ setup' \in [Setup -> SetupProcess]
        /\ setup'[p].pc = "none"
        /\ \A q \in Setup \ {p} : setup'[q] = setup[q]
    BY <1>3, ExitKeeps DEF IInv
  <2>2. TypeOK'
    BY <1>1, <1>3, <2>1 DEF OnlySetup, IInv, TypeOK, SetupProcess,
       gatewayVars, daemonVars
  <2>3. InHand'
    BY <1>1, <2>1 DEF OnlySetup, IInv, InHand, daemonVars
  <2>4. TrustIsOnce' /\ OneAtATime'
    BY <1>1, <1>3, ExitIsHarmless DEF OnlySetup, gatewayVars
  <2>. QED
    BY <2>2, <2>3, <2>4 DEF IInv
<1>. QED
  BY <1>2, <1>3 DEF FillTrust

LEMMA VerifyKeeps ==
  ASSUME IInv, NEW p \in Setup, NEW t \in Nat, Verify(p, t)
  PROVE  IInv'
<1>. Release \subseteq Nat
  BY FleetAssumption
<1>1. /\ setup[p].pc = "verify" /\ OnlySetup
      /\ setup[p].release \in Release
  BY DEF Verify, IInv, InHand
<1>2. PICK accepted \in BOOLEAN :
        /\ Accept(setup[p].release, t, accepted)
        /\ (accepted /\ Run(p, "stop")) \/ Exit(p)
  BY DEF Verify
<1>3. /\ observed' \in Nat /\ {trust', floor'} \subseteq Release \cup {0}
      /\ UNCHANGED <<marker, trustFile>>
      /\ NoSilentReset' /\ floor <= floor'
      /\ trustFile # "ready" => floor' = floor
      /\ accepted => floor <= setup[p].release /\ setup[p].release <= floor'
  <2>. TypeOK /\ NoSilentReset
    BY DEF IInv, TrustIsOnce
  <2>. QED
    BY <1>1, <1>2, AcceptKeeps
<1>. "stop" \in SetupStep
  BY DEF SetupStep
<1>4. /\ setup' \in [Setup -> SetupProcess]
      /\ \/ setup'[p].pc = "none"
         \/ /\ setup'[p].pc = "stop" /\ setup'[p].release = setup[p].release
            /\ accepted
      /\ \A q \in Setup \ {p} : setup'[q] = setup[q]
  BY <1>2, RunKeeps, ExitKeeps DEF IInv
<1>5. TypeOK'
  BY <1>1, <1>3, <1>4 DEF OnlySetup, IInv, TypeOK, SetupProcess, gatewayVars,
     daemonVars
<1>6. InHand'
  BY <1>1, <1>4 DEF OnlySetup, IInv, InHand, daemonVars
<1>7. TrustIsOnce'
  BY <1>1, <1>3, <1>4 DEF IInv, TrustIsOnce, Creates
<1>8. ASSUME linux PROVE OneAtATime'
  <2>1. /\ UNCHANGED <<linux, version>>
        /\ version <= floor
        /\ \A q \in Setup : setup[q].pc # "none" => q = p
    BY <1>1, <1>8 DEF OnlySetup, gatewayVars, IInv, OneAtATime
  <2>2. /\ version \in Nat /\ floor \in Nat /\ floor' \in Nat
        /\ setup[p].release \in Nat
    <3>0. floor' \in Release \cup {0}
      BY <1>3
    <3>1. floor' \in Nat
      BY <3>0
    <3>. QED
      BY <3>1, Numbers DEF IInv
  <2>3. version' <= floor' /\ (accepted => version <= setup[p].release)
    BY <1>3, <2>1, <2>2
  <2>. QED
    BY <1>3, <1>4, <2>1, <2>3 DEF OneAtATime
<1>9. OneAtATime'
  BY <1>1, <1>8 DEF OnlySetup, gatewayVars, OneAtATime
<1>. QED
  BY <1>5, <1>6, <1>7, <1>9 DEF IInv

\* Nothing of trust and versions changes while Setup stops the daemon, or
\* gives up.
LEMMA RunsOn ==
  ASSUME IInv, NEW p \in Setup, NEW pc \in {"replace", "failed"}, Run(p, pc),
         setup[p].pc \in {"stop", "replace"},
         UNCHANGED <<linux, version, marker, trustFile, trust, floor>>
  PROVE  /\ setup' \in [Setup -> SetupProcess]
         /\ \A q \in Setup : setup'[q].pc # "none" =>
              setup'[q].release \in Release
         /\ TrustIsOnce' /\ OneAtATime'
<1>1. /\ setup' \in [Setup -> SetupProcess]
      /\ setup'[p].pc = pc /\ setup'[p].release = setup[p].release
      /\ \A q \in Setup \ {p} : setup'[q] = setup[q]
  BY RunKeeps DEF IInv, SetupStep
<1>2. \A q \in Setup : setup'[q].pc # "none" => setup'[q].release \in Release
  BY <1>1 DEF IInv, InHand
<1>3. TrustIsOnce'
  BY <1>1 DEF IInv, TrustIsOnce, Creates, NoSilentReset
<1>4. OneAtATime'
  BY <1>1 DEF IInv, OneAtATime
<1>. QED
  BY <1>1, <1>2, <1>3, <1>4

LEMMA StopDaemonKeeps ==
  ASSUME IInv, NEW p \in Setup, StopDaemon(p)
  PROVE  IInv'
<1>1. /\ setup[p].pc = "stop"
      /\ UNCHANGED <<gatewayVars, feed, diskVars>>
  BY DEF StopDaemon
<1>2. PICK pc \in {"replace", "failed"} : Run(p, pc)
  BY DEF StopDaemon
<1>3. /\ setup' \in [Setup -> SetupProcess]
      /\ \A q \in Setup : setup'[q].pc # "none" =>
           setup'[q].release \in Release
      /\ TrustIsOnce' /\ OneAtATime'
  BY <1>1, <1>2, RunsOn DEF gatewayVars, diskVars, trustVars
<1>4. CASE UNCHANGED daemonVars
  <2>1. TypeOK'
    BY <1>1, <1>3, <1>4 DEF IInv, TypeOK, SetupProcess, gatewayVars, diskVars,
       trustVars, daemonVars
  <2>2. InHand'
    BY <1>3, <1>4 DEF IInv, InHand, daemonVars
  <2>. QED
    BY <1>3, <2>1, <2>2 DEF IInv
<1>5. CASE DaemonEnds
  <2>1. /\ {up', telling', hints', leased'} \subseteq BOOLEAN
        /\ answer' = 0 /\ active' = 0 /\ monitor' = Idle
    BY <1>5 DEF DaemonEnds
  <2>2. Idle \in [pc : MonitorStep, release : Release \cup {0}]
    BY DEF Idle, MonitorStep
  <2>3. TypeOK'
    <3>. 0 \in 0..MaxActions
      BY FleetAssumption
    <3>. QED
      BY <1>1, <1>3, <2>1, <2>2 DEF IInv, TypeOK, SetupProcess, gatewayVars,
         diskVars, trustVars
  <2>4. InHand'
    BY <1>3, <2>1 DEF InHand, Idle
  <2>. QED
    BY <1>3, <2>3, <2>4 DEF IInv
<1>. QED
  BY <1>4, <1>5 DEF StopDaemon

LEMMA ReplaceFailsKeeps ==
  ASSUME IInv, NEW p \in Setup, ReplaceFails(p)
  PROVE  IInv'
<1>1. /\ setup[p].pc \in {"stop", "replace"}
      /\ Run(p, "failed") /\ up' \in BOOLEAN
      /\ UNCHANGED <<gatewayVars, feed, diskVars, answer, telling, hints,
                     monitor, leased, active>>
  BY DEF ReplaceFails, IInv, TypeOK
<1>2. /\ setup' \in [Setup -> SetupProcess]
      /\ \A q \in Setup : setup'[q].pc # "none" =>
           setup'[q].release \in Release
      /\ TrustIsOnce' /\ OneAtATime'
  BY <1>1, RunsOn DEF gatewayVars, diskVars, trustVars
<1>3. TypeOK'
  BY <1>1, <1>2 DEF IInv, TypeOK, SetupProcess, gatewayVars, diskVars,
     trustVars
<1>4. InHand'
  BY <1>1, <1>2 DEF IInv, InHand
<1>. QED
  BY <1>2, <1>3, <1>4 DEF IInv

LEMMA ReplaceKeeps == ASSUME IInv, NEW p \in Setup, Replace(p) PROVE IInv'
<1>1. /\ setup[p].pc = "replace"
      /\ version' = setup[p].release /\ up' = TRUE
      /\ Run(p, "complete")
      /\ UNCHANGED <<gatewayVars, feed, cursor, status, fresh, package,
                     trustVars, answer, telling, hints, monitor, leased,
                     active>>
  BY DEF Replace
<1>. "complete" \in SetupStep
  BY DEF SetupStep
<1>2. /\ setup' \in [Setup -> SetupProcess]
      /\ setup'[p].pc = "complete" /\ setup'[p].release = setup[p].release
      /\ \A q \in Setup \ {p} : setup'[q] = setup[q]
  BY <1>1, RunKeeps DEF IInv
<1>3. setup[p].release \in Release
  BY <1>1 DEF IInv, InHand
<1>4. TypeOK'
  BY <1>1, <1>2, <1>3 DEF IInv, TypeOK, SetupProcess, gatewayVars, trustVars
<1>5. InHand'
  BY <1>1, <1>2 DEF IInv, InHand
<1>6. TrustIsOnce'
  BY <1>1, <1>2 DEF IInv, TrustIsOnce, Creates, NoSilentReset, trustVars
<1>7. OneAtATime'
  BY <1>1, <1>2 DEF IInv, OneAtATime, gatewayVars, trustVars
<1>. QED
  BY <1>4, <1>5, <1>6, <1>7 DEF IInv

-----------------------------------------------------------------------------
(* Every step.                                                             *)

LEMMA StepInvariant == IInv /\ [Next]_vars => IInv'
<1> SUFFICES ASSUME IInv, [Next]_vars PROVE IInv'
  OBVIOUS
<1>. Times \subseteq Nat
  BY FleetAssumption DEF Times
<1>1. CASE Asked
  BY <1>1, PeerAnnouncesKeeps, SyncKeeps, HintMonitorKeeps, EnterKeeps,
     InstallByHandKeeps DEF Asked
<1>2. CASE Coordination
  BY <1>2, SyncKeeps, SaveCursorKeeps, HintMonitorKeeps DEF Coordination
<1>3. CASE Monitor(Times)
  BY <1>3, TakeHintKeeps, TimerFiresKeeps, StageKeeps, BeginUpdateKeeps,
     WriteInstallingKeeps, VerifyStagedKeeps, DiscoverKeeps, StartSetupKeeps
     DEF Monitor
<1>4. CASE Install(Times)
  BY <1>4, BootstrapKeeps, CreateTrustKeeps, FillTrustKeeps, StopDaemonKeeps,
     ReplaceKeeps, ReportKeeps, VerifyKeeps DEF Install
<1>5. CASE Leave \/ TimePasses \/ GatewayRestarts \/ DaemonStarts
  BY <1>5, LeaveKeeps, LeaseEndsKeeps, StatusAgesKeeps, GatewayRestartsKeeps,
     DaemonStartsKeeps DEF TimePasses
<1>6. CASE \E r \in Release : Publish(r)
  BY <1>6, PublishKeeps
<1>7. CASE Fault
  BY <1>7, SaveFailsKeeps, RowLostKeeps, SyncFailsKeeps, CheckFailsKeeps,
     HandOffFailsKeeps, DaemonStopsKeeps, TrustLostKeeps, PackageDamagedKeeps,
     KilledKeeps, ReplaceFailsKeeps DEF Fault
<1>8. CASE UNCHANGED vars
  <2>1. UNCHANGED <<linux, version, trustVars, setup>>
    BY <1>8 DEF vars, gatewayVars, diskVars
  <2>2. TypeOK' /\ InHand'
    BY <1>8 DEF vars, gatewayVars, diskVars, trustVars, daemonVars, IInv,
       TypeOK, InHand
  <2>. QED
    BY <2>1, <2>2, Elsewhere DEF IInv
<1>. QED
  BY <1>1, <1>2, <1>3, <1>4, <1>5, <1>6, <1>7, <1>8 DEF Next

-----------------------------------------------------------------------------
(* Theorems.                                                               *)

\* The inductive invariant holds in every state that can be reached.
THEOREM Invariance == Spec => []IInv
<1>. QED
  BY InitInvariant, StepInvariant, PTL DEF Spec

\* The variables of the update system always have their types.
THEOREM TypeCorrect == Spec => []TypeOK
<1>1. IInv => TypeOK
  BY DEF IInv
<1>. QED
  BY <1>1, Invariance, PTL

\* A trust store that was lost is never begun again below a checkpoint it
\* once had (Bootstrap with its marker, CreateTrust, FillTrust).
THEOREM NothingForgotten == Spec => []NoSilentReset
<1>1. IInv => NoSilentReset
  BY DEF IInv, TrustIsOnce
<1>. QED
  BY <1>1, Invariance, PTL

\* On Linux the version installed only rises, whichever Setups, by hand or
\* automatic, are started, overtaken or killed.
THEOREM VersionRises == Spec => NoDowngrade
<1>1. ASSUME IInv, [Next]_vars
      PROVE  [linux => version' >= version]_vars
  <2>1. version \in Nat
    BY <1>1, Numbers DEF IInv
  <2>2. ASSUME NEW p \in Setup, linux, Replace(p) PROVE version' >= version
    <3>1. version <= setup[p].release /\ version' = setup[p].release
      BY <1>1, <2>2 DEF IInv, OneAtATime, Replace
    <3>. setup[p].release \in Nat
      BY <1>1, Numbers DEF IInv
    <3>. QED
      BY <2>1, <3>1
  <2>3. CASE \A p \in Setup : ~Replace(p)
    <3>1. UNCHANGED version
      BY <1>1, <2>3 DEF Next, Asked, Coordination, Monitor, Install,
         TimePasses, Fault, PeerAnnounces, Sync, HintMonitor, Enter,
         InstallByHand, SaveCursor, TakeHint, TimerFires, Stage, BeginUpdate,
         WriteInstalling, VerifyStaged, Discover, StartSetup, Bootstrap,
         CreateTrust, FillTrust, StopDaemon, Report, Verify, Leave, LeaseEnds,
         StatusAges, Publish, GatewayRestarts, DaemonStarts, SaveFails,
         RowLost, SyncFails, CheckFails, HandOffFails, DaemonStops, TrustLost,
         PackageDamaged, Killed, ReplaceFails, OnlySetup, NotCoordinating,
         diskVars, vars
    <3>. QED
      BY <2>1, <3>1
  <2>. QED
    BY <2>2, <2>3
<1>. QED
  BY <1>1, Invariance, PTL DEF Spec, NoDowngrade

=============================================================================
