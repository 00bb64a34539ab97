---------------------------- MODULE LinuxUpgrade ----------------------------
(***************************************************************************)
(* The update of the managed Linux programs: linuxinstaller.Upgrade and    *)
(* Recover (internal/linuxinstaller/install.go) as cmd/pfremote-update     *)
(* runs them, and the user service they restart.                           *)
(*                                                                         *)
(* One process at a time holds the lock file, setup here: an update, or    *)
(* the recovery that runs before the service starts.  Each of its file     *)
(* operations is a step, which can fail, and between any two of them the   *)
(* process or the computer can stop.  A file written in place can be left  *)
(* Torn; one that is written aside, synced and renamed cannot.             *)
(* systemd starts the service by the unit it has loaded, which follows the *)
(* drop-in file only at a daemon-reload and at boot.                       *)
(*                                                                         *)
(* Simplifications.                                                        *)
(*  - A program is the release it belongs to.  A package that passes       *)
(*    VerifyPackage is complete, and no older than any accepted before.    *)
(*  - Directory operations reach the disk in the order of the calls.       *)
(*  - What is written in place is on the disk when its write has returned, *)
(*    for a new helper, and when its update has ended, for the drop-in.    *)
(*  - The phase "installing", which the daemon writes, is left out.        *)
(***************************************************************************)
EXTENDS Naturals, Sequences

CONSTANTS
  Release,     \* sequence numbers of the packages there are
  Original,    \* a program installed by other means
  Missing,     \* no file
  Torn,        \* a file whose writing did not end
  Down,        \* the service is stopped
  PreStarted   \* the service is past ExecStartPre, not yet started

names == <<"pfremote", "pfremoted", "pfremote-update">>
Name == {"pfremote", "pfremoted", "pfremote-update"}
Daemon == "pfremoted"
Helper == "pfremote-update"

Runnable == Release \cup {Original}
Version == Runnable \cup {Missing, Torn}

ASSUME LinuxUpgradeAssumption ==
  /\ Release \subseteq Nat \ {0}
  /\ {Original, Missing, Torn, Down, PreStarted} \cap Nat = {}
  /\ Original \notin {Missing, Torn, Down, PreStarted}
  /\ Missing # Torn
  /\ Down # PreStarted

VARIABLES
  bin,       \* the programs in the managed directory
  backup,    \* the copies in its directory .update
  pending,   \* .update/pending.json
  dropIn,    \* updates.conf, which has the ExecStartPre line
  unit,      \* the unit that systemd has loaded has that line
  service,
  accepted,  \* trust store: highest sequence accepted
  status,    \* status-v1.json
  setup      \* the process that holds the lock

files == <<bin, backup, pending, dropIn>>
vars == <<files, unit, service, accepted, status, setup>>

NoSetup ==
  [pc |-> "none", purpose |-> "upgrade", release |-> 0, next |-> 1,
   existing |-> {}, phase |-> "failed"]

NoJournal == [state |-> "none", existing |-> {}]

(***************************************************************************)
(* What recovery leaves in place of each program.                          *)
(***************************************************************************)
Installed ==
  IF pending.state = "written"
  THEN [n \in Name |-> IF n \in pending.existing THEN backup[n] ELSE Missing]
  ELSE bin

Step ==
  {"none", "helper", "helperData", "dropIn", "dropInData", "reload", "restore",
   "restored", "backup", "journal", "sync", "copy", "restart", "check",
   "commit", "report"}

Process ==
  [pc : Step, purpose : {"prestart", "upgrade", "rollback"}, release : Nat,
   next : 1 .. 3, existing : SUBSET Name, phase : {"failed", "complete"}]

TypeOK ==
  /\ bin \in [Name -> Version]
  /\ backup \in [Name -> Version]
  /\ pending \in [state : {"none", "torn", "written"}, existing : SUBSET Name]
  /\ dropIn \in {"none", "torn", "written"}
  /\ unit \in BOOLEAN
  /\ service \in Runnable \cup {Down, PreStarted}
  /\ accepted \in Nat
  /\ status \in [phase : {"none", "failed", "complete"}, release : Nat]
  /\ setup \in Process

\* An installation made by other means, with no helper.
Init ==
  /\ \E cli \in {Original, Missing} :
       bin = [n \in Name |-> CASE n = Daemon -> Original
                               [] n = Helper -> Missing
                               [] OTHER -> cli]
  /\ backup = [n \in Name |-> Missing]
  /\ pending = NoJournal
  /\ dropIn = "none" /\ unit = FALSE
  /\ service \in {Original, Down}
  /\ accepted = 0
  /\ status = [phase |-> "none", release |-> 0]
  /\ setup = NoSetup

-----------------------------------------------------------------------------
(* Steps of the process.                                                   *)

At(pc) == setup.pc = pc

GoTo(pc) == setup' = [setup EXCEPT !.pc = pc, !.next = 1]

\* Faulty variant: the loop runs one program past the end.
AdvancePastEnd(pc) ==
  IF setup.next > Len(names)
  THEN GoTo(pc)
  ELSE setup' = [setup EXCEPT !.next = setup.next + 1]

\* The next program of a loop over names, or what follows the loop.
Advance(pc) ==
  IF setup.next = Len(names)
  THEN GoTo(pc)
  ELSE setup' = [setup EXCEPT !.next = setup.next + 1]

\* An error return: an update reports, a recovery just exits.
Fail ==
  IF setup.purpose = "prestart" THEN setup' = NoSetup ELSE GoTo("report")

\* rollback: Recover, then activate the previous programs.
Rollback ==
  setup' = [setup EXCEPT !.pc = "restore", !.purpose = "rollback", !.next = 1]

StartUpdate(r) ==
  /\ At("none")
  /\ r >= accepted
  /\ accepted' = r
  /\ setup' = [NoSetup EXCEPT !.pc = "helper", !.release = r]
  /\ UNCHANGED <<files, unit, service, status>>

\* Faulty variant: the helper is left to the copies that come later.
CreateHelperLater ==
  /\ At("helper")
  /\ GoTo("dropIn")
  /\ UNCHANGED <<files, unit, service, accepted, status>>

CreateHelper ==
  /\ At("helper")
  /\ \/ /\ bin[Helper] # Missing
        /\ GoTo("dropIn")
        /\ UNCHANGED bin
     \/ /\ bin[Helper] = Missing
        /\ bin' = [bin EXCEPT ![Helper] = Torn]
        /\ GoTo("helperData")
  /\ UNCHANGED <<backup, pending, dropIn, unit, service, accepted, status>>

WriteHelper ==
  /\ At("helperData")
  /\ bin' = [bin EXCEPT ![Helper] = setup.release]
  /\ GoTo("dropIn")
  /\ UNCHANGED <<backup, pending, dropIn, unit, service, accepted, status>>

\* updates.conf is written in place, at every update.
TruncateDropIn ==
  /\ At("dropIn")
  /\ dropIn' = "torn"
  /\ GoTo("dropInData")
  /\ UNCHANGED <<bin, backup, pending, unit, service, accepted, status>>

WriteDropIn ==
  /\ At("dropInData")
  /\ dropIn' = "written"
  /\ GoTo("reload")
  /\ UNCHANGED <<bin, backup, pending, unit, service, accepted, status>>

\* Faulty variant: Upgrade does not finish an earlier transaction first.
ReloadOnly ==
  /\ At("reload")
  /\ unit' = (dropIn = "written")
  /\ GoTo("backup") \/ Fail
  /\ UNCHANGED <<files, service, accepted, status>>

\* daemon-reload, which can fail before systemd has done it or afterwards.
Reload ==
  /\ At("reload")
  /\ \/ unit' = (dropIn = "written") /\ GoTo("restore")
     \/ unit' \in {unit, dropIn = "written"} /\ Fail
  /\ UNCHANGED <<files, service, accepted, status>>

\* Recover puts every program back before it removes the journal.
RestoreName ==
  /\ At("restore") /\ pending.state = "written"
  /\ bin' = [bin EXCEPT ![names[setup.next]] = Installed[names[setup.next]]]
  /\ Advance("restored")
  /\ UNCHANGED <<backup, pending, dropIn, unit, service, accepted, status>>

RecoverDone ==
  /\ At("restored") \/ (At("restore") /\ pending.state = "none")
  /\ pending' = NoJournal
  /\ CASE setup.purpose = "prestart" -> setup' = NoSetup
       [] setup.purpose = "upgrade"  -> GoTo("backup")
       [] setup.purpose = "rollback" -> GoTo("restart")
  /\ service' = IF setup.purpose = "prestart" THEN PreStarted ELSE service
  /\ UNCHANGED <<bin, backup, dropIn, unit, accepted, status>>

BackUp ==
  /\ At("backup")
  /\ LET n == names[setup.next]
         goOn(existing) ==
           setup' = [setup EXCEPT !.existing = existing,
                       !.pc = IF setup.next = Len(names) THEN "journal" ELSE @,
                       !.next = IF @ = Len(names) THEN 1 ELSE @ + 1]
     IN  IF bin[n] = Missing
         THEN /\ goOn(setup.existing)
              /\ UNCHANGED backup
         ELSE /\ goOn(setup.existing \cup {n})
              /\ backup' = [backup EXCEPT ![n] = bin[n]]
  /\ UNCHANGED <<bin, pending, dropIn, unit, service, accepted, status>>

\* The journal is created in place, and refused when there is one.
CreateJournal ==
  /\ At("journal") /\ pending.state = "none"
  /\ pending' = [NoJournal EXCEPT !.state = "torn"]
  /\ GoTo("sync")
  /\ UNCHANGED <<bin, backup, dropIn, unit, service, accepted, status>>

\* A Sync that fails can still leave the whole journal.
WriteJournal ==
  /\ At("sync")
  /\ pending' = [state |-> "written", existing |-> setup.existing]
  /\ GoTo("copy") \/ Fail
  /\ UNCHANGED <<bin, backup, dropIn, unit, service, accepted, status>>

CopyProgram ==
  /\ At("copy")
  /\ bin' = [bin EXCEPT ![names[setup.next]] = setup.release]
  /\ Advance("restart")
  /\ UNCHANGED <<backup, pending, dropIn, unit, service, accepted, status>>

CopyFails ==
  /\ At("copy")
  /\ Rollback
  /\ UNCHANGED <<files, unit, service, accepted, status>>

(***************************************************************************)
(* activate: restart the service, whose ExecStartPre finds the lock held,  *)
(* and wait for the health check.  systemctl can fail without any effect.  *)
(***************************************************************************)
RestartService ==
  /\ At("restart")
  /\ service' = IF unit /\ bin[Helper] \notin Runnable THEN Down
                ELSE PreStarted
  /\ GoTo("check")
  /\ UNCHANGED <<files, unit, accepted, status>>

HealthCheckPasses ==
  /\ At("check")
  /\ service \in Runnable /\ bin["pfremote"] \in Runnable
  /\ IF setup.purpose = "upgrade" THEN GoTo("commit") ELSE GoTo("report")
  /\ UNCHANGED <<files, unit, service, accepted, status>>

ActivateFails ==
  /\ At("restart") \/ At("check")
  /\ IF setup.purpose = "upgrade" THEN Rollback ELSE GoTo("report")
  /\ UNCHANGED <<files, unit, service, accepted, status>>

\* Faulty variant: the error of removing the journal is ignored.
CommitUnchecked ==
  /\ At("commit")
  /\ pending' \in {pending, NoJournal}
  /\ setup' = [setup EXCEPT !.pc = "report", !.phase = "complete"]
  /\ UNCHANGED <<bin, backup, dropIn, unit, service, accepted, status>>

Commit ==
  /\ At("commit")
  /\ pending' = NoJournal
  /\ setup' = [setup EXCEPT !.pc = "report", !.phase = "complete"]
  /\ UNCHANGED <<bin, backup, dropIn, unit, service, accepted, status>>

\* An operation fails with no effect; a journal that is torn is refused.
FileFails ==
  /\ setup.pc \in {"helper", "helperData", "dropIn", "dropInData", "restore",
                   "restored", "backup", "journal", "sync", "commit"}
  /\ Fail
  /\ UNCHANGED <<files, unit, service, accepted, status>>

\* The deferred WriteStatus, whose error is ignored; then the lock is freed.
Report ==
  /\ At("report")
  /\ status' \in {status, [phase |-> setup.phase, release |-> setup.release]}
  /\ setup' = NoSetup
  /\ UNCHANGED <<files, unit, service, accepted>>

-----------------------------------------------------------------------------
(* The service and the computer.                                           *)

\* A start by systemd: ExecStartPre recovers unless the lock is held.
StartService ==
  /\ service = Down /\ setup.purpose # "prestart"
  /\ unit => bin[Helper] \in Runnable
  /\ IF unit /\ At("none")
     THEN /\ setup' = [NoSetup EXCEPT !.pc = "restore", !.purpose = "prestart"]
          /\ UNCHANGED service
     ELSE /\ service' = PreStarted
          /\ UNCHANGED setup
  /\ UNCHANGED <<files, unit, accepted, status>>

ExecStart ==
  /\ service = PreStarted
  /\ service' = IF bin[Daemon] \in Runnable THEN bin[Daemon] ELSE Down
  /\ UNCHANGED <<files, unit, accepted, status, setup>>

ServiceStops ==
  /\ service' = Down
  /\ UNCHANGED <<files, unit, accepted, status, setup>>

\* Another program, or another installation, has systemd read its units.
ReadUnits ==
  /\ unit' = (dropIn = "written")
  /\ UNCHANGED <<files, service, accepted, status, setup>>

\* The process is killed.
Crash ==
  /\ ~ At("none")
  /\ setup' = NoSetup
  /\ UNCHANGED <<files, unit, service, accepted, status>>

\* This process may have rewritten the drop-in, which it does not sync.
Unsynced ==
  /\ setup.purpose # "prestart"
  /\ setup.pc \notin {"none", "helper", "helperData", "dropIn"}

\* The computer stops, and systemd reads the units when it starts again.
PowerLoss ==
  /\ setup' = NoSetup
  /\ service' = Down
  /\ dropIn' \in {dropIn} \cup (IF Unsynced THEN {"torn"} ELSE {})
  /\ unit' = (dropIn' = "written")
  /\ UNCHANGED <<bin, backup, pending, accepted, status>>

Next ==
  \/ \E r \in Release : StartUpdate(r)
  \/ CreateHelper \/ WriteHelper
  \/ TruncateDropIn \/ WriteDropIn \/ Reload
  \/ RestoreName \/ RecoverDone
  \/ BackUp \/ CreateJournal \/ WriteJournal \/ CopyProgram \/ CopyFails
  \/ RestartService \/ HealthCheckPasses \/ ActivateFails
  \/ Commit \/ FileFails \/ Report
  \/ StartService \/ ExecStart \/ ServiceStops
  \/ ReadUnits \/ Crash \/ PowerLoss

Spec == Init /\ [][Next]_vars

-----------------------------------------------------------------------------
(* Properties.                                                             *)

(***************************************************************************)
(* Whatever fails or stops, what recovery leaves installed changes from    *)
(* one whole set to another in one step, to a release whose daemon has     *)
(* passed its health check (linuxinstaller.Upgrade, Recover).              *)
(***************************************************************************)
Atomic ==
  INSTANCE AtomicUpgrade WITH
    installed <- Installed,
    trial <- IF setup.pc = "commit" THEN setup.release ELSE 0,
    running <- service,
    NoRelease <- 0

UpgradeIsAtomic == Atomic!Spec

(***************************************************************************)
(* A status "complete" stands for a whole set: that release or a later     *)
(* one, which no later recovery takes back.  The status is written after   *)
(* the journal is removed and before the lock is freed (cmd/pfremote-      *)
(* update, run).                                                           *)
(***************************************************************************)
CompleteIsInstalled ==
  status.phase = "complete" =>
    \E r \in Release : r >= status.release /\ \A n \in Name : Installed[n] = r

\* From its Recover to its commit an update, or its rollback, is in Upgrade.
InUpgrade ==
  /\ setup.purpose # "prestart"
  /\ setup.pc \in {"restore", "restored", "backup", "journal", "sync", "copy",
                   "restart", "check", "commit"}

(***************************************************************************)
(* While a journal exists there is a helper, and recovering does not       *)
(* remove it: "Install the recovery helper before the drop-in is           *)
(* activated".  Upgrade touches the programs only while the service would  *)
(* run the helper first, if the process died (cmd/pfremote-update, run).   *)
(*                                                                         *)
(* Of a journal left by an earlier update no more is true: a later one     *)
(* rewrites the drop-in before it recovers, and can leave it torn.         *)
(***************************************************************************)
HelperOutlivesTransaction ==
  /\ pending.state # "none" => bin[Helper] # Missing
  /\ pending.state = "written" => Helper \in pending.existing
  /\ InUpgrade => unit /\ dropIn = "written"

(***************************************************************************)
(* "An ExecStartPre recovery helper restores interrupted binary            *)
(* transactions": when no process is at work, the journal that is there is *)
(* one that Recover accepts (docs/status/FLEET_UPDATE_REPORT.md).          *)
(***************************************************************************)
InterruptedIsRecoverable ==
  setup.pc = "none" => pending.state # "torn"
=============================================================================
