---------------------------- MODULE WindowsSetup ----------------------------
(***************************************************************************)
(* The per-user Windows installation: cmd/pfremote-setup, which installs,  *)
(* upgrades, recovers, rolls back, uninstalls and starts the background    *)
(* programs, over internal/windowsinstaller, which keeps the files.        *)
(*                                                                         *)
(* Several Setup processes can run at a time: one started by hand, one by  *)
(* the daemon for an automatic update, one by Windows at sign-in, one by a *)
(* scheduled task.  A lock file serializes what windowsinstaller does, but *)
(* is free again when Install, Rollback and RecoverUpgrade have returned,  *)
(* so that their callers go on without it.                                 *)
(*                                                                         *)
(* Simplifications.                                                        *)
(*  - A release is its sequence number; archive and manifest hashes match. *)
(*  - Several files removed by one call are removed in one step, with      *)
(*    every outcome that an error or a crash on the way can have.          *)
(*  - Staging directories, which nothing reads again, are left out.        *)
(***************************************************************************)
EXTENDS Naturals, FiniteSets

CONSTANTS
  Setup,       \* Setup processes
  Release,     \* sequence numbers of the packages there are
  Background,  \* the programs that run in the background
  NoState,     \* a record file that is not there
  NoSetup      \* the lock file is not locked

Daemon == "pfremoted.exe"
Center == "PFRemoteCenter.exe"

ASSUME WindowsSetupAssumption ==
  /\ Release \subseteq Nat \ {0}
  /\ {Daemon, Center} \subseteq Background
  /\ NoSetup \notin Setup
  /\ NoState \notin [current : Nat, previous : Nat]

VARIABLES
  versions,  \* the directory of each release
  current,   \* current.json
  pending,   \* pending-upgrade.json: current.json before the upgrade
  marker,    \* installation.json
  helper,    \* the copy of Setup outside the installation
  listed,    \* the record in Installed apps, which runs the helper
  signIn,    \* the Run key, which runs the helper at sign-in
  shortcut,  \* the release the Start menu opens, or 0
  running,   \* <<program, release>> of the processes there are
  endpoint,  \* the release whose daemon has the local API, or 0
  task,      \* the release a scheduled task brings to the desktop, or 0
  agentDue,  \* its first action has not begun
  lock,      \* the process that holds the lock file
  accepted,  \* trust store: highest sequence accepted
  proc,      \* the Setup processes
  broken     \* history: a removal of the installation did not complete

files == <<versions, current, pending, marker>>
entries == <<helper, listed, signIn, shortcut>>
session == <<running, endpoint, task, agentDue>>
vars == <<files, entries, session, lock, accepted, proc, broken>>

Selection == [current : Release, previous : Release \cup {0}]

\* "headless": damaged, and without the file that tells a version is there.
Directory == {"absent", "whole", "damaged", "headless"}

Step ==
  {"idle", "lock", "prune", "files", "select", "mark", "pruneRest", "restore",
   "journal", "commit", "forget", "swap", "remove", "removeShortcut",
   "unlist", "helper", "rename", "list", "shortcut", "signIn", "stop",
   "start", "probe", "request", "await", "agent"}

Purpose ==
  {"install", "upgrade", "revert", "recover", "signIn", "rollback",
   "uninstall", "agent"}

NoProc == [pc |-> "idle", purpose |-> "install", release |-> 0, target |-> 0]

TypeOK ==
  /\ versions \in [Release -> Directory]
  /\ current \in Selection \cup {NoState}
  /\ pending \in Selection \cup {NoState}
  /\ {marker, helper, listed, signIn, agentDue, broken} \subseteq BOOLEAN
  /\ {shortcut, endpoint, task} \subseteq Release \cup {0}
  /\ running \subseteq Background \X Release
  /\ lock \in Setup \cup {NoSetup}
  /\ accepted \in Release \cup {0}
  /\ proc \in [Setup -> [pc : Step, purpose : Purpose,
                         release : Release \cup {0},
                         target : Release \cup {0}]]

Init ==
  /\ versions = [r \in Release |-> "absent"]
  /\ current = NoState /\ pending = NoState /\ marker = FALSE
  /\ helper = FALSE /\ listed = FALSE /\ signIn = FALSE /\ shortcut = 0
  /\ running = {} /\ endpoint = 0 /\ task = 0 /\ agentDue = FALSE
  /\ lock = NoSetup /\ accepted = 0
  /\ proc = [p \in Setup |-> NoProc]
  /\ broken = FALSE

-----------------------------------------------------------------------------
(* Helpers.                                                                *)

At(p, pc) == proc[p].pc = pc

Is(p, purpose) == proc[p].purpose = purpose

GoTo(p, pc) == proc' = [proc EXCEPT ![p].pc = pc]

\* Go on without the lock.
Leave(p, next) ==
  /\ proc' = [proc EXCEPT ![p] = next]
  /\ lock' = IF lock = p THEN NoSetup ELSE lock

End(p) == Leave(p, NoProc)

HasApp(r) == r \in Release /\ versions[r] \in {"whole", "damaged"}

Mentioned(s) == IF s = NoState THEN {} ELSE {s.current, s.previous}

\* What an upgrade, or its recovery, makes of the selection.
Selecting(r, s) ==
  [current  |-> r,
   previous |-> IF s = NoState THEN 0
                ELSE IF s.current # r THEN s.current ELSE s.previous]

Busy(r) == \E b \in Background : <<b, r>> \in running

(***************************************************************************)
(* Directories some of which are removed.  A program that runs keeps its   *)
(* file, and other processes can keep files open too.                      *)
(***************************************************************************)
Removed(gone) ==
  {v \in [Release -> Directory] :
     \A r \in Release :
       \/ v[r] = versions[r]
       \/ /\ r \in gone /\ versions[r] # "absent"
          /\ v[r] \in IF Busy(r) THEN {"damaged", "headless"}
                      ELSE {"absent", "damaged", "headless"}
          /\ versions[r] = "headless" => v[r] # "damaged"}

\* The helper is not copied over itself.
EntryStep(p) ==
  IF proc[p].purpose \in {"signIn", "rollback"} THEN "list" ELSE "helper"

ToActivate(p, r) == [proc[p] EXCEPT !.pc = EntryStep(p), !.target = r]

\* An error return of the current purpose.  An upgrade that has recorded its
\* intent restores the selection before it, still under the lock.
Fail(p) ==
  IF /\ Is(p, "upgrade") /\ pending # NoState
     /\ ~At(p, "commit") /\ ~At(p, "lock")
  THEN /\ proc' = [proc EXCEPT ![p].pc = "restore", ![p].purpose = "revert"]
       /\ UNCHANGED lock
  ELSE End(p)

-----------------------------------------------------------------------------
(* Commands.                                                               *)

\* install and apply-update: an accepted package, and what is there already.
BeginInstall(p, r) ==
  /\ At(p, "idle")
  /\ r >= accepted
  /\ accepted' = r
  /\ proc' = [proc EXCEPT ![p] =
                [NoProc EXCEPT !.pc = "lock", !.release = r,
                   !.purpose = IF current = NoState THEN "install"
                               ELSE "recover"]]
  /\ UNCHANGED <<files, entries, session, lock, broken>>

BeginCommand(p, purpose) ==
  /\ At(p, "idle")
  /\ proc' = [proc EXCEPT ![p] =
                [NoProc EXCEPT !.pc = "lock", !.purpose = purpose]]
  /\ UNCHANGED <<files, helper, listed, shortcut, session, lock, accepted,
                 broken>>

BeginSignIn(p) ==
  /\ helper /\ signIn
  /\ BeginCommand(p, "signIn")
  /\ UNCHANGED signIn

BeginRollback(p) ==
  /\ helper
  /\ BeginCommand(p, "rollback")
  /\ UNCHANGED signIn

\* The Run key goes before the installer is asked.
BeginUninstall(p) ==
  /\ helper
  /\ BeginCommand(p, "uninstall")
  /\ signIn' = FALSE

(***************************************************************************)
(* Entering windowsinstaller: the lock, then the checks it starts with.    *)
(***************************************************************************)
LockFails(p) ==
  /\ At(p, "lock") /\ lock # NoSetup
  /\ End(p)
  /\ UNCHANGED <<files, entries, session, accepted, broken>>

\* Faulty variant: a rollback does not look whether there is a version before.
AdmittedWithoutPrevious(p) ==
  CASE Is(p, "install")   -> pending = NoState
    [] Is(p, "upgrade")   -> /\ pending = NoState
                             /\ current # NoState /\ HasApp(current.current)
    [] Is(p, "rollback")  -> pending = NoState /\ current # NoState
    [] Is(p, "uninstall") -> pending = NoState /\ marker
    [] OTHER              -> \/ pending # NoState
                             \/ current # NoState /\ HasApp(current.current)

\* Faulty variant: nothing begins while an upgrade is pending.
AdmittedUnlessPending(p) ==
  /\ pending = NoState
  /\ CASE Is(p, "install")   -> TRUE
       [] Is(p, "rollback")  -> current # NoState /\ HasApp(current.previous)
       [] Is(p, "uninstall") -> marker
       [] OTHER              -> current # NoState /\ HasApp(current.current)

\* The checks of each operation, once it has the lock.
Admitted(p) ==
  CASE Is(p, "install")   -> pending = NoState
    [] Is(p, "upgrade")   -> /\ pending = NoState
                             /\ current # NoState /\ HasApp(current.current)
    [] Is(p, "rollback")  -> /\ pending = NoState /\ current # NoState
                             /\ HasApp(current.previous)
    [] Is(p, "uninstall") -> pending = NoState /\ marker
    [] OTHER              -> \/ pending # NoState
                             \/ current # NoState /\ HasApp(current.current)

FirstStep(p) ==
  CASE Is(p, "install")   -> "prune"
    [] Is(p, "upgrade")   -> "journal"
    [] Is(p, "rollback")  -> "swap"
    [] Is(p, "uninstall") -> "remove"
    [] OTHER              -> "restore"

Lock(p) ==
  /\ At(p, "lock") /\ lock = NoSetup
  /\ ~(proc[p].purpose \in {"recover", "signIn"} /\ pending = NoState)
  /\ IF Admitted(p)
     THEN lock' = p /\ GoTo(p, FirstStep(p))
     ELSE UNCHANGED lock /\ proc' = [proc EXCEPT ![p] = NoProc]
  /\ UNCHANGED <<files, entries, session, accepted, broken>>

\* RecoverUpgrade with nothing to recover returns the selected version.
NothingToRecover(p) ==
  /\ At(p, "lock") /\ lock = NoSetup
  /\ proc[p].purpose \in {"recover", "signIn"} /\ pending = NoState
  /\ proc' = [proc EXCEPT ![p] =
       IF ~Admitted(p) THEN NoProc
       ELSE IF Is(p, "recover") THEN [@ EXCEPT !.purpose = "upgrade"]
       ELSE [@ EXCEPT !.pc = "start", !.target = current.current]]
  /\ UNCHANGED <<files, entries, session, lock, accepted, broken>>

-----------------------------------------------------------------------------
(* windowsinstaller, under the lock.                                       *)

\* Faulty variant: what is kept was decided before the lock, on nothing.
PruneFirstUninformed(p) ==
  /\ At(p, "prune")
  /\ versions' \in Removed(Release \ {proc[p].release})
  /\ GoTo(p, "files")
  /\ UNCHANGED <<current, pending, marker, entries, session, lock, accepted,
                 broken>>

\* Errors of pruning are ignored.
PruneFirst(p) ==
  /\ At(p, "prune")
  /\ versions' \in
       Removed(Release \ ({proc[p].release} \cup Mentioned(current)))
  /\ GoTo(p, "files")
  /\ UNCHANGED <<current, pending, marker, entries, session, lock, accepted,
                 broken>>

WriteJournal(p) ==
  /\ At(p, "journal")
  /\ pending' = current
  /\ GoTo(p, "files")
  /\ UNCHANGED <<versions, current, marker, entries, session, lock, accepted,
                 broken>>

\* A version that is there must be whole; else it is staged and renamed.
InstallFiles(p) ==
  /\ At(p, "files")
  /\ versions[proc[p].release] \in {"absent", "whole"}
  /\ versions' = [versions EXCEPT ![proc[p].release] = "whole"]
  /\ GoTo(p, "select")
  /\ UNCHANGED <<current, pending, marker, entries, session, lock, accepted,
                 broken>>

Select(p) ==
  /\ At(p, "select")
  /\ current' = Selecting(proc[p].release, current)
  /\ GoTo(p, "mark")
  /\ UNCHANGED <<versions, pending, marker, entries, session, lock, accepted,
                 broken>>

WriteMarker(p) ==
  /\ At(p, "mark")
  /\ marker' = TRUE
  /\ IF Is(p, "upgrade")
     THEN proc' = [proc EXCEPT ![p] = ToActivate(p, proc[p].release)]
     ELSE GoTo(p, "pruneRest")
  /\ UNCHANGED <<versions, current, pending, entries, session, lock, accepted,
                 broken>>

\* Faulty variant: the record goes before the old version is active again.
RestoreAndForget(p) ==
  /\ At(p, "restore")
  /\ HasApp(pending.current)
  /\ pending' = NoState
  /\ proc' = [proc EXCEPT ![p] = ToActivate(p, pending.current)]
  /\ UNCHANGED <<versions, current, marker, entries, session, lock, accepted,
                 broken>>

\* recoverUpgrade selects what was selected before, and activates it.
Restore(p) ==
  /\ At(p, "restore")
  /\ HasApp(pending.current)
  /\ current' = pending
  /\ proc' = [proc EXCEPT ![p] = ToActivate(p, pending.current)]
  /\ UNCHANGED <<versions, pending, marker, entries, session, lock, accepted,
                 broken>>

\* Upgrade removes the record of an activated release and prunes the others.
Commit(p) ==
  /\ At(p, "commit")
  /\ pending' = NoState
  /\ GoTo(p, "pruneRest")
  /\ UNCHANGED <<versions, current, marker, entries, session, lock, accepted,
                 broken>>

\* The end of Install, whose caller then activates, and of Upgrade.
PruneRest(p) ==
  /\ At(p, "pruneRest")
  /\ versions' \in Removed(Release \ Mentioned(current))
  /\ IF Is(p, "install")
     THEN Leave(p, ToActivate(p, proc[p].release))
     ELSE End(p)
  /\ UNCHANGED <<current, pending, marker, entries, session, accepted, broken>>

\* The end of recoverUpgrade: a failed upgrade ends, Setup goes on to upgrade,
\* a sign-in goes on to its background programs.
Forget(p) ==
  /\ At(p, "forget")
  /\ pending' = NoState
  /\ CASE Is(p, "recover") ->
            Leave(p, [proc[p] EXCEPT !.pc = "lock", !.purpose = "upgrade"])
       [] Is(p, "signIn")  -> Leave(p, [proc[p] EXCEPT !.pc = "start"])
       [] OTHER            -> End(p)
  /\ UNCHANGED <<versions, current, marker, entries, session, accepted,
                 broken>>

Swap(p) ==
  /\ At(p, "swap")
  /\ current' = [current |-> current.previous, previous |-> current.current]
  /\ Leave(p, ToActivate(p, current.previous))
  /\ UNCHANGED <<versions, pending, marker, entries, session, accepted,
                 broken>>

\* RemoveAll goes on after an error and returns the first one.
RemoveRoot(p) ==
  /\ At(p, "remove")
  /\ \A r \in Release : ~Busy(r)
  /\ versions' = [r \in Release |-> "absent"]
  /\ current' = NoState /\ marker' = FALSE
  /\ Leave(p, [proc[p] EXCEPT !.pc = "removeShortcut"])
  /\ UNCHANGED <<pending, entries, session, accepted, broken>>

RemovePart(p) ==
  /\ At(p, "remove")
  /\ versions' \in Removed(Release)
  /\ current' \in {current, NoState} /\ marker' \in {marker, FALSE}
  /\ broken' = TRUE
  /\ End(p)
  /\ UNCHANGED <<pending, entries, session, accepted>>

-----------------------------------------------------------------------------
(* Entry points: activate, and the end of an uninstallation.               *)

RemoveShortcut(p) ==
  /\ At(p, "removeShortcut")
  /\ shortcut' = 0
  /\ GoTo(p, "unlist")
  /\ UNCHANGED <<files, helper, listed, signIn, session, lock, accepted,
                 broken>>

RemoveInstalledApps(p) ==
  /\ At(p, "unlist")
  /\ listed' = FALSE /\ helper' \in {helper, FALSE}
  /\ End(p)
  /\ UNCHANGED <<files, signIn, shortcut, session, accepted, broken>>

\* copyExecutableAtomic removes the old helper before it renames the new one.
RemoveOldHelper(p) ==
  /\ At(p, "helper")
  /\ helper' = FALSE
  /\ GoTo(p, "rename")
  /\ UNCHANGED <<files, listed, signIn, shortcut, session, lock, accepted,
                 broken>>

RenameHelper(p) ==
  /\ At(p, "rename")
  /\ helper' = TRUE
  /\ GoTo(p, "list")
  /\ UNCHANGED <<files, listed, signIn, shortcut, session, lock, accepted,
                 broken>>

UpdateInstalledApps(p) ==
  /\ At(p, "list")
  /\ listed' = TRUE
  /\ GoTo(p, "shortcut")
  /\ UNCHANGED <<files, helper, signIn, shortcut, session, lock, accepted,
                 broken>>

UpdateShortcut(p) ==
  /\ At(p, "shortcut")
  /\ shortcut' = proc[p].target
  /\ GoTo(p, "signIn")
  /\ UNCHANGED <<files, helper, listed, signIn, session, lock, accepted,
                 broken>>

UpdateStartup(p) ==
  /\ At(p, "signIn")
  /\ signIn' = TRUE
  /\ GoTo(p, "stop")
  /\ UNCHANGED <<files, helper, listed, shortcut, session, lock, accepted,
                 broken>>

-----------------------------------------------------------------------------
(* Background programs.                                                    *)

LeaveRunning(left) ==
  /\ running' = left
  /\ endpoint' = IF <<Daemon, endpoint>> \in left THEN endpoint ELSE 0

\* In session zero, where no sign-in is, the programs are then started in the
\* visible session.
StopBackground(p) ==
  /\ At(p, "stop")
  /\ LeaveRunning({})
  /\ \/ GoTo(p, "start")
     \/ proc[p].purpose \notin {"agent", "signIn"} /\ GoTo(p, "request")
  /\ UNCHANGED <<files, entries, task, agentDue, lock, accepted, broken>>

StopFails(p) ==
  /\ At(p, "stop")
  /\ \E left \in SUBSET running : LeaveRunning(left)
  /\ Fail(p)
  /\ UNCHANGED <<files, entries, task, agentDue, accepted, broken>>

Commands(p) == IF Is(p, "agent") THEN Background \ {Center} ELSE Background

\* ensureBackground and restartAgentBackground.
StartBackground(p) ==
  /\ At(p, "start")
  /\ versions[proc[p].target] = "whole"
  /\ running' = running \cup (Commands(p) \X {proc[p].target})
  /\ GoTo(p, "probe")
  /\ UNCHANGED <<files, entries, endpoint, task, agentDue, lock, accepted,
                 broken>>

StartFails(p) ==
  /\ At(p, "start")
  /\ \E some \in SUBSET Commands(p) :
       running' = running \cup
         IF HasApp(proc[p].target) THEN some \X {proc[p].target} ELSE {}
  /\ Fail(p)
  /\ UNCHANGED <<files, entries, endpoint, task, agentDue, accepted, broken>>

Activated(p) ==
  CASE Is(p, "upgrade")                              -> GoTo(p, "commit")
    [] proc[p].purpose \in {"revert", "recover"}     -> GoTo(p, "forget")
    [] Is(p, "signIn") /\ lock = p                   -> GoTo(p, "forget")
    [] OTHER -> proc' = [proc EXCEPT ![p] = NoProc]

Runs(b, r) == <<b, r>> \in running

\* The daemon that has the local API answers, whichever release it is of.
ProbePasses(p) ==
  /\ At(p, "probe")
  /\ endpoint # 0
  /\ Is(p, "agent") \/ \A b \in Background : Runs(b, proc[p].target)
  /\ Activated(p)
  /\ UNCHANGED <<files, entries, session, lock, accepted, broken>>

\* Registering the task again stops what it is doing.
RequestActivation(p) ==
  /\ At(p, "request")
  /\ task' = proc[p].target /\ agentDue' = TRUE
  /\ proc' = [q \in Setup |->
       IF q = p THEN [proc[p] EXCEPT !.pc = "await"]
       ELSE IF Is(q, "agent") THEN NoProc ELSE proc[q]]
  /\ UNCHANGED <<files, entries, running, endpoint, lock, accepted, broken>>

AwaitPasses(p) ==
  /\ At(p, "await")
  /\ endpoint # 0
  /\ \A b \in {Daemon, Center} : Runs(b, proc[p].target)
  /\ Activated(p)
  /\ UNCHANGED <<files, entries, session, lock, accepted, broken>>

\* The task's first action; it reads the selection without the lock.
BeginAgent(p) ==
  /\ At(p, "idle")
  /\ agentDue /\ helper
  /\ agentDue' = FALSE
  /\ proc' = [proc EXCEPT ![p] =
                [NoProc EXCEPT !.pc = "agent", !.purpose = "agent"]]
  /\ UNCHANGED <<files, entries, running, endpoint, task, lock, accepted,
                 broken>>

AgentResolves(p) ==
  /\ At(p, "agent")
  /\ current # NoState /\ HasApp(current.current)
  /\ proc' = [proc EXCEPT ![p].pc = "stop", ![p].target = current.current]
  /\ UNCHANGED <<files, entries, session, lock, accepted, broken>>

\* Its second action, also when the first could not begin.
TaskOpensCenter ==
  /\ task # 0
  /\ ~(agentDue /\ helper)
  /\ \A q \in Setup : ~Is(q, "agent")
  /\ running' = running \cup IF HasApp(task) THEN {<<Center, task>>} ELSE {}
  /\ task' = 0 /\ agentDue' = FALSE
  /\ UNCHANGED <<files, entries, endpoint, lock, accepted, proc, broken>>

\* A daemon that finds the local API taken exits.
DaemonListens(r) ==
  /\ Runs(Daemon, r) /\ endpoint # r
  /\ IF endpoint = 0
     THEN endpoint' = r /\ UNCHANGED running
     ELSE running' = running \ {<<Daemon, r>>} /\ UNCHANGED endpoint
  /\ UNCHANGED <<files, entries, task, agentDue, lock, accepted, proc, broken>>

ProgramExits ==
  /\ \E x \in running : LeaveRunning(running \ {x})
  /\ UNCHANGED <<files, entries, task, agentDue, lock, accepted, proc, broken>>

-----------------------------------------------------------------------------
(* Failures.                                                               *)

\* A call fails with no effect, or a wait for health ends.
StepFails(p) ==
  /\ proc[p].pc \in {"files", "select", "mark", "restore", "journal",
       "commit", "forget", "swap", "removeShortcut", "unlist", "helper",
       "rename", "list", "shortcut", "signIn", "probe", "request", "await",
       "agent"}
  /\ Fail(p)
  /\ UNCHANGED <<files, entries, session, accepted, broken>>

\* The process is killed; the system frees its lock.
Killed(p) ==
  /\ ~At(p, "idle")
  /\ End(p)
  /\ UNCHANGED <<files, entries, session, accepted, broken>>

PowerOff ==
  /\ proc' = [p \in Setup |-> NoProc]
  /\ lock' = NoSetup
  /\ running' = {} /\ endpoint' = 0 /\ task' = 0 /\ agentDue' = FALSE
  /\ UNCHANGED <<files, entries, accepted, broken>>

Command(p) ==
  \/ \E r \in Release : BeginInstall(p, r)
  \/ BeginRollback(p) \/ BeginUninstall(p)

Work(p) ==
  \/ LockFails(p) \/ Lock(p) \/ NothingToRecover(p)
  \/ PruneFirst(p) \/ WriteJournal(p) \/ InstallFiles(p) \/ Select(p)
  \/ WriteMarker(p) \/ Restore(p) \/ Commit(p) \/ PruneRest(p) \/ Forget(p)
  \/ Swap(p) \/ RemoveRoot(p) \/ RemovePart(p) \/ RemoveShortcut(p)
  \/ RemoveInstalledApps(p) \/ RemoveOldHelper(p) \/ RenameHelper(p)
  \/ UpdateInstalledApps(p) \/ UpdateShortcut(p) \/ UpdateStartup(p)
  \/ StopBackground(p) \/ StartBackground(p) \/ ProbePasses(p)
  \/ RequestActivation(p) \/ AwaitPasses(p) \/ AgentResolves(p)

Programs == TaskOpensCenter \/ \E r \in Release : DaemonListens(r)

Fault ==
  \/ \E p \in Setup :
       StopFails(p) \/ StartFails(p) \/ StepFails(p) \/ Killed(p)
  \/ ProgramExits \/ PowerOff

Next ==
  \/ \E p \in Setup : Command(p) \/ BeginSignIn(p) \/ BeginAgent(p) \/ Work(p)
  \/ Programs \/ Fault

Spec == Init /\ [][Next]_vars

-----------------------------------------------------------------------------
(* Properties.                                                             *)

Atomic ==
  INSTANCE VersionSwitch WITH
    installed <- IF pending # NoState THEN pending ELSE current,
    first     <- {proc[p].release : p \in {q \in Setup :
                    Is(q, "install") /\ proc[q].pc \in
                      {"lock", "prune", "files", "select"}}},
    trial     <- {proc[p].release : p \in {q \in Setup : At(q, "commit")}},
    serving   <- {r \in Release :
                    \A b \in {Daemon, Center} : Runs(b, r)}

(***************************************************************************)
(* What recovery leaves selected changes in one step, and an upgrade       *)
(* changes it only to a release whose background programs were running     *)
(* when its health check passed (windowsinstaller.Upgrade, RecoverUpgrade, *)
(* the activation of cmd/pfremote-setup).                                  *)
(***************************************************************************)
SwitchIsAtomic == Atomic!Spec

(***************************************************************************)
(* Every release that is selected, kept for a rollback or recorded for     *)
(* recovery is whole, whatever was interrupted or pruned, until a removal  *)
(* of the installation breaks off (install, pruneObsoleteVersions).        *)
(***************************************************************************)
RetainedAreWhole ==
  ~broken => \A r \in (Mentioned(current) \cup Mentioned(pending)) \ {0} :
               versions[r] = "whole"
=============================================================================
