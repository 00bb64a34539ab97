------------------------- MODULE LinuxUpgradeProofs -------------------------
(***************************************************************************)
(* Theorems about LinuxUpgrade, for every set of releases: the invariants  *)
(* its run checks, and that it implements AtomicUpgrade.                   *)
(*                                                                         *)
(* IInv says, for each step of the process that holds the lock, what has   *)
(* become of the three programs, their copies and the journal: that is     *)
(* what lets a later process take over from any point.                     *)
(***************************************************************************)
EXTENDS LinuxUpgrade, TLAPS

\* The programs that a loop over names has passed when it is at names[k].
Passed(k) == {names[i] : i \in 1 .. k - 1}

Saved(n) ==
  IF n \in setup.existing
  THEN backup[n] = bin[n] /\ bin[n] # Missing
  ELSE bin[n] = Missing

Updating == setup.purpose = "upgrade" /\ setup.pc # "none"

\* Which purposes and outcomes a step can have.
StepInv ==
  /\ setup.purpose = "prestart" => setup.pc \in {"restore", "restored"}
  /\ setup.purpose = "rollback" =>
       setup.pc \in {"restore", "restored", "restart", "check", "report"}
  /\ setup.phase = "complete" => setup.pc = "report"
  /\ setup.pc # "none" /\ setup.purpose # "prestart" =>
       setup.release \in Release /\ setup.release = accepted

\* The journal at each step.
JournalInv ==
  /\ setup.pc = "restored" => pending.state = "written"
  /\ setup.pc = "restore" /\ setup.next # 1 => pending.state = "written"
  /\ setup.pc \in {"helperData", "backup", "journal"} => pending.state = "none"
  /\ setup.pc = "sync" => pending.state = "torn"
  /\ setup.pc \in {"copy", "commit"} => pending.state = "written"
  /\ setup.pc \in {"restart", "check"} =>
       pending.state = IF Updating THEN "written" ELSE "none"

\* The helper is there when it is needed, and what makes the service run it.
HelperInv ==
  /\ HelperOutlivesTransaction
  /\ pending.state = "written" =>
       \A n \in pending.existing : backup[n] # Missing
  /\ setup.pc = "helperData" => bin[Helper] = Torn
  /\ Updating /\ setup.pc \notin {"helper", "helperData", "report"} =>
       bin[Helper] # Missing
  /\ setup.pc = "reload" => dropIn = "written"

\* How far the copies, the new programs and the restored ones have come.
LoopInv ==
  /\ setup.pc \in {"helper", "helperData", "dropIn", "dropInData", "reload",
                   "restore", "restored"} =>
       setup.existing = {} \/ setup.purpose = "rollback"
  /\ setup.pc = "backup" =>
       /\ setup.existing \subseteq Passed(setup.next)
       /\ \A n \in Passed(setup.next) : Saved(n)
  /\ setup.pc \in {"journal", "sync"} => \A n \in Name : Saved(n)
  /\ setup.pc = "copy" => \A n \in Passed(setup.next) : bin[n] = setup.release
  /\ Updating /\ setup.pc \in {"restart", "check", "commit"} =>
       \A n \in Name : bin[n] = setup.release
  /\ setup.pc = "restore" =>
       \A n \in Passed(setup.next) : bin[n] = Installed[n]
  /\ setup.pc = "restored" => \A n \in Name : bin[n] = Installed[n]

\* What runs during a trial, and what is installed.
ReleaseInv ==
  /\ Updating /\ setup.pc = "check" /\ service \in Runnable =>
       service = setup.release
  /\ \A n \in Name : Installed[n] \in Release => Installed[n] <= accepted
  /\ setup.phase = "complete" =>
       pending.state = "none" /\ \A n \in Name : bin[n] = setup.release
  /\ CompleteIsInstalled

IInv ==
  /\ TypeOK
  /\ StepInv
  /\ JournalInv
  /\ HelperInv
  /\ LoopInv
  /\ ReleaseInv

-----------------------------------------------------------------------------
\* The loop over names, from its first program to its last.
LEMMA NamesLoop ==
  /\ Len(names) = 3
  /\ Passed(1) = {}
  /\ \A k \in 1 .. 3 :
       /\ names[k] \in Name /\ names[k] \notin Passed(k)
       /\ Passed(k) \subseteq Name
  /\ \A k \in 1 .. 2 : Passed(k + 1) = Passed(k) \cup {names[k]}
  /\ Passed(3) \cup {names[3]} = Name
<1>1. /\ Len(names) = 3
      /\ names[1] = "pfremote"
      /\ names[2] = "pfremoted"
      /\ names[3] = "pfremote-update"
  BY DEF names
<1>2. /\ Passed(1) = {}
      /\ Passed(2) = {"pfremote"}
      /\ Passed(3) = {"pfremote", "pfremoted"}
  <2>1. /\ 1 .. (1 - 1) = {}
        /\ 1 .. (2 - 1) = {1}
        /\ 1 .. (3 - 1) = {1, 2}
    OBVIOUS
  <2> QED BY <1>1, <2>1 DEF Passed
<1>3. \A k \in 1 .. 3 : k = 1 \/ k = 2 \/ k = 3
  OBVIOUS
<1>4. \A k \in 1 .. 2 : Passed(k + 1) = Passed(k) \cup {names[k]}
  <2>1. Passed(1 + 1) = Passed(2) /\ Passed(2 + 1) = Passed(3)
    OBVIOUS
  <2>2. \A k \in 1 .. 2 : k = 1 \/ k = 2
    OBVIOUS
  <2> QED BY <1>1, <1>2, <2>1, <2>2
<1> QED BY <1>1, <1>2, <1>3, <1>4 DEF Name

-----------------------------------------------------------------------------
\* What the ways to move the process on do to its record.
Moves(pc, purpose, next, existing, phase) ==
  /\ setup'.pc = pc /\ setup'.purpose = purpose /\ setup'.next = next
  /\ setup'.existing = existing /\ setup'.phase = phase
  /\ setup' \in Process

Same(pc, next) ==
  /\ Moves(pc, setup.purpose, next, setup.existing, setup.phase)
  /\ setup'.release = setup.release

Ended == Moves("none", "upgrade", 1, {}, "failed")

LEMMA GoToMoves ==
  ASSUME setup \in Process, NEW pc \in Step, GoTo(pc)
  PROVE  Same(pc, 1)
<1>1. /\ setup'.pc = pc /\ setup'.next = 1
      /\ setup'.purpose = setup.purpose /\ setup'.release = setup.release
      /\ setup'.existing = setup.existing /\ setup'.phase = setup.phase
  BY DEF GoTo, Process
<1>2. setup' \in Process
  <2>1. setup' = [pc |-> pc, purpose |-> setup.purpose,
                  release |-> setup.release, next |-> 1,
                  existing |-> setup.existing, phase |-> setup.phase]
    BY DEF GoTo, Process
  <2> QED BY <2>1 DEF Process
<1> QED BY <1>1, <1>2 DEF Same, Moves

LEMMA AdvanceMoves ==
  ASSUME setup \in Process, NEW pc \in Step, Advance(pc)
  PROVE  \/ setup.next = 3 /\ Same(pc, 1)
         \/ setup.next \in 1 .. 2 /\ Same(setup.pc, setup.next + 1)
<1>1. CASE setup.next = Len(names)
  BY <1>1, GoToMoves, NamesLoop DEF Advance
<1>2. CASE setup.next # Len(names)
  <2>1. setup.next \in 1 .. 2
    BY <1>2, NamesLoop DEF Process
  <2>2. /\ setup'.pc = setup.pc /\ setup'.next = setup.next + 1
        /\ setup'.purpose = setup.purpose /\ setup'.release = setup.release
        /\ setup'.existing = setup.existing /\ setup'.phase = setup.phase
    BY <1>2 DEF Advance, Process
  <2>3. setup' \in Process
    BY <1>2, <2>1 DEF Advance, Process
  <2> QED BY <2>1, <2>2, <2>3 DEF Same, Moves
<1> QED BY <1>1, <1>2

LEMMA EndMoves ==
  ASSUME setup' = NoSetup
  PROVE  Ended
<1>1. NoSetup \in Process
  BY DEF NoSetup, Process, Step
<1> QED BY <1>1 DEF NoSetup, Ended, Moves

LEMMA FailMoves ==
  ASSUME setup \in Process, Fail
  PROVE  \/ setup.purpose = "prestart" /\ Ended
         \/ setup.purpose # "prestart" /\ Same("report", 1)
BY GoToMoves, EndMoves DEF Fail, Step

LEMMA RollbackMoves ==
  ASSUME setup \in Process, Rollback
  PROVE  /\ Moves("restore", "rollback", 1, setup.existing, setup.phase)
         /\ setup'.release = setup.release
<1>1. /\ setup'.pc = "restore" /\ setup'.next = 1
      /\ setup'.purpose = "rollback" /\ setup'.release = setup.release
      /\ setup'.existing = setup.existing /\ setup'.phase = setup.phase
  BY DEF Rollback, Process
<1>2. setup' \in Process
  <2>1. setup' = [pc |-> "restore", purpose |-> "rollback",
                  release |-> setup.release, next |-> 1,
                  existing |-> setup.existing, phase |-> setup.phase]
    BY DEF Rollback, Process
  <2>2. "restore" \in Step
    BY DEF Step
  <2> QED BY <2>1, <2>2 DEF Process
<1> QED BY <1>1, <1>2 DEF Moves

-----------------------------------------------------------------------------
\* The steps after which recovery would leave what it would have left before.
Keeps ==
  \/ \E r \in Release : StartUpdate(r)
  \/ TruncateDropIn \/ WriteDropIn \/ Reload \/ RestoreName \/ RecoverDone
  \/ BackUp \/ CreateJournal \/ WriteJournal \/ CopyProgram \/ CopyFails
  \/ RestartService \/ HealthCheckPasses \/ ActivateFails
  \/ FileFails \/ Report
  \/ StartService \/ ExecStart \/ ServiceStops
  \/ ReadUnits \/ Crash \/ PowerLoss

(***************************************************************************)
(* The journal only takes effect when all copies are there, and only goes  *)
(* when the programs are what it stands for.                               *)
(***************************************************************************)
LEMMA InstalledKept ==
  ASSUME IInv, Keeps
  PROVE  Installed' = Installed
<1>0. TypeOK /\ JournalInv /\ LoopInv
  BY DEF IInv
<1>1. CASE \/ \E r \in Release : StartUpdate(r)
           \/ TruncateDropIn \/ WriteDropIn \/ Reload
           \/ CopyFails \/ RestartService
           \/ HealthCheckPasses \/ ActivateFails \/ FileFails \/ Report
           \/ StartService \/ ExecStart \/ ServiceStops
           \/ ReadUnits \/ Crash \/ PowerLoss
  <2>1. UNCHANGED <<bin, backup, pending>>
    BY <1>1
    DEF StartUpdate, TruncateDropIn, WriteDropIn, Reload, CopyFails,
        RestartService,
        HealthCheckPasses, ActivateFails, FileFails, Report, StartService,
        ExecStart, ServiceStops, ReadUnits, Crash, PowerLoss, files
  <2> QED BY <2>1 DEF Installed
<1>2. CASE RestoreName \/ CopyProgram
  <2>1. pending.state = "written" /\ UNCHANGED <<backup, pending>>
    BY <1>0, <1>2 DEF RestoreName, CopyProgram, At, JournalInv
  <2> QED BY <2>1 DEF Installed
<1>3. CASE RecoverDone
  <2>1. CASE pending.state = "written"
    <3>1. At("restored")
      BY <1>3, <2>1 DEF RecoverDone
    <3>2. \A n \in Name : bin[n] = Installed[n]
      BY <1>0, <3>1 DEF LoopInv, At
    <3>3. bin = Installed
      BY <1>0, <2>1, <3>2 DEF TypeOK, Installed
    <3> QED BY <1>3, <3>3 DEF RecoverDone, NoJournal, Installed
  <2>2. CASE pending.state # "written"
    BY <1>3, <2>2 DEF RecoverDone, NoJournal, Installed
  <2> QED BY <2>1, <2>2
<1>4. CASE BackUp \/ CreateJournal
  <2>1. /\ pending.state # "written" /\ pending'.state # "written"
        /\ bin' = bin
    BY <1>0, <1>4 DEF BackUp, CreateJournal, At, JournalInv, NoJournal
  <2> QED BY <2>1 DEF Installed
<1>5. CASE WriteJournal
  <2>1. /\ pending'.state = "written" /\ pending'.existing = setup.existing
        /\ bin' = bin /\ backup' = backup
    BY <1>5 DEF WriteJournal
  <2>2. pending.state = "torn" /\ \A n \in Name : Saved(n)
    BY <1>0, <1>5 DEF WriteJournal, At, JournalInv, LoopInv
  <2>3. bin = [n \in Name |-> IF n \in setup.existing THEN backup[n]
                             ELSE Missing]
    BY <1>0, <2>2 DEF TypeOK, Saved
  <2> QED BY <2>1, <2>2, <2>3 DEF Installed
<1> QED BY <1>1, <1>2, <1>3, <1>4, <1>5 DEF Keeps

-----------------------------------------------------------------------------
\* Every step preserves the inductive invariant.
THEOREM Inductive ==
  ASSUME IInv, [Next]_vars
  PROVE  IInv'
<1>0. TypeOK /\ StepInv /\ JournalInv /\ HelperInv /\ LoopInv /\ ReleaseInv
  BY DEF IInv
<1>a. setup \in Process
  BY <1>0 DEF TypeOK
<1>1. ASSUME NEW r \in Release, StartUpdate(r)
       PROVE  IInv'
  <2>1. /\ Moves("helper", "upgrade", 1, {}, "failed")
        /\ setup'.release = r
    <3>1. setup' = [pc |-> "helper", purpose |-> "upgrade", release |-> r,
                    next |-> 1, existing |-> {}, phase |-> "failed"]
      BY <1>1 DEF StartUpdate, NoSetup
    <3>2. r \in Nat
      BY LinuxUpgradeAssumption
    <3>3. setup' \in Process
      BY <3>1, <3>2 DEF Process, Step
    <3> QED BY <3>1, <3>3 DEF Moves
  <2>2. TypeOK'
    BY <1>0, <1>1, <2>1, LinuxUpgradeAssumption
    DEF StartUpdate, files, Moves, TypeOK
  <2>3. StepInv'
    BY <1>1, <2>1 DEF StartUpdate, Moves, StepInv
  <2>4. JournalInv'
    BY <2>1 DEF Moves, JournalInv
  <2>5. HelperInv'
    BY <1>0, <1>1, <2>1
    DEF StartUpdate, files, Moves, HelperInv, HelperOutlivesTransaction,
        InUpgrade, Updating
  <2>6. LoopInv'
    BY <2>1 DEF Moves, LoopInv
  <2>7. Installed' = Installed
    BY <1>1, InstalledKept DEF Keeps
  <2>8. ReleaseInv'
    BY <1>0, <1>1, <2>1, <2>7, LinuxUpgradeAssumption
    DEF StartUpdate, Moves, ReleaseInv, CompleteIsInstalled, TypeOK
  <2> QED BY <2>2, <2>3, <2>4, <2>5, <2>6, <2>8 DEF IInv
<1>2. CASE CreateHelper
  <2>1. CASE bin[Helper] # Missing
    <3>1. Same("dropIn", 1) /\ bin' = bin
      BY <1>a, <1>2, <2>1, GoToMoves DEF CreateHelper, Step
    <3>2. UNCHANGED <<backup, pending, dropIn, unit, service, accepted,
                      status>>
      BY <1>2 DEF CreateHelper
    <3>3. setup.pc = "helper" /\ Installed' = Installed
      BY <1>2, <3>1, <3>2 DEF CreateHelper, At, Installed
    <3>4. TypeOK' /\ StepInv' /\ JournalInv' /\ LoopInv'
      BY <1>0, <3>1, <3>2, <3>3
      DEF TypeOK, StepInv, JournalInv, LoopInv, Same, Moves, Updating
    <3>5. HelperInv'
      BY <1>0, <2>1, <3>1, <3>2, <3>3
      DEF HelperInv, HelperOutlivesTransaction, InUpgrade, Same, Moves,
          Updating
    <3>6. ReleaseInv'
      BY <1>0, <3>1, <3>2, <3>3
      DEF ReleaseInv, CompleteIsInstalled, StepInv, Same, Moves, Updating
    <3> QED BY <3>4, <3>5, <3>6 DEF IInv
  <2>2. CASE bin[Helper] = Missing
    <3>1. Same("helperData", 1) /\ bin' = [bin EXCEPT ![Helper] = Torn]
      BY <1>a, <1>2, <2>2, GoToMoves DEF CreateHelper, Step
    <3>2. /\ UNCHANGED <<backup, pending, dropIn, unit, service, accepted,
                         status>>
          /\ setup.pc = "helper"
      BY <1>2 DEF CreateHelper, At
    <3>3. pending.state = "none"
      BY <1>0, <2>2 DEF HelperInv, HelperOutlivesTransaction
    <3>4. TypeOK'
      BY <1>0, <3>1, <3>2 DEF TypeOK, Version, Same, Moves
    <3>5. StepInv' /\ JournalInv' /\ LoopInv'
      BY <1>0, <3>1, <3>2, <3>3
      DEF StepInv, JournalInv, LoopInv, Same, Moves, Updating
    <3>6. bin'[Helper] = Torn /\ \A n \in Name : bin'[n] \in {bin[n], Torn}
      BY <1>0, <3>1 DEF TypeOK, Helper, Name
    <3>7. HelperInv'
      BY <3>1, <3>2, <3>3, <3>6
      DEF HelperInv, HelperOutlivesTransaction, InUpgrade, Same, Moves,
          Updating
    <3>8. Torn \notin Release
      BY LinuxUpgradeAssumption
    <3>9. status.phase # "complete"
      BY <1>0, <2>2, <3>3, LinuxUpgradeAssumption
      DEF ReleaseInv, CompleteIsInstalled, Installed, Helper, Name
    <3>10. ReleaseInv'
      BY <1>0, <3>1, <3>2, <3>3, <3>6, <3>8, <3>9
      DEF ReleaseInv, CompleteIsInstalled, StepInv, Installed, Same, Moves,
          Updating
    <3> QED BY <3>4, <3>5, <3>7, <3>10 DEF IInv
  <2> QED BY <2>1, <2>2
<1>3. CASE WriteHelper
  <2>1. Same("dropIn", 1)
    BY <1>0, <1>3, GoToMoves DEF WriteHelper, TypeOK, Step
  <2>2. TypeOK'
    BY <1>0, <1>3, <2>1
    DEF WriteHelper, At, Same, Moves, TypeOK, StepInv, Runnable, Version
  <2>3. StepInv'
    BY <1>0, <1>3, <2>1 DEF WriteHelper, At, Same, Moves, StepInv
  <2>4. JournalInv'
    BY <2>1 DEF Same, Moves, JournalInv
  <2>5. HelperInv'
    BY <1>0, <1>3, <2>1, LinuxUpgradeAssumption
    DEF WriteHelper, At, Same, Moves, HelperInv, HelperOutlivesTransaction,
        InUpgrade, Process
  <2>6. LoopInv'
    BY <1>0, <1>3, <2>1 DEF WriteHelper, At, Same, Moves, LoopInv
  <2>7. /\ pending.state = "none" /\ bin[Helper] = Torn
        /\ Helper \in Name /\ Torn \notin Release
        /\ setup.phase # "complete" /\ setup.release = accepted
        /\ accepted \in Nat
    BY <1>0, <1>3, LinuxUpgradeAssumption
    DEF WriteHelper, At, TypeOK, StepInv, JournalInv, HelperInv, Helper, Name,
        Process
  <2>8. ReleaseInv'
    <3>1. \A n \in Name : Installed'[n] \in {Installed[n], accepted}
      BY <1>0, <1>3, <2>7 DEF WriteHelper, Installed, TypeOK
    <3>2. status.phase # "complete"
      BY <1>0, <2>7 DEF ReleaseInv, CompleteIsInstalled, Installed
    <3> QED BY <1>0, <1>3, <2>1, <2>7, <3>1, <3>2
        DEF WriteHelper, Same, Moves, ReleaseInv, CompleteIsInstalled
  <2> QED BY <2>2, <2>3, <2>4, <2>5, <2>6, <2>8 DEF IInv
<1>4. CASE TruncateDropIn
  <2>1. Same("dropInData", 1)
    BY <1>a, <1>4, GoToMoves DEF TruncateDropIn, Step
  <2>2. TypeOK'
    BY <1>0, <1>4, <2>1 DEF TruncateDropIn, files, Same, Moves, Ended, TypeOK
  <2>3. StepInv'
    BY <1>0, <1>4, <2>1 DEF TruncateDropIn, At, Same, Moves, StepInv
  <2>4. JournalInv'
    BY <2>1 DEF Same, Moves, Ended, JournalInv
  <2>5. HelperInv'
    BY <1>0, <1>4, <2>1
    DEF TruncateDropIn, At, files, Same, Moves, Ended, StepInv, HelperInv,
        HelperOutlivesTransaction, InUpgrade, Updating
  <2>6. LoopInv'
    BY <1>0, <1>4, <2>1, NamesLoop
    DEF TruncateDropIn, At, files, Same, Moves, StepInv, LoopInv
  <2>7. Installed' = Installed
    BY <1>4, InstalledKept DEF Keeps
  <2>8. ReleaseInv'
    BY <1>0, <1>4, <2>1, <2>7
    DEF TruncateDropIn, files, Same, Moves, Ended, ReleaseInv,
        CompleteIsInstalled
  <2> QED BY <2>2, <2>3, <2>4, <2>5, <2>6, <2>8 DEF IInv
<1>23. CASE WriteDropIn
  <2>1. Same("reload", 1)
    BY <1>a, <1>23, GoToMoves DEF WriteDropIn, Step
  <2>2. TypeOK'
    BY <1>0, <1>23, <2>1 DEF WriteDropIn, files, Same, Moves, Ended, TypeOK
  <2>3. StepInv'
    BY <1>0, <1>23, <2>1 DEF WriteDropIn, At, Same, Moves, StepInv
  <2>4. JournalInv'
    BY <2>1 DEF Same, Moves, Ended, JournalInv
  <2>5. HelperInv'
    BY <1>0, <1>23, <2>1
    DEF WriteDropIn, At, files, Same, Moves, Ended, StepInv, HelperInv,
        HelperOutlivesTransaction, InUpgrade, Updating
  <2>6. LoopInv'
    BY <1>0, <1>23, <2>1, NamesLoop
    DEF WriteDropIn, At, files, Same, Moves, StepInv, LoopInv
  <2>7. Installed' = Installed
    BY <1>23, InstalledKept DEF Keeps
  <2>8. ReleaseInv'
    BY <1>0, <1>23, <2>1, <2>7
    DEF WriteDropIn, files, Same, Moves, Ended, ReleaseInv, CompleteIsInstalled
  <2> QED BY <2>2, <2>3, <2>4, <2>5, <2>6, <2>8 DEF IInv
<1>24. CASE Reload
  <2>1. \/ Same("restore", 1) /\ unit' = (dropIn = "written")
        \/ /\ Same("report", 1) \/ (setup.purpose = "prestart" /\ Ended)
           /\ unit' \in {unit, dropIn = "written"}
    <3>1. CASE GoTo("restore") /\ unit' = (dropIn = "written")
      BY <1>a, <3>1, GoToMoves DEF Step
    <3>2. CASE Fail /\ unit' \in {unit, dropIn = "written"}
      BY <1>a, <3>2, FailMoves
    <3> QED BY <1>24, <3>1, <3>2 DEF Reload
  <2>2. TypeOK'
    BY <1>0, <1>24, <2>1 DEF Reload, files, Same, Moves, Ended, TypeOK
  <2>3. StepInv'
    BY <1>0, <1>24, <2>1 DEF Reload, At, Same, Moves, StepInv
  <2>4. JournalInv'
    BY <2>1 DEF Same, Moves, Ended, JournalInv
  <2>5. HelperInv'
    BY <1>0, <1>24, <2>1
    DEF Reload, At, files, Same, Moves, Ended, StepInv, HelperInv,
        HelperOutlivesTransaction, InUpgrade, Updating
  <2>6. LoopInv'
    BY <1>0, <1>24, <2>1, NamesLoop
    DEF Reload, At, files, Same, Moves, StepInv, LoopInv
  <2>7. Installed' = Installed
    BY <1>24, InstalledKept DEF Keeps
  <2>8. ReleaseInv'
    BY <1>0, <1>24, <2>1, <2>7
    DEF Reload, files, Same, Moves, Ended, ReleaseInv, CompleteIsInstalled
  <2> QED BY <2>2, <2>3, <2>4, <2>5, <2>6, <2>8 DEF IInv
<1>5. CASE RestoreName
  <2>1. \/ setup.next = 3 /\ Same("restored", 1)
        \/ setup.next \in 1 .. 2 /\ Same("restore", setup.next + 1)
    <3>1. Advance("restored") /\ setup.pc = "restore" /\ "restored" \in Step
      BY <1>5 DEF RestoreName, At, Step
    <3> QED BY <1>a, <3>1, AdvanceMoves
  <2>2. TypeOK'
    BY <1>0, <1>5, <2>1
    DEF RestoreName, Same, Moves, TypeOK, Installed, Version
  <2>3. StepInv'
    BY <1>0, <1>5, <2>1 DEF RestoreName, At, Same, Moves, StepInv
  <2>4. JournalInv'
    BY <1>5, <2>1 DEF RestoreName, Same, Moves, JournalInv
  <2>5. HelperInv'
    BY <1>0, <1>5, <2>1, NamesLoop
    DEF RestoreName, At, Same, Moves, HelperInv, HelperOutlivesTransaction,
        InUpgrade, Installed
  <2>6. LoopInv'
    <3> PICK k \in 1 .. 3 : k = setup.next
      BY <1>a DEF Process
    <3> DEFINE n == names[k]
    <3>1. /\ setup.pc = "restore" /\ n \in Name /\ pending.state = "written"
          /\ bin' = [bin EXCEPT ![n] = Installed[n]]
          /\ Installed' = Installed
      BY <1>5, NamesLoop DEF RestoreName, At, Installed
    <3>2. \A m \in Passed(k) \cup {n} : bin'[m] = Installed'[m]
      BY <1>0, <3>1, NamesLoop DEF TypeOK, LoopInv
    <3>3. setup.purpose = "rollback" \/ setup.existing = {}
      BY <1>0, <3>1 DEF LoopInv
    <3>4. CASE k = 3
      BY <2>1, <3>2, <3>3, <3>4, NamesLoop DEF LoopInv, Same, Moves, Updating
    <3>5. CASE k # 3
      <4>1. Passed(setup'.next) = Passed(k) \cup {n}
        BY <2>1, <3>5, NamesLoop DEF Same, Moves
      <4> QED BY <2>1, <3>2, <3>3, <3>5, <4>1
          DEF LoopInv, Same, Moves, Updating
    <3> QED BY <3>4, <3>5
  <2>7. Installed' = Installed
    BY <1>5, InstalledKept DEF Keeps
  <2>8. ReleaseInv'
    BY <1>0, <1>5, <2>1, <2>7
    DEF RestoreName, Same, Moves, ReleaseInv, CompleteIsInstalled
  <2> QED BY <2>2, <2>3, <2>4, <2>5, <2>6, <2>8 DEF IInv
<1>6. CASE RecoverDone
  <2>1. \/ setup.purpose = "prestart" /\ Ended
        \/ setup.purpose = "upgrade" /\ Same("backup", 1)
        \/ setup.purpose = "rollback" /\ Same("restart", 1)
    <3>1. CASE setup.purpose = "prestart"
      BY <1>6, <3>1, EndMoves DEF RecoverDone
    <3>2. CASE setup.purpose = "upgrade"
      <4>1. GoTo("backup") /\ "backup" \in Step
        BY <1>6, <3>2 DEF RecoverDone, Step
      <4> QED BY <1>a, <3>2, <4>1, GoToMoves
    <3>3. CASE setup.purpose = "rollback"
      <4>1. GoTo("restart") /\ "restart" \in Step
        BY <1>6, <3>3 DEF RecoverDone, Step
      <4> QED BY <1>a, <3>3, <4>1, GoToMoves
    <3> QED BY <1>a, <3>1, <3>2, <3>3 DEF Process
  <2>2. TypeOK'
    BY <1>0, <1>6, <2>1 DEF RecoverDone, NoJournal, Same, Moves, Ended, TypeOK
  <2>3. StepInv'
    BY <1>0, <1>6, <2>1 DEF RecoverDone, At, Same, Moves, Ended, StepInv
  <2>4. JournalInv'
    BY <1>6, <2>1
    DEF RecoverDone, NoJournal, Same, Moves, Ended, JournalInv, Updating
  <2>5. HelperInv'
    BY <1>0, <1>6, <2>1
    DEF RecoverDone, At, NoJournal, Same, Moves, Ended, HelperInv,
        HelperOutlivesTransaction, InUpgrade, Updating
  <2>6. LoopInv'
    BY <1>0, <1>6, <2>1, NamesLoop
    DEF RecoverDone, At, Same, Moves, Ended, LoopInv, Updating
  <2>7. Installed' = Installed
    BY <1>6, InstalledKept DEF Keeps
  <2>8. ReleaseInv'
    BY <1>0, <1>6, <2>1, <2>7
    DEF RecoverDone, NoJournal, Same, Moves, Ended, ReleaseInv,
        CompleteIsInstalled
  <2> QED BY <2>2, <2>3, <2>4, <2>5, <2>6, <2>8 DEF IInv
<1>7. CASE BackUp
  <2> PICK k \in 1 .. 3 : k = setup.next
    BY <1>a DEF Process
  <2> DEFINE n == names[k]
  <2>1. /\ setup.pc = "backup" /\ pending.state = "none"
        /\ k \in 1 .. 3 /\ n \in Name /\ n \notin Passed(k)
        /\ setup.purpose = "upgrade" /\ setup.phase = "failed"
        /\ UNCHANGED <<bin, pending, dropIn, unit, service, accepted, status>>
    BY <1>0, <1>a, <1>7, NamesLoop
    DEF BackUp, At, Process, JournalInv, StepInv
  <2>2. /\ setup'.pc = IF k = 3 THEN "journal" ELSE "backup"
        /\ setup'.next = IF k = 3 THEN 1 ELSE k + 1
        /\ setup'.purpose = "upgrade" /\ setup'.phase = "failed"
        /\ setup'.release = setup.release
    <3>1. PICK existing :
            setup' = [setup EXCEPT !.existing = existing,
                        !.pc = IF k = 3 THEN "journal" ELSE @,
                        !.next = IF k = 3 THEN 1 ELSE k + 1]
      <4>1. Len(names) = 3 /\ setup.next = k
        BY NamesLoop
      <4> HIDE DEF n
      <4> QED
        BY <1>7, <4>1 DEF BackUp
    <3>2. setup.pc = "backup"
      BY <1>7 DEF BackUp, At
    <3> QED
      BY <1>a, <2>1, <3>1, <3>2 DEF Process
  <2>3. IF bin[n] = Missing
        THEN setup'.existing = setup.existing /\ backup' = backup
        ELSE /\ setup'.existing = setup.existing \cup {n}
             /\ backup' = [backup EXCEPT ![n] = bin[n]]
    BY <1>a, <1>7 DEF BackUp, Process
  <2>4. setup' \in Process
    <3>1. setup' = [pc |-> setup'.pc, purpose |-> "upgrade",
                    release |-> setup.release, next |-> setup'.next,
                    existing |-> setup'.existing, phase |-> "failed"]
      BY <1>a, <1>7, <2>1, <2>2 DEF BackUp, Process
    <3>2. setup'.existing \in SUBSET Name
      BY <1>a, <2>1, <2>3 DEF Process
    <3>3. setup'.pc \in Step /\ setup'.next \in 1 .. 3
      BY <2>1, <2>2 DEF Step
    <3> QED BY <1>a, <3>1, <3>2, <3>3 DEF Process
  <2>5. TypeOK'
    BY <1>0, <2>1, <2>3, <2>4 DEF TypeOK
  <2>6. StepInv' /\ JournalInv' /\ HelperInv'
    BY <1>0, <2>1, <2>2
    DEF StepInv, JournalInv, HelperInv, HelperOutlivesTransaction, InUpgrade,
        Updating
  <2>7. LoopInv'
    <3>1. \A m \in Passed(k) : Saved(m)'
      BY <1>0, <2>1, <2>3, NamesLoop DEF TypeOK, LoopInv, Saved
    <3>2. n \notin setup.existing
      BY <1>0, <2>1 DEF LoopInv
    <3>3. setup'.existing \subseteq Passed(k) \cup {n}
      BY <1>0, <2>1, <2>3 DEF LoopInv
    <3>a. Saved(n)'
      BY <1>0, <2>1, <2>3, <3>2 DEF TypeOK, Saved
    <3>4. CASE k = 3
      BY <2>2, <3>1, <3>a, <3>4, NamesLoop DEF LoopInv, Updating, Saved
    <3>5. CASE k # 3
      <4>1. Passed(setup'.next) = Passed(k) \cup {n}
        BY <2>1, <2>2, <3>5, NamesLoop
      <4> QED BY <2>2, <3>1, <3>3, <3>a, <3>5, <4>1
          DEF LoopInv, Updating, Saved
    <3> QED BY <3>4, <3>5
  <2>8. ReleaseInv'
    <3>1. Installed' = Installed
      BY <1>7, InstalledKept DEF Keeps
    <3> QED BY <1>0, <2>1, <2>2, <3>1
        DEF ReleaseInv, CompleteIsInstalled, Updating
  <2> QED BY <2>5, <2>6, <2>7, <2>8 DEF IInv
<1>8. CASE CreateJournal
  <2>1. Same("sync", 1)
    BY <1>0, <1>8, GoToMoves DEF CreateJournal, TypeOK, Step
  <2>2. TypeOK'
    BY <1>0, <1>8, <2>1 DEF CreateJournal, NoJournal, Same, Moves, TypeOK
  <2>3. StepInv'
    BY <1>0, <1>8, <2>1 DEF CreateJournal, At, Same, Moves, StepInv
  <2>4. JournalInv'
    BY <1>8, <2>1 DEF CreateJournal, Same, Moves, JournalInv
  <2>5. HelperInv'
    BY <1>0, <1>8, <2>1
    DEF CreateJournal, At, Same, Moves, StepInv, HelperInv,
        HelperOutlivesTransaction, InUpgrade, Updating, Process
  <2>6. LoopInv'
    BY <1>0, <1>8, <2>1 DEF CreateJournal, At, Same, Moves, LoopInv, Saved
  <2>7. Installed' = Installed
    BY <1>8, InstalledKept DEF Keeps
  <2>8. ReleaseInv'
    BY <1>0, <1>8, <2>1, <2>7
    DEF CreateJournal, At, Same, Moves, StepInv, ReleaseInv,
        CompleteIsInstalled
  <2> QED BY <2>2, <2>3, <2>4, <2>5, <2>6, <2>8 DEF IInv
<1>9. CASE WriteJournal
  <2>1. \/ Same("copy", 1) \/ Same("report", 1)
        \/ setup.purpose = "prestart" /\ Ended
    <3>1. CASE GoTo("copy")
      BY <1>a, <3>1, GoToMoves DEF Step
    <3>2. CASE Fail
      BY <1>a, <3>2, FailMoves
    <3> QED BY <1>9, <3>1, <3>2 DEF WriteJournal
  <2>2. TypeOK'
    <3>1. pending' \in [state : {"none", "torn", "written"},
                        existing : SUBSET Name]
      BY <1>a, <1>9 DEF WriteJournal, Process
    <3>2. setup' \in Process
      BY <2>1 DEF Same, Moves, Ended
    <3> QED BY <1>0, <1>9, <3>1, <3>2 DEF WriteJournal, TypeOK
  <2>3. StepInv'
    BY <1>0, <1>9, <2>1 DEF WriteJournal, At, Same, Moves, StepInv
  <2>4. JournalInv'
    BY <1>9, <2>1 DEF WriteJournal, Same, Moves, Ended, JournalInv
  <2>5. HelperInv'
    <3>1. /\ pending'.state = "written" /\ pending'.existing = setup.existing
          /\ UNCHANGED <<bin, backup, dropIn, unit>> /\ setup.pc = "sync"
      BY <1>9 DEF WriteJournal, At
    <3>2. /\ unit /\ dropIn = "written" /\ bin[Helper] # Missing
          /\ \A n \in Name : Saved(n)
      BY <1>0, <3>1
      DEF StepInv, HelperInv, HelperOutlivesTransaction, InUpgrade, JournalInv,
          LoopInv, Updating
    <3>3. /\ Helper \in setup.existing
          /\ \A n \in setup.existing : backup[n] # Missing
      BY <1>a, <3>2 DEF Saved, Process, Helper, Name
    <3> QED BY <2>1, <3>1, <3>2, <3>3
        DEF HelperInv, HelperOutlivesTransaction, InUpgrade, Same, Moves,
            Ended, Updating
  <2>6. LoopInv'
    BY <2>1, NamesLoop DEF Same, Moves, Ended, LoopInv
  <2>7. Installed' = Installed
    BY <1>9, InstalledKept DEF Keeps
  <2>8. ReleaseInv'
    BY <1>0, <1>9, <2>1, <2>7
    DEF WriteJournal, At, Same, Moves, StepInv, ReleaseInv,
        CompleteIsInstalled
  <2> QED BY <2>2, <2>3, <2>4, <2>5, <2>6, <2>8 DEF IInv
<1>10. CASE CopyProgram
  <2>1. \/ setup.next = 3 /\ Same("restart", 1)
        \/ setup.next \in 1 .. 2 /\ Same("copy", setup.next + 1)
    <3>1. Advance("restart") /\ setup.pc = "copy" /\ "restart" \in Step
      BY <1>10 DEF CopyProgram, At, Step
    <3> QED BY <1>a, <3>1, AdvanceMoves
  <2>2. TypeOK'
    BY <1>0, <1>10, <2>1
    DEF CopyProgram, At, Same, Moves, TypeOK, StepInv, Runnable, Version
  <2>3. StepInv'
    BY <1>0, <1>10, <2>1 DEF CopyProgram, At, Same, Moves, StepInv
  <2>4. JournalInv'
    BY <1>0, <1>10, <2>1
    DEF CopyProgram, At, Same, Moves, StepInv, JournalInv, Updating, Process
  <2>5. HelperInv'
    BY <1>0, <1>10, <2>1, LinuxUpgradeAssumption
    DEF CopyProgram, At, Same, Moves, HelperInv, HelperOutlivesTransaction,
        InUpgrade, Updating, Process
  <2>6. LoopInv'
    BY <1>0, <1>10, <2>1, NamesLoop
    DEF CopyProgram, At, Same, Moves, LoopInv, TypeOK
  <2>7. Installed' = Installed
    BY <1>10, InstalledKept DEF Keeps
  <2>8. ReleaseInv'
    BY <1>0, <1>10, <2>1, <2>7
    DEF CopyProgram, Same, Moves, ReleaseInv, CompleteIsInstalled
  <2> QED BY <2>2, <2>3, <2>4, <2>5, <2>6, <2>8 DEF IInv
<1>11. CASE CopyFails
  <2>1. /\ Moves("restore", "rollback", 1, setup.existing, setup.phase)
          /\ setup'.release = setup.release
    BY <1>0, <1>11, RollbackMoves DEF CopyFails, TypeOK
  <2>2. TypeOK'
    BY <1>0, <1>11, <2>1 DEF CopyFails, files, Moves, TypeOK
  <2>3. StepInv'
    BY <1>0, <1>11, <2>1 DEF CopyFails, At, Moves, StepInv
  <2>4. JournalInv'
    BY <2>1 DEF Moves, JournalInv
  <2>5. HelperInv'
    BY <1>0, <1>11, <2>1
    DEF CopyFails, At, files, Moves, StepInv, JournalInv, HelperInv,
        HelperOutlivesTransaction, InUpgrade, Updating
  <2>6. LoopInv'
    BY <2>1, NamesLoop DEF Moves, LoopInv
  <2>7. Installed' = Installed
    BY <1>11, InstalledKept DEF Keeps
  <2>8. ReleaseInv'
    BY <1>0, <1>11, <2>1, <2>7
    DEF CopyFails, files, Moves, ReleaseInv, CompleteIsInstalled
  <2> QED BY <2>2, <2>3, <2>4, <2>5, <2>6, <2>8 DEF IInv
<1>12. CASE RestartService
  <2>1. Same("check", 1)
    BY <1>0, <1>12, GoToMoves DEF RestartService, TypeOK, Step
  <2>2. TypeOK'
    BY <1>0, <1>12, <2>1 DEF RestartService, files, Same, Moves, TypeOK
  <2>3. StepInv'
    BY <1>0, <1>12, <2>1 DEF RestartService, At, Same, Moves, StepInv
  <2>4. JournalInv'
    BY <1>0, <1>12, <2>1
    DEF RestartService, At, files, Same, Moves, JournalInv, Updating
  <2>5. HelperInv'
    BY <1>0, <1>12, <2>1
    DEF RestartService, At, files, Same, Moves, HelperInv,
        HelperOutlivesTransaction, InUpgrade, Updating
  <2>6. LoopInv'
    BY <1>0, <1>12, <2>1
    DEF RestartService, At, files, Same, Moves, LoopInv, Updating
  <2>7. Installed' = Installed
    BY <1>12, InstalledKept DEF Keeps
  <2>8. ReleaseInv'
    BY <1>0, <1>12, <2>1, <2>7, LinuxUpgradeAssumption
    DEF RestartService, files, Same, Moves, ReleaseInv, CompleteIsInstalled,
        Runnable
  <2> QED BY <2>2, <2>3, <2>4, <2>5, <2>6, <2>8 DEF IInv
<1>13. CASE HealthCheckPasses
  <2>1. IF setup.purpose = "upgrade" THEN Same("commit", 1)
          ELSE Same("report", 1)
    BY <1>0, <1>13, GoToMoves DEF HealthCheckPasses, TypeOK, Step
  <2>2. TypeOK'
    BY <1>0, <1>13, <2>1 DEF HealthCheckPasses, files, Same, Moves, TypeOK
  <2>3. StepInv'
    BY <1>0, <1>13, <2>1 DEF HealthCheckPasses, At, Same, Moves, StepInv
  <2>4. JournalInv'
    BY <1>0, <1>13, <2>1
    DEF HealthCheckPasses, At, files, Same, Moves, JournalInv, Updating
  <2>5. HelperInv'
    BY <1>0, <1>13, <2>1
    DEF HealthCheckPasses, At, files, Same, Moves, HelperInv,
        HelperOutlivesTransaction, InUpgrade, Updating
  <2>6. LoopInv'
    BY <1>0, <1>13, <2>1
    DEF HealthCheckPasses, At, files, Same, Moves, LoopInv, Updating
  <2>7. Installed' = Installed
    BY <1>13, InstalledKept DEF Keeps
  <2>8. ReleaseInv'
    BY <1>0, <1>13, <2>1, <2>7
    DEF HealthCheckPasses, files, Same, Moves, ReleaseInv, CompleteIsInstalled
  <2> QED BY <2>2, <2>3, <2>4, <2>5, <2>6, <2>8 DEF IInv
<1>14. CASE ActivateFails
  <2>1. IF setup.purpose = "upgrade"
          THEN /\ Moves("restore", "rollback", 1, setup.existing, setup.phase)
               /\ setup'.release = setup.release
          ELSE Same("report", 1)
    BY <1>0, <1>14, GoToMoves, RollbackMoves DEF ActivateFails, TypeOK, Step
  <2>2. TypeOK'
    BY <1>0, <1>14, <2>1 DEF ActivateFails, files, Same, Moves, TypeOK
  <2>3. StepInv'
    BY <1>0, <1>14, <2>1 DEF ActivateFails, At, Same, Moves, StepInv
  <2>4. JournalInv'
    BY <2>1 DEF Same, Moves, JournalInv
  <2>5. HelperInv'
    BY <1>0, <1>14, <2>1
    DEF ActivateFails, At, files, Same, Moves, JournalInv, HelperInv,
        HelperOutlivesTransaction, InUpgrade, Updating
  <2>6. LoopInv'
    BY <2>1, NamesLoop DEF Same, Moves, LoopInv
  <2>7. Installed' = Installed
    BY <1>14, InstalledKept DEF Keeps
  <2>8. ReleaseInv'
    BY <1>0, <1>14, <2>1, <2>7
    DEF ActivateFails, files, Same, Moves, ReleaseInv, CompleteIsInstalled
  <2> QED BY <2>2, <2>3, <2>4, <2>5, <2>6, <2>8 DEF IInv
<1>15. CASE Commit
  <2>1. /\ Moves("report", setup.purpose, setup.next, setup.existing,
                "complete")
          /\ setup'.release = setup.release
    BY <1>0, <1>15 DEF Commit, Process, TypeOK, Step, Moves
  <2>2. TypeOK'
    BY <1>0, <1>15, <2>1 DEF Commit, NoJournal, Moves, TypeOK
  <2>3. StepInv'
    BY <1>0, <1>15 DEF Commit, At, StepInv
  <2>4. JournalInv'
    BY <2>1 DEF Moves, JournalInv
  <2>5. HelperInv'
    BY <1>15, <2>1
    DEF Commit, NoJournal, Moves, HelperInv, HelperOutlivesTransaction,
        InUpgrade, Updating
  <2>6. LoopInv'
    BY <2>1 DEF Moves, LoopInv
  <2>8. ReleaseInv'
    BY <1>0, <1>15, LinuxUpgradeAssumption
    DEF Commit, At, NoJournal, StepInv, LoopInv, ReleaseInv, Updating,
        Installed, CompleteIsInstalled, TypeOK, Process
  <2> QED BY <2>2, <2>3, <2>4, <2>5, <2>6, <2>8 DEF IInv
<1>16. CASE FileFails
  <2>1. \/ setup.purpose = "prestart" /\ Ended
        \/ setup.purpose # "prestart" /\ Same("report", 1)
    BY <1>a, <1>16, FailMoves DEF FileFails
  <2>2. TypeOK'
    BY <1>0, <1>16, <2>1 DEF FileFails, files, Same, Moves, Ended, TypeOK
  <2>3. StepInv'
    BY <1>0, <1>16, <2>1 DEF FileFails, Same, Moves, Ended, StepInv
  <2>4. JournalInv'
    BY <2>1 DEF Same, Moves, Ended, JournalInv
  <2>5. HelperInv'
    BY <1>0, <1>16, <2>1
    DEF FileFails, files, Same, Moves, Ended, HelperInv,
        HelperOutlivesTransaction, InUpgrade, Updating
  <2>6. LoopInv'
    BY <2>1 DEF Same, Moves, Ended, LoopInv
  <2>7. Installed' = Installed
    BY <1>16, InstalledKept DEF Keeps
  <2>8. ReleaseInv'
    BY <1>0, <1>16, <2>1, <2>7
    DEF FileFails, Same, Moves, Ended, StepInv, ReleaseInv,
        CompleteIsInstalled
  <2> QED BY <2>2, <2>3, <2>4, <2>5, <2>6, <2>8 DEF IInv
<1>17. CASE Report
  <2>1. Ended
    BY <1>17, EndMoves DEF Report
  <2>2. TypeOK'
    <3>1. setup.release \in Nat /\ setup.phase \in {"failed", "complete"}
      BY <1>a DEF Process
    <3>2. status' \in [phase : {"none", "failed", "complete"}, release : Nat]
      BY <1>0, <1>17, <3>1 DEF Report, TypeOK
    <3> QED BY <1>0, <1>17, <2>1, <3>2 DEF Report, files, Ended, Moves, TypeOK
  <2>3. StepInv'
    BY <2>1 DEF Moves, Ended, StepInv
  <2>4. JournalInv'
    BY <2>1 DEF Moves, Ended, JournalInv
  <2>5. HelperInv'
    BY <1>0, <1>17, <2>1
    DEF Report, files, Moves, Ended, HelperInv, HelperOutlivesTransaction,
        InUpgrade, Updating
  <2>6. LoopInv'
    BY <2>1 DEF Moves, Ended, LoopInv
  <2>7. Installed' = Installed
    BY <1>17, InstalledKept DEF Keeps
  <2>8. ReleaseInv'
    <3>1. CompleteIsInstalled'
      <4>1. CASE status' = status
        BY <1>0, <2>7, <4>1 DEF ReleaseInv, CompleteIsInstalled
      <4>2. CASE /\ status'.phase = setup.phase
                 /\ status'.release = setup.release
        <5>1. setup.purpose # "prestart" /\ setup.pc = "report"
          BY <1>0, <1>17 DEF Report, At, StepInv
        <5>2. setup.release \in Release /\ setup.release >= setup.release
          <6>1. setup.release \in Release
            BY <1>0, <5>1 DEF StepInv
          <6>2. setup.release \in Nat
            BY <6>1, LinuxUpgradeAssumption
          <6> QED BY <6>1, <6>2
        <5>3. setup.phase = "complete" =>
                \A n \in Name : Installed[n] = setup.release
          BY <1>0 DEF ReleaseInv, Installed
        <5> QED BY <2>7, <4>2, <5>2, <5>3 DEF CompleteIsInstalled
      <4> QED BY <1>17, <4>1, <4>2 DEF Report
    <3> QED BY <1>0, <1>17, <2>1, <2>7, <3>1
        DEF Report, files, Ended, Moves, ReleaseInv, Updating
  <2> QED BY <2>2, <2>3, <2>4, <2>5, <2>6, <2>8 DEF IInv
<1>18. CASE StartService
  <2>1. IF unit /\ At("none")
        THEN Moves("restore", "prestart", 1, {}, "failed")
        ELSE setup' = setup
    <3>1. CASE unit /\ At("none")
      <4>1. setup' = [pc |-> "restore", purpose |-> "prestart", release |-> 0,
                      next |-> 1, existing |-> {}, phase |-> "failed"]
        BY <1>18, <3>1 DEF StartService, NoSetup
      <4>2. setup' \in Process
        BY <4>1 DEF Process, Step
      <4> QED BY <3>1, <4>1, <4>2 DEF Moves
    <3>2. CASE ~ (unit /\ At("none"))
      BY <1>18, <3>2 DEF StartService
    <3> QED BY <3>1, <3>2
  <2>2. TypeOK'
    BY <1>0, <1>18, <2>1 DEF StartService, files, Moves, TypeOK
  <2>3. StepInv'
    BY <1>0, <1>18, <2>1 DEF StartService, Moves, StepInv
  <2>4. JournalInv'
    BY <1>0, <1>18, <2>1 DEF StartService, files, Moves, JournalInv, Updating
  <2>5. HelperInv'
    BY <1>0, <1>18, <2>1
    DEF StartService, files, Moves, HelperInv, HelperOutlivesTransaction,
        InUpgrade, Updating
  <2>6. LoopInv'
    BY <1>0, <1>18, <2>1, NamesLoop
    DEF StartService, files, Moves, LoopInv, Saved, Updating, Installed
  <2>7. Installed' = Installed
    BY <1>18, InstalledKept DEF Keeps
  <2>8. ReleaseInv'
    BY <1>0, <1>18, <2>1, <2>7, LinuxUpgradeAssumption
    DEF StartService, files, Moves, ReleaseInv, CompleteIsInstalled, Runnable
  <2> QED BY <2>2, <2>3, <2>4, <2>5, <2>6, <2>8 DEF IInv
<1>19. CASE ExecStart
  <2>2. TypeOK'
    BY <1>0, <1>19 DEF ExecStart, files, TypeOK
  <2>3. StepInv'
    BY <1>0, <1>19 DEF ExecStart, StepInv
  <2>4. JournalInv'
    BY <1>0, <1>19 DEF ExecStart, files, JournalInv, Updating
  <2>5. HelperInv'
    BY <1>0, <1>19
    DEF ExecStart, files, HelperInv, HelperOutlivesTransaction, InUpgrade,
        Updating
  <2>6. LoopInv'
    BY <1>0, <1>19 DEF ExecStart, files, LoopInv, Saved, Updating, Installed
  <2>7. Installed' = Installed
    BY <1>19, InstalledKept DEF Keeps
  <2>8. ReleaseInv'
    <3>1. Updating /\ setup.pc = "check" /\ service' \in Runnable =>
            service' = setup.release
      BY <1>0, <1>19, LinuxUpgradeAssumption
      DEF ExecStart, LoopInv, Runnable, Daemon, Name
    <3> QED BY <1>0, <1>19, <2>7, <3>1
        DEF ExecStart, files, ReleaseInv, CompleteIsInstalled, Updating
  <2> QED BY <2>2, <2>3, <2>4, <2>5, <2>6, <2>8 DEF IInv
<1>20. CASE ServiceStops
  <2>2. TypeOK'
    BY <1>0, <1>20 DEF ServiceStops, files, TypeOK
  <2>3. StepInv'
    BY <1>0, <1>20 DEF ServiceStops, StepInv
  <2>4. JournalInv'
    BY <1>0, <1>20 DEF ServiceStops, files, JournalInv, Updating
  <2>5. HelperInv'
    BY <1>0, <1>20
    DEF ServiceStops, files, HelperInv, HelperOutlivesTransaction, InUpgrade,
        Updating
  <2>6. LoopInv'
    BY <1>0, <1>20
    DEF ServiceStops, files, LoopInv, Saved, Updating, Installed
  <2>7. Installed' = Installed
    BY <1>20, InstalledKept DEF Keeps
  <2>8. ReleaseInv'
    BY <1>0, <1>20, <2>7, LinuxUpgradeAssumption
    DEF ServiceStops, files, ReleaseInv, CompleteIsInstalled, Runnable
  <2> QED BY <2>2, <2>3, <2>4, <2>5, <2>6, <2>8 DEF IInv
<1>21. CASE Crash
  <2>1. Ended
    BY <1>21, EndMoves DEF Crash
  <2>2. TypeOK'
    BY <1>0, <1>21, <2>1 DEF Crash, files, Moves, Ended, TypeOK
  <2>3. StepInv'
    BY <2>1 DEF Moves, Ended, StepInv
  <2>4. JournalInv'
    BY <2>1 DEF Moves, Ended, JournalInv
  <2>5. HelperInv'
    BY <1>0, <1>21, <2>1
    DEF Crash, files, Moves, Ended, HelperInv, HelperOutlivesTransaction,
        InUpgrade, Updating
  <2>6. LoopInv'
    BY <2>1 DEF Moves, Ended, LoopInv
  <2>7. Installed' = Installed
    BY <1>21, InstalledKept DEF Keeps
  <2>8. ReleaseInv'
    BY <1>0, <1>21, <2>1, <2>7
    DEF Crash, Moves, Ended, ReleaseInv, CompleteIsInstalled
  <2> QED BY <2>2, <2>3, <2>4, <2>5, <2>6, <2>8 DEF IInv
<1>25. CASE PowerLoss
  <2>1. Ended
    BY <1>25, EndMoves DEF PowerLoss
  <2>2. TypeOK'
    BY <1>0, <1>25, <2>1 DEF PowerLoss, Moves, Ended, TypeOK
  <2>3. StepInv'
    BY <2>1 DEF Moves, Ended, StepInv
  <2>4. JournalInv'
    BY <2>1 DEF Moves, Ended, JournalInv
  <2>5. HelperInv'
    BY <1>0, <1>25, <2>1
    DEF PowerLoss, Moves, Ended, HelperInv, HelperOutlivesTransaction,
        InUpgrade, Updating
  <2>6. LoopInv'
    BY <2>1 DEF Moves, Ended, LoopInv
  <2>7. Installed' = Installed
    BY <1>25, InstalledKept DEF Keeps
  <2>8. ReleaseInv'
    BY <1>0, <1>25, <2>1, <2>7
    DEF PowerLoss, Moves, Ended, ReleaseInv, CompleteIsInstalled
  <2> QED BY <2>2, <2>3, <2>4, <2>5, <2>6, <2>8 DEF IInv
<1>26. CASE ReadUnits
  <2>2. TypeOK'
    BY <1>0, <1>26 DEF ReadUnits, files, TypeOK
  <2>3. StepInv'
    BY <1>0, <1>26 DEF ReadUnits, StepInv
  <2>4. JournalInv'
    BY <1>0, <1>26 DEF ReadUnits, files, JournalInv, Updating
  <2>5. HelperInv'
    BY <1>0, <1>26
    DEF ReadUnits, files, HelperInv, HelperOutlivesTransaction, InUpgrade,
        Updating
  <2>6. LoopInv'
    BY <1>0, <1>26 DEF ReadUnits, files, LoopInv, Saved, Updating, Installed
  <2>7. Installed' = Installed
    BY <1>26, InstalledKept DEF Keeps
  <2>8. ReleaseInv'
    BY <1>0, <1>26, <2>7
    DEF ReadUnits, files, ReleaseInv, CompleteIsInstalled, Updating
  <2> QED BY <2>2, <2>3, <2>4, <2>5, <2>6, <2>8 DEF IInv
<1>22. CASE UNCHANGED vars
  BY <1>0, <1>22
  DEF IInv, vars, files, TypeOK, StepInv, JournalInv, HelperInv,
      HelperOutlivesTransaction, InUpgrade, LoopInv, ReleaseInv, Saved,
      Updating, Installed, CompleteIsInstalled
<1> QED BY <1>1, <1>2, <1>3, <1>4, <1>5, <1>6, <1>7, <1>8, <1>9, <1>10, <1>11,
           <1>12, <1>13, <1>14, <1>15, <1>16, <1>17, <1>18, <1>19, <1>20,
           <1>21, <1>22, <1>23, <1>24, <1>25, <1>26
    DEF Next

LEMMA InitInductive ==
  Init => IInv
<1> SUFFICES ASSUME Init PROVE IInv
  OBVIOUS
<1>1. PICK cli \in {Original, Missing} :
        bin = [n \in Name |-> CASE n = Daemon -> Original
                                [] n = Helper -> Missing
                                [] OTHER -> cli]
  BY DEF Init
<1>2. /\ backup = [n \in Name |-> Missing] /\ pending = NoJournal
      /\ service \in {Original, Down} /\ accepted = 0 /\ dropIn = "none"
      /\ unit \in BOOLEAN /\ status = [phase |-> "none", release |-> 0]
      /\ setup = NoSetup
  BY DEF Init
<1>3. \A n \in Name : bin[n] \in {Original, Missing}
  BY <1>1
<1>4. TypeOK
  <2>1. setup \in Process
    BY <1>2 DEF NoSetup, Process, Step
  <2>2. bin \in [Name -> Version] /\ backup \in [Name -> Version]
    BY <1>1, <1>2 DEF Version, Runnable
  <2> QED BY <1>2, <2>1, <2>2 DEF TypeOK, NoJournal, Runnable
<1>5. StepInv /\ JournalInv /\ HelperInv /\ LoopInv
  BY <1>2
  DEF NoSetup, NoJournal, StepInv, JournalInv, HelperInv,
      HelperOutlivesTransaction, InUpgrade, LoopInv, Updating
<1>6. ReleaseInv
  BY <1>2, <1>3, LinuxUpgradeAssumption
  DEF NoSetup, NoJournal, ReleaseInv, Installed, CompleteIsInstalled, Updating
<1> QED BY <1>4, <1>5, <1>6 DEF IInv

\* IInv holds throughout.
THEOREM InductiveInvariant ==
  Spec => []IInv
BY InitInductive, Inductive, PTL DEF Spec

(***************************************************************************)
(* Every variable has its type.                                            *)
(***************************************************************************)
THEOREM TypeCorrect ==
  Spec => []TypeOK
<1>1. IInv => TypeOK
  BY DEF IInv
<1> QED BY <1>1, InductiveInvariant, PTL

(***************************************************************************)
(* A reported success is final: what is installed is that release or a     *)
(* later one, in all three programs, whatever is interrupted afterwards.   *)
(***************************************************************************)
THEOREM CompleteStaysInstalled ==
  Spec => []CompleteIsInstalled
<1>1. IInv => CompleteIsInstalled
  BY DEF IInv, ReleaseInv
<1> QED BY <1>1, InductiveInvariant, PTL

(***************************************************************************)
(* A transaction never outlives the helper that could undo it, and none is *)
(* begun or carried on unless the service would run that helper first.     *)
(***************************************************************************)
THEOREM HelperIsThere ==
  Spec => []HelperOutlivesTransaction
<1>1. IInv => HelperOutlivesTransaction
  BY DEF IInv, HelperInv
<1> QED BY <1>1, InductiveInvariant, PTL

-----------------------------------------------------------------------------
\* Only a health check that passes leads to a commit.
LEMMA NoOtherTrial ==
  ASSUME setup \in Process, Keeps,
         ~ (HealthCheckPasses /\ setup.purpose = "upgrade")
  PROVE  setup' = setup \/ setup'.pc # "commit"
<1> USE DEF Same, Moves, Ended
<1>1. CASE \E r \in Release : StartUpdate(r)
  BY <1>1 DEF StartUpdate, NoSetup
<1>2. CASE Reload \/ WriteJournal \/ FileFails
  <2>1. GoTo("restore") \/ GoTo("copy") \/ Fail
    BY <1>2 DEF Reload, WriteJournal, FileFails
  <2>2. Fail => setup'.pc # "commit"
    BY FailMoves
  <2>3. GoTo("restore") \/ GoTo("copy") => setup'.pc # "commit"
    BY GoToMoves DEF Step
  <2> QED BY <2>1, <2>2, <2>3
<1>3. CASE RestoreName \/ CopyProgram
  <2>1. /\ Advance("restored") \/ Advance("restart")
        /\ setup.pc \in {"restore", "copy"}
    BY <1>3 DEF RestoreName, CopyProgram, At
  <2>2. "restored" \in Step /\ "restart" \in Step
    BY DEF Step
  <2> QED BY <2>1, <2>2, AdvanceMoves
<1>4. CASE RecoverDone
  <2>1. setup' = NoSetup \/ GoTo("backup") \/ GoTo("restart")
    BY <1>4 DEF RecoverDone, Process
  <2>2. "backup" \in Step /\ "restart" \in Step
    BY DEF Step
  <2> QED BY <2>1, <2>2, GoToMoves, EndMoves
<1>5. CASE BackUp
  BY <1>5 DEF BackUp, At, Process
<1>6. CASE TruncateDropIn \/ WriteDropIn \/ CreateJournal \/ RestartService
  <2>1. \/ GoTo("dropInData") \/ GoTo("reload")
        \/ GoTo("sync") \/ GoTo("check")
    BY <1>6 DEF TruncateDropIn, WriteDropIn, CreateJournal, RestartService
  <2> QED BY <2>1, GoToMoves DEF Step
<1>7. CASE CopyFails \/ ActivateFails \/ HealthCheckPasses
  <2>1. Rollback \/ GoTo("report")
    BY <1>7 DEF CopyFails, ActivateFails, HealthCheckPasses
  <2> QED BY <2>1, RollbackMoves, GoToMoves DEF Step
<1>8. CASE Report \/ Crash \/ PowerLoss
  BY <1>8, EndMoves DEF Report, Crash, PowerLoss
<1>9. CASE StartService
  BY <1>9 DEF StartService, NoSetup
<1>10. CASE ExecStart \/ ServiceStops \/ ReadUnits
  BY <1>10 DEF ExecStart, ServiceStops, ReadUnits
<1> QED BY <1>1, <1>2, <1>3, <1>4, <1>5, <1>6, <1>7, <1>8, <1>9, <1>10
    DEF Keeps

\* A step of LinuxUpgrade is a step of AtomicUpgrade or leaves it as it was.
LEMMA StepRefines ==
  ASSUME IInv, [Next]_vars
  PROVE  [Atomic!Next]_Atomic!vars
<1>0. TypeOK /\ StepInv /\ JournalInv /\ HelperInv /\ LoopInv /\ ReleaseInv
  BY DEF IInv
<1>a. setup \in Process
  BY <1>0 DEF TypeOK
<1> DEFINE trial == IF setup.pc = "commit" THEN setup.release ELSE 0
<1>1. CASE HealthCheckPasses /\ setup.purpose = "upgrade"
  <2>1. /\ setup.pc = "check" /\ service \in Runnable /\ service' = service
        /\ Same("commit", 1)
    BY <1>a, <1>1, GoToMoves DEF HealthCheckPasses, At, Step
  <2>2. service = setup.release /\ service \in Release /\ service = accepted
    BY <1>0, <1>1, <2>1 DEF ReleaseInv, StepInv, Updating
  <2>3. \A n \in Name : Installed[n] \in Release => Installed[n] <= service
    BY <1>0, <2>2 DEF ReleaseInv
  <2>4. Installed' = Installed
    BY <1>1, InstalledKept DEF Keeps
  <2>5. trial' = service
    BY <2>1, <2>2 DEF Same, Moves
  <2> QED BY <2>1, <2>2, <2>3, <2>4, <2>5
      DEF Atomic!Next, Atomic!PassHealthCheck, Atomic!Newest
<1>2. CASE Commit
  <2>1. /\ setup.pc = "commit" /\ setup'.pc = "report"
        /\ pending'.state = "none" /\ bin' = bin /\ service' = service
    BY <1>a, <1>2 DEF Commit, At, NoJournal, Process
  <2>2. setup.release \in Release /\ \A n \in Name : bin[n] = setup.release
    BY <1>0, <1>a, <2>1 DEF StepInv, LoopInv, Updating, Process
  <2>3. Installed' = [n \in Name |-> setup.release]
    BY <1>0, <2>1, <2>2 DEF TypeOK, Installed
  <2>4. setup.release # 0
    BY <2>2, LinuxUpgradeAssumption
  <2> QED BY <2>1, <2>3, <2>4 DEF Atomic!Next, Atomic!Switch
<1>3. CASE CreateHelper \/ WriteHelper
  <2>1. /\ setup.pc \in {"helper", "helperData"} /\ setup'.pc # "commit"
        /\ UNCHANGED <<backup, pending, service>>
    BY <1>a, <1>3, GoToMoves
    DEF CreateHelper, WriteHelper, At, Step, Same, Moves
  <2>2. CASE bin' = bin
    BY <2>1, <2>2 DEF Installed, Atomic!vars
  <2>3. CASE bin' # bin
    <3>1. PICK v \in Version : bin' = [bin EXCEPT ![Helper] = v]
      BY <1>0, <1>3, <2>3
      DEF CreateHelper, WriteHelper, At, StepInv, Version, Runnable
    <3>2. pending.state # "written" /\ bin[Helper] \in {Missing, Torn}
      BY <1>0, <1>3, <2>3
      DEF CreateHelper, WriteHelper, At, JournalInv, HelperInv,
          HelperOutlivesTransaction
    <3>3. bin[Helper] \notin Release
      BY <3>2, LinuxUpgradeAssumption
    <3>4. Installed = bin /\ Installed' = bin'
      BY <2>1, <3>2 DEF Installed
    <3> QED BY <2>1, <3>1, <3>3, <3>4 DEF Atomic!Next, Atomic!PlaceHelper
  <2> QED BY <2>2, <2>3
<1>4. CASE Keeps /\ ~ (HealthCheckPasses /\ setup.purpose = "upgrade")
  <2>1. Installed' = Installed
    BY <1>4, InstalledKept
  <2>2. setup' = setup \/ setup'.pc # "commit"
    BY <1>4, <1>a, NoOtherTrial
  <2>3. trial' \in {trial, 0}
    BY <2>2
  <2> QED BY <2>1, <2>3 DEF Atomic!Next, Atomic!Run
<1>5. CASE UNCHANGED vars
  BY <1>5 DEF vars, files, Installed, Atomic!vars
<1> QED BY <1>1, <1>2, <1>3, <1>4, <1>5 DEF Next, Keeps

(***************************************************************************)
(* LinuxUpgrade implements AtomicUpgrade, for every set of releases.       *)
(***************************************************************************)
THEOREM Refinement ==
  Spec => UpgradeIsAtomic
<1>1. Init => Atomic!Init
  <2> SUFFICES ASSUME Init PROVE Atomic!Init
    OBVIOUS
  <2>1. PICK cli \in {Original, Missing} :
          bin = [n \in Name |-> CASE n = Daemon -> Original
                                  [] n = Helper -> Missing
                                  [] OTHER -> cli]
    BY DEF Init
  <2>2. Installed = bin /\ setup.pc # "commit"
    BY DEF Init, NoJournal, NoSetup, Installed
  <2>3. {Original, Missing} \subseteq Version \ Release
    BY LinuxUpgradeAssumption DEF Version, Runnable
  <2>4. bin \in [Name -> Version \ Release]
    BY <2>1, <2>3
  <2> QED BY <2>2, <2>4 DEF Atomic!Init
<1> QED BY <1>1, StepRefines, InductiveInvariant, PTL
    DEF Spec, UpgradeIsAtomic, Atomic!Spec

=============================================================================
