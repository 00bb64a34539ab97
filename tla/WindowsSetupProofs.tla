-------------------------- MODULE WindowsSetupProofs --------------------------
(***************************************************************************)
(* Proofs about WindowsSetup, for any number of Setup processes, releases  *)
(* and background programs: its invariants, and that it implements         *)
(* VersionSwitch.                                                          *)
(***************************************************************************)
EXTENDS WindowsSetup, TLAPS

Proc ==
  [pc : Step, purpose : Purpose, release : Release \cup {0},
   target : Release \cup {0}]

\* Steps of windowsinstaller, and those of an activation.
Inside ==
  {"prune", "files", "select", "mark", "pruneRest", "restore", "journal",
   "commit", "forget", "swap", "remove"}

Activating ==
  {"helper", "rename", "list", "shortcut", "signIn", "stop", "start", "probe",
   "request", "await"}

\* Upgrade and RecoverUpgrade activate under the lock, too.
HoldsLock(p) ==
  \/ proc[p].pc \in Inside
  \/ /\ proc[p].purpose \in {"upgrade", "revert", "recover"}
     /\ proc[p].pc \notin {"idle", "lock"}
  => lock = p

PurposeFits(p) ==
  /\ At(p, "lock") => proc[p].purpose \notin {"revert", "agent"}
  /\ At(p, "prune") => Is(p, "install")
  /\ At(p, "journal") \/ At(p, "commit") => Is(p, "upgrade")
  /\ proc[p].pc \in {"files", "select", "mark"} =>
       proc[p].purpose \in {"install", "upgrade"}
  /\ At(p, "restore") \/ At(p, "forget") =>
       proc[p].purpose \in {"revert", "recover", "signIn"}
  /\ At(p, "swap") => Is(p, "rollback")
  /\ At(p, "remove") => Is(p, "uninstall")
  /\ At(p, "agent") => Is(p, "agent")

ValuesFit(p) ==
  /\ ~At(p, "idle") /\ proc[p].purpose \in {"install", "upgrade", "recover"}
       => proc[p].release \in Release
  /\ proc[p].pc \in Activating \cup {"commit", "forget"} =>
       proc[p].target \in Release
  /\ Is(p, "upgrade") /\ proc[p].pc \in Activating =>
       proc[p].target = proc[p].release

\* What the records say while a process holds the lock.
RecordsFit(p) ==
  /\ proc[p].pc \in {"prune", "pruneRest", "journal", "swap", "remove"} =>
       pending = NoState
  /\ proc[p].pc \in {"files", "select", "mark"} /\ Is(p, "install") =>
       pending = NoState
  /\ proc[p].pc \in {"journal", "swap"} => current # NoState
  /\ At(p, "swap") => current.previous \in Release
  /\ proc[p].pc \in {"files", "select"} /\ Is(p, "upgrade") =>
       pending # NoState /\ current = pending
  /\ /\ proc[p].pc \in {"mark", "commit"} \cup Activating
     /\ Is(p, "upgrade")
     => pending # NoState /\ current = Selecting(proc[p].release, pending)
  /\ At(p, "restore") => pending # NoState
  /\ /\ proc[p].pc \in Activating \cup {"forget"}
     /\ \/ proc[p].purpose \in {"revert", "recover"}
        \/ Is(p, "signIn") /\ lock = p
     => pending # NoState /\ current = pending

\* What is about to be selected is whole.
SelectsWhole(p) == At(p, "select") => versions[proc[p].release] = "whole"

ProcOK(p) ==
  HoldsLock(p) /\ PurposeFits(p) /\ ValuesFit(p) /\ RecordsFit(p)
  /\ SelectsWhole(p)

\* An upgrade is pending only where something is installed.
UpgradeOfSome == pending # NoState => current # NoState

IInv ==
  TypeOK /\ RetainedAreWhole /\ UpgradeOfSome /\ \A p \in Setup : ProcOK(p)

-----------------------------------------------------------------------------
(* Processes.                                                              *)

LEMMA Types ==
  ASSUME IInv
  PROVE  /\ versions \in [Release -> Directory] /\ proc \in [Setup -> Proc]
         /\ current \in Selection \cup {NoState}
         /\ pending \in Selection \cup {NoState}
         /\ lock \in Setup \cup {NoSetup} /\ NoSetup \notin Setup
         /\ 0 \notin Release
BY WindowsSetupAssumption DEF IInv, TypeOK, Proc

LEMMA SelectionIsSome == ASSUME NEW s \in Selection PROVE s # NoState
<1>1. Release \cup {0} \subseteq Nat
  BY WindowsSetupAssumption
<1>2. s \in [current : Nat, previous : Nat]
  BY <1>1 DEF Selection
<1>. QED
  BY <1>2, WindowsSetupAssumption

LEMMA NoProcTyped == NoProc \in Proc /\ NoProc.pc = "idle"
BY DEF NoProc, Proc, Step, Purpose

\* A process that has ended promises nothing.
LEMMA EndedIsOK ==
  ASSUME NEW p \in Setup, proc'[p] = NoProc
  PROVE  ProcOK(p)'
BY NoProcTyped
   DEF ProcOK, HoldsLock, PurposeFits, ValuesFit, RecordsFit, SelectsWhole,
       At, Is, Inside, Activating

\* Another process is not disturbed: who has the lock has the files.
LEMMA OtherIsOK ==
  ASSUME IInv, NEW p \in Setup, NEW q \in Setup \ {p},
         proc'[q] \in {proc[q], NoProc}, (lock' = q) <=> (lock = q),
         UNCHANGED <<versions, current, pending>> \/ lock = p
  PROVE  ProcOK(q)'
<1>1. CASE proc'[q] = NoProc
  BY <1>1, EndedIsOK
<1>2. CASE proc'[q] = proc[q]
  <2>1. ProcOK(q)
    BY DEF IInv
  <2>2. HoldsLock(q)' /\ PurposeFits(q)' /\ ValuesFit(q)'
    BY <1>2, <2>1 DEF ProcOK, HoldsLock, PurposeFits, ValuesFit, At, Is
  <2>3. CASE UNCHANGED <<versions, current, pending>>
    BY <1>2, <2>1, <2>2, <2>3
       DEF ProcOK, RecordsFit, SelectsWhole, At, Is, Selecting
  <2>4. CASE lock = p
    <3>1. lock # q
      BY <2>4
    <3>2. /\ proc[q].pc \notin Inside
          /\ proc[q].purpose \in {"upgrade", "revert", "recover"} =>
               proc[q].pc \in {"idle", "lock"}
      BY <2>1, <3>1 DEF ProcOK, HoldsLock
    <3>3. RecordsFit(q)' /\ SelectsWhole(q)'
      BY <1>2, <3>1, <3>2
         DEF RecordsFit, SelectsWhole, At, Is, Inside, Activating
    <3>. QED
      BY <2>2, <3>3 DEF ProcOK
  <2>. QED
    BY <2>3, <2>4
<1>. QED
  BY <1>1, <1>2

\* A step of one process.
LEMMA Assemble ==
  ASSUME IInv, NEW p \in Setup, TypeOK', ProcOK(p)', RetainedAreWhole',
         UpgradeOfSome',
         \A q \in Setup \ {p} : /\ proc'[q] \in {proc[q], NoProc}
                                /\ (lock' = q) <=> (lock = q),
         UNCHANGED <<versions, current, pending>> \/ lock = p
  PROVE  IInv'
<1>1. \A q \in Setup \ {p} : ProcOK(q)'
  BY OtherIsOK
<1>. QED
  BY <1>1 DEF IInv

LEMMA RecordsStay ==
  ASSUME IInv, UNCHANGED <<files, broken>>
  PROVE  RetainedAreWhole' /\ UpgradeOfSome'
BY DEF IInv, RetainedAreWhole, UpgradeOfSome, files, Mentioned

\* The types of what no process relies on.
OutsideOK ==
  /\ {marker, helper, listed, signIn, agentDue, broken} \subseteq BOOLEAN
  /\ {shortcut, endpoint, task} \subseteq Release \cup {0}
  /\ running \subseteq Background \X Release
  /\ accepted \in Release \cup {0}

LEMMA OutsideStays ==
  ASSUME IInv, UNCHANGED <<marker, entries, session, accepted, broken>>
  PROVE  OutsideOK'
BY DEF IInv, TypeOK, OutsideOK, entries, session

\* What the step of a process leaves to the others.
Undisturbed(p) ==
  /\ proc' \in [Setup -> Proc] /\ lock' \in Setup \cup {NoSetup}
  /\ \A q \in Setup \ {p} : /\ proc'[q] \in {proc[q], NoProc}
                            /\ (lock' = q) <=> (lock = q)

LEMMA GoesOn ==
  ASSUME IInv, NEW p \in Setup, NEW pc \in Step, GoTo(p, pc), UNCHANGED lock
  PROVE  /\ Undisturbed(p)
         /\ proc'[p].pc = pc /\ proc'[p].purpose = proc[p].purpose
         /\ proc'[p].release = proc[p].release
         /\ proc'[p].target = proc[p].target
BY Types DEF GoTo, Undisturbed, Proc

LEMMA Becomes ==
  ASSUME IInv, NEW p \in Setup, NEW x \in Proc,
         proc' = [proc EXCEPT ![p] = x], UNCHANGED lock
  PROVE  Undisturbed(p) /\ proc'[p] = x
BY Types DEF Undisturbed

LEMMA Leaves ==
  ASSUME IInv, NEW p \in Setup, NEW x \in Proc, Leave(p, x)
  PROVE  Undisturbed(p) /\ proc'[p] = x /\ lock' # p
BY Types DEF Leave, Undisturbed

LEMMA Ends ==
  ASSUME IInv, NEW p \in Setup, End(p)
  PROVE  Undisturbed(p) /\ proc'[p] = NoProc /\ ProcOK(p)'
<1>1. Leave(p, NoProc) /\ NoProc \in Proc
  BY NoProcTyped DEF End
<1>2. Undisturbed(p) /\ proc'[p] = NoProc
  BY <1>1, Leaves
<1>. QED
  BY <1>2, EndedIsOK

\* A step that fails: the process ends, or restores the selection.
LEMMA Failing ==
  ASSUME IInv, NEW p \in Setup, ~At(p, "idle"), Fail(p), UNCHANGED pending
  PROVE  Undisturbed(p) /\ ProcOK(p)'
<1>. DEFINE back == /\ Is(p, "upgrade") /\ pending # NoState
                    /\ ~At(p, "commit") /\ ~At(p, "lock")
            x == [proc[p] EXCEPT !.pc = "restore", !.purpose = "revert"]
<1>1. CASE ~back
  BY <1>1, Ends DEF Fail
<1>2. CASE back
  <2>1. /\ x \in Proc /\ x.pc = "restore" /\ x.purpose = "revert"
        /\ proc[p] \in Proc
    <3>1. proc[p] \in Proc
      BY Types
    <3>. QED
      BY <3>1 DEF Proc, Step, Purpose
  <2>2. proc' = [proc EXCEPT ![p].pc = "restore", ![p].purpose = "revert"]
        /\ UNCHANGED lock
    BY <1>2 DEF Fail
  <2>3. proc' = [proc EXCEPT ![p] = x]
    BY <2>2
  <2>. HIDE DEF x
  <2>4. Undisturbed(p) /\ proc'[p] = x
    BY <2>1, <2>2, <2>3, Becomes
  <2>5. lock = p
    BY <1>2 DEF IInv, ProcOK, HoldsLock, At, Is
  <2>6. ProcOK(p)'
    BY <1>2, <2>1, <2>2, <2>4, <2>5
       DEF ProcOK, HoldsLock, PurposeFits, ValuesFit, RecordsFit,
           SelectsWhole, At, Is, Inside, Activating
  <2>. QED
    BY <2>4, <2>6
<1>. QED
  BY <1>1, <1>2

LEMMA TypesTogether ==
  ASSUME NEW p \in Setup, Undisturbed(p), OutsideOK',
         versions' \in [Release -> Directory],
         current' \in Selection \cup {NoState},
         pending' \in Selection \cup {NoState}
  PROVE  TypeOK'
BY DEF Undisturbed, OutsideOK, TypeOK, Proc

\* Steps that leave the installed files alone.
LEMMA QuietKeeps ==
  ASSUME IInv, NEW p \in Setup, Undisturbed(p), ProcOK(p)', OutsideOK',
         UNCHANGED <<files, broken>>
  PROVE  IInv'
<1>1. UNCHANGED <<versions, current, pending>>
  BY DEF files
<1>2. TypeOK'
  BY <1>1, Types, TypesTogether
<1>. QED
  BY <1>1, <1>2, RecordsStay, Assemble DEF Undisturbed

-----------------------------------------------------------------------------
(* Commands, and entering windowsinstaller.                                *)

LEMMA BeginInstallKeeps ==
  ASSUME IInv, NEW p \in Setup, NEW r \in Release, BeginInstall(p, r)
  PROVE  IInv'
<1>. DEFINE x == [NoProc EXCEPT !.pc = "lock", !.release = r,
                    !.purpose = IF current = NoState THEN "install"
                                ELSE "recover"]
<1>1. /\ x \in Proc /\ x.pc = "lock" /\ x.release = r
      /\ x.purpose \in {"install", "recover"}
  BY DEF NoProc, Proc, Step, Purpose
<1>2. /\ proc' = [proc EXCEPT ![p] = x] /\ accepted' = r
      /\ UNCHANGED <<files, entries, session, lock, broken>>
  BY DEF BeginInstall
<1>. HIDE DEF x
<1>3. Undisturbed(p) /\ proc'[p] = x
  BY <1>1, <1>2, Becomes
<1>4. ProcOK(p)'
  BY <1>1, <1>3
     DEF ProcOK, HoldsLock, PurposeFits, ValuesFit, RecordsFit,
         SelectsWhole, At, Is, Inside, Activating
<1>5. OutsideOK'
  BY <1>2 DEF IInv, TypeOK, OutsideOK, entries, session, files
<1>. QED
  BY <1>2, <1>3, <1>4, <1>5, QuietKeeps

LEMMA BeginCommandKeeps ==
  ASSUME IInv, NEW p \in Setup,
         NEW purpose \in {"signIn", "rollback", "uninstall"},
         BeginCommand(p, purpose), signIn' \in BOOLEAN
  PROVE  IInv'
<1>. DEFINE x == [NoProc EXCEPT !.pc = "lock", !.purpose = purpose]
<1>1. x \in Proc /\ x.pc = "lock" /\ x.purpose = purpose
  BY DEF NoProc, Proc, Step, Purpose
<1>2. /\ proc' = [proc EXCEPT ![p] = x]
      /\ UNCHANGED <<files, helper, listed, shortcut, session, lock, accepted,
                     broken>>
  BY DEF BeginCommand
<1>. HIDE DEF x
<1>3. Undisturbed(p) /\ proc'[p] = x
  BY <1>1, <1>2, Becomes
<1>4. ProcOK(p)'
  BY <1>1, <1>3
     DEF ProcOK, HoldsLock, PurposeFits, ValuesFit, RecordsFit,
         SelectsWhole, At, Is, Inside, Activating
<1>5. OutsideOK'
  BY <1>2 DEF IInv, TypeOK, OutsideOK, session, files
<1>. QED
  BY <1>2, <1>3, <1>4, <1>5, QuietKeeps

LEMMA CommandsKeep ==
  ASSUME IInv, NEW p \in Setup, Command(p) \/ BeginSignIn(p)
  PROVE  IInv'
<1>1. signIn \in BOOLEAN
  BY DEF IInv, TypeOK
<1>2. CASE \E r \in Release : BeginInstall(p, r)
  BY <1>2, BeginInstallKeeps
<1>3. CASE BeginRollback(p)
  BY <1>1, <1>3, BeginCommandKeeps DEF BeginRollback
<1>4. CASE BeginUninstall(p)
  BY <1>4, BeginCommandKeeps DEF BeginUninstall
<1>5. CASE BeginSignIn(p)
  BY <1>1, <1>5, BeginCommandKeeps DEF BeginSignIn
<1>. QED
  BY <1>2, <1>3, <1>4, <1>5 DEF Command

LEMMA LockFailsKeeps ==
  ASSUME IInv, NEW p \in Setup, LockFails(p) PROVE IInv'
<1>1. Undisturbed(p) /\ ProcOK(p)'
  BY Ends DEF LockFails
<1>2. UNCHANGED <<files, entries, session, accepted, broken>>
  BY DEF LockFails
<1>3. OutsideOK'
  BY <1>2, OutsideStays DEF files
<1>. QED
  BY <1>1, <1>2, <1>3, QuietKeeps

LEMMA LockKeeps == ASSUME IInv, NEW p \in Setup, Lock(p) PROVE IInv'
<1>1. /\ UNCHANGED <<files, entries, session, accepted, broken>>
      /\ UNCHANGED <<versions, current, pending>>
      /\ At(p, "lock") /\ lock = NoSetup
  BY DEF Lock, files
<1>2. Undisturbed(p) /\ ProcOK(p)'
  <2>1. CASE ~Admitted(p)
    <3>1. UNCHANGED lock /\ proc' = [proc EXCEPT ![p] = NoProc]
      BY <2>1 DEF Lock
    <3>. QED
      BY <3>1, NoProcTyped, Becomes, EndedIsOK
  <2>2. CASE Admitted(p)
    <3>1. lock' = p /\ GoTo(p, FirstStep(p))
      BY <2>2 DEF Lock
    <3>2. /\ proc[p] \in Proc /\ ProcOK(p)
          /\ proc[p].purpose \notin {"revert", "agent"}
      BY <1>1, Types DEF IInv, ProcOK, PurposeFits
    <3>. DEFINE pc == FirstStep(p)
    <3>3. /\ pc \in Step
          /\ pc = IF Is(p, "install") THEN "prune"
                  ELSE IF Is(p, "upgrade") THEN "journal"
                  ELSE IF Is(p, "rollback") THEN "swap"
                  ELSE IF Is(p, "uninstall") THEN "remove" ELSE "restore"
      BY DEF FirstStep, Is, Step
    <3>4. /\ Is(p, "install") => pending = NoState
          /\ Is(p, "upgrade") => pending = NoState /\ current # NoState
          /\ Is(p, "rollback") => /\ pending = NoState /\ current # NoState
                                  /\ current.previous \in Release
          /\ Is(p, "uninstall") => pending = NoState
          /\ proc[p].purpose \in {"recover", "signIn"} => pending # NoState
      <4>1. proc[p].purpose \in {"recover", "signIn"} => pending # NoState
        BY DEF Lock
      <4>. QED
        BY <2>2, <4>1 DEF Admitted, Is, HasApp
    <3>. HIDE DEF pc
    <3>5. /\ proc' \in [Setup -> Proc] /\ proc'[p].pc = pc
          /\ proc'[p].purpose = proc[p].purpose
          /\ proc'[p].release = proc[p].release
          /\ proc'[p].target = proc[p].target
          /\ \A q \in Setup \ {p} : proc'[q] = proc[q]
      BY <3>1, <3>3, Types DEF GoTo, Proc, pc
    <3>6. Undisturbed(p)
      BY <1>1, <3>1, <3>5, Types DEF Undisturbed
    <3>7. ProcOK(p)'
      <4>1. proc[p].purpose \in {"install", "upgrade", "recover", "signIn",
                                 "rollback", "uninstall"}
        BY <3>2 DEF Proc, Purpose
      <4>2. HoldsLock(p)'
        BY <3>1 DEF HoldsLock
      <4>3. PurposeFits(p)' /\ SelectsWhole(p)'
        BY <3>3, <3>5, <4>1 DEF PurposeFits, SelectsWhole, At, Is
      <4>4. ValuesFit(p)'
        BY <1>1, <3>2, <3>3, <3>5, <4>1
           DEF ProcOK, ValuesFit, At, Is, Activating
      <4>5. RecordsFit(p)'
        BY <1>1, <3>3, <3>4, <3>5, <4>1 DEF RecordsFit, At, Is, Activating
      <4>. QED
        BY <4>2, <4>3, <4>4, <4>5 DEF ProcOK
    <3>. QED
      BY <3>6, <3>7
  <2>. QED
    BY <2>1, <2>2
<1>3. OutsideOK'
  BY <1>1, OutsideStays DEF files
<1>. QED
  BY <1>1, <1>2, <1>3, QuietKeeps

LEMMA NothingToRecoverKeeps ==
  ASSUME IInv, NEW p \in Setup, NothingToRecover(p) PROVE IInv'
<1>. DEFINE x == IF ~Admitted(p) THEN NoProc
                 ELSE IF Is(p, "recover")
                 THEN [proc[p] EXCEPT !.purpose = "upgrade"]
                 ELSE [proc[p] EXCEPT !.pc = "start",
                                      !.target = current.current]
<1>1. /\ UNCHANGED <<files, entries, session, lock, accepted, broken>>
      /\ UNCHANGED <<versions, current, pending>>
      /\ At(p, "lock") /\ lock = NoSetup /\ pending = NoState
      /\ proc[p].purpose \in {"recover", "signIn"}
  BY DEF NothingToRecover, files
<1>2. proc[p] \in Proc /\ ProcOK(p)
  BY Types DEF IInv
<1>3. x \in Proc /\ proc' = [proc EXCEPT ![p] = x]
  <2>1. Admitted(p) => current.current \in Release
    BY <1>1 DEF Admitted, Is, HasApp
  <2>. QED
    BY <1>1, <1>2, <2>1, NoProcTyped
       DEF NothingToRecover, Proc, Step, Purpose
<1>4. \/ x = NoProc
      \/ /\ x.purpose = "upgrade" /\ x.pc = "lock"
         /\ x.release = proc[p].release /\ Is(p, "recover")
      \/ /\ x.purpose = "signIn" /\ x.pc = "start" /\ x.target \in Release
  <2>1. Admitted(p) => current.current \in Release
    BY <1>1 DEF Admitted, Is, HasApp
  <2>. QED
    BY <1>1, <1>2, <2>1 DEF At, Is, Proc
<1>. HIDE DEF x
<1>5. Undisturbed(p) /\ proc'[p] = x
  BY <1>1, <1>3, Becomes
<1>6. ProcOK(p)'
  <2>1. CASE x = NoProc
    BY <1>5, <2>1, EndedIsOK
  <2>2. CASE /\ x.purpose = "upgrade" /\ x.pc = "lock"
             /\ x.release = proc[p].release /\ Is(p, "recover")
    BY <1>1, <1>2, <1>5, <2>2
       DEF ProcOK, HoldsLock, PurposeFits, ValuesFit, RecordsFit,
           SelectsWhole, At, Is, Inside, Activating
  <2>3. CASE x.purpose = "signIn" /\ x.pc = "start" /\ x.target \in Release
    <3>1. lock' # p
      BY <1>1, Types
    <3>. QED
      BY <1>5, <2>3, <3>1
         DEF ProcOK, HoldsLock, PurposeFits, ValuesFit, RecordsFit,
             SelectsWhole, At, Is, Inside, Activating
  <2>. QED
    BY <1>4, <2>1, <2>2, <2>3
<1>7. OutsideOK'
  BY <1>1, OutsideStays DEF files
<1>. QED
  BY <1>1, <1>5, <1>6, <1>7, QuietKeeps

-----------------------------------------------------------------------------
(* windowsinstaller, under the lock.                                       *)

LEMMA RemovedLeaves ==
  ASSUME NEW gone, versions' \in Removed(gone)
  PROVE  /\ versions' \in [Release -> Directory]
         /\ \A r \in Release \ gone : versions'[r] = versions[r]
BY DEF Removed

LEMMA HolderIs ==
  ASSUME IInv, NEW p \in Setup, proc[p].pc \in Inside
  PROVE  lock = p /\ proc[p] \in Proc /\ ProcOK(p)
BY Types DEF IInv, ProcOK, HoldsLock

LEMMA Named ==
  ASSUME IInv, NEW s \in {current, pending}
  PROVE  /\ Mentioned(s) \subseteq Release \cup {0}
         /\ s # NoState => s \in Selection /\ s.current \in Mentioned(s)
                           /\ s.previous \in Mentioned(s)
BY Types DEF Mentioned, Selection

\* A step of the process that has the lock.
LEMMA HolderKeeps ==
  ASSUME IInv, NEW p \in Setup, lock = p, Undisturbed(p), ProcOK(p)',
         versions' \in [Release -> Directory],
         current' \in Selection \cup {NoState},
         pending' \in Selection \cup {NoState},
         marker' \in BOOLEAN, broken' \in BOOLEAN,
         UNCHANGED <<entries, session, accepted>>,
         RetainedAreWhole', UpgradeOfSome'
  PROVE  IInv'
<1>1. OutsideOK'
  BY DEF IInv, TypeOK, OutsideOK, entries, session
<1>2. TypeOK'
  BY <1>1, TypesTogether
<1>. QED
  BY <1>2, Assemble DEF Undisturbed

LEMMA PruneFirstKeeps ==
  ASSUME IInv, NEW p \in Setup, PruneFirst(p) PROVE IInv'
<1>1. /\ At(p, "prune") /\ GoTo(p, "files")
      /\ versions' \in
           Removed(Release \ ({proc[p].release} \cup Mentioned(current)))
      /\ UNCHANGED <<current, pending, marker, entries, session, lock,
                     accepted, broken>>
  BY DEF PruneFirst
<1>2. /\ lock = p /\ proc[p] \in Proc /\ ProcOK(p) /\ Is(p, "install")
      /\ pending = NoState
  BY <1>1, HolderIs DEF At, Inside, ProcOK, PurposeFits, RecordsFit
<1>3. /\ Undisturbed(p) /\ proc'[p].pc = "files"
      /\ proc'[p].purpose = proc[p].purpose
      /\ proc'[p].release = proc[p].release
      /\ proc'[p].target = proc[p].target
  BY <1>1, GoesOn DEF Step
<1>4. ProcOK(p)'
  BY <1>1, <1>2, <1>3
     DEF ProcOK, HoldsLock, PurposeFits, ValuesFit, RecordsFit,
         SelectsWhole, At, Is, Inside, Activating
<1>5. RetainedAreWhole' /\ UpgradeOfSome'
  <2>1. \A r \in Mentioned(current) \ {0} : versions'[r] = versions[r]
    BY <1>1, Named, RemovedLeaves
  <2>. QED
    BY <1>1, <1>2, <2>1
       DEF IInv, RetainedAreWhole, UpgradeOfSome, Mentioned
<1>. QED
  BY <1>1, <1>2, <1>3, <1>4, <1>5, Types, RemovedLeaves, HolderKeeps
     DEF IInv, TypeOK

LEMMA WriteJournalKeeps ==
  ASSUME IInv, NEW p \in Setup, WriteJournal(p) PROVE IInv'
<1>1. /\ At(p, "journal") /\ GoTo(p, "files") /\ pending' = current
      /\ UNCHANGED <<versions, current, marker, entries, session, lock,
                     accepted, broken>>
  BY DEF WriteJournal
<1>2. /\ lock = p /\ proc[p] \in Proc /\ ProcOK(p) /\ Is(p, "upgrade")
      /\ current # NoState
  BY <1>1, HolderIs DEF At, Inside, ProcOK, PurposeFits, RecordsFit
<1>3. /\ Undisturbed(p) /\ proc'[p].pc = "files"
      /\ proc'[p].purpose = proc[p].purpose
      /\ proc'[p].release = proc[p].release
      /\ proc'[p].target = proc[p].target
  BY <1>1, GoesOn DEF Step
<1>4. ProcOK(p)'
  BY <1>1, <1>2, <1>3
     DEF ProcOK, HoldsLock, PurposeFits, ValuesFit, RecordsFit,
         SelectsWhole, At, Is, Inside, Activating
<1>5. RetainedAreWhole' /\ UpgradeOfSome'
  BY <1>1, <1>2 DEF IInv, RetainedAreWhole, UpgradeOfSome, Mentioned
<1>. QED
  BY <1>1, <1>2, <1>3, <1>4, <1>5, Types, HolderKeeps DEF IInv, TypeOK

LEMMA InstallFilesKeeps ==
  ASSUME IInv, NEW p \in Setup, InstallFiles(p) PROVE IInv'
<1>1. /\ At(p, "files") /\ GoTo(p, "select")
      /\ versions' = [versions EXCEPT ![proc[p].release] = "whole"]
      /\ UNCHANGED <<current, pending, marker, entries, session, lock,
                     accepted, broken>>
  BY DEF InstallFiles
<1>2. /\ lock = p /\ proc[p] \in Proc /\ ProcOK(p)
      /\ proc[p].release \in Release
      /\ proc[p].purpose \in {"install", "upgrade"}
  BY <1>1, HolderIs DEF At, Inside, ProcOK, PurposeFits, ValuesFit
<1>3. /\ Undisturbed(p) /\ proc'[p].pc = "select"
      /\ proc'[p].purpose = proc[p].purpose
      /\ proc'[p].release = proc[p].release
      /\ proc'[p].target = proc[p].target
  BY <1>1, GoesOn DEF Step
<1>4. versions' \in [Release -> Directory]
      /\ versions'[proc[p].release] = "whole"
      /\ \A r \in Release : versions[r] = "whole" => versions'[r] = "whole"
  BY <1>1, <1>2, Types DEF Directory
<1>5. ProcOK(p)'
  BY <1>1, <1>2, <1>3, <1>4
     DEF ProcOK, HoldsLock, PurposeFits, ValuesFit, RecordsFit,
         SelectsWhole, At, Is, Inside, Activating
<1>6. RetainedAreWhole' /\ UpgradeOfSome'
  <2>1. (Mentioned(current) \cup Mentioned(pending)) \ {0} \subseteq Release
    BY Named
  <2>. QED
    BY <1>1, <1>4, <2>1
       DEF IInv, RetainedAreWhole, UpgradeOfSome, Mentioned
<1>. QED
  BY <1>1, <1>2, <1>3, <1>4, <1>5, <1>6, Types, HolderKeeps DEF IInv, TypeOK

LEMMA SelectingNames ==
  ASSUME IInv, NEW r \in Release
  PROVE  /\ Selecting(r, current) \in Selection
         /\ Selecting(r, current) # NoState
         /\ Mentioned(Selecting(r, current))
              \subseteq Mentioned(current) \cup {r, 0}
<1>. DEFINE prev == IF current = NoState THEN 0
                    ELSE IF current.current # r THEN current.current
                    ELSE current.previous
            s == [current |-> r, previous |-> prev]
<1>1. prev \in Release \cup {0} /\ prev \in Mentioned(current) \cup {0}
  BY Named DEF Selection
<1>2. Selecting(r, current) = s
  BY DEF Selecting
<1>3. s.current = r /\ s.previous = prev
  OBVIOUS
<1>4. s \in Selection /\ Mentioned(s) \subseteq {r, prev}
  BY <1>1 DEF Selection, Mentioned
<1>5. s # NoState
  BY <1>4, SelectionIsSome
<1>. QED
  BY <1>1, <1>2, <1>4, <1>5

LEMMA SelectKeeps ==
  ASSUME IInv, NEW p \in Setup, Select(p) PROVE IInv'
<1>1. /\ At(p, "select") /\ GoTo(p, "mark")
      /\ current' = Selecting(proc[p].release, current)
      /\ UNCHANGED <<versions, pending, marker, entries, session, lock,
                     accepted, broken>>
  BY DEF Select
<1>2. /\ lock = p /\ proc[p] \in Proc /\ ProcOK(p)
      /\ proc[p].release \in Release
      /\ versions[proc[p].release] = "whole"
      /\ proc[p].purpose \in {"install", "upgrade"}
      /\ Is(p, "install") => pending = NoState
      /\ Is(p, "upgrade") => pending # NoState /\ current = pending
  BY <1>1, HolderIs
     DEF At, Is, Inside, ProcOK, PurposeFits, ValuesFit, SelectsWhole,
         RecordsFit
<1>3. /\ Undisturbed(p) /\ proc'[p].pc = "mark"
      /\ proc'[p].purpose = proc[p].purpose
      /\ proc'[p].release = proc[p].release
      /\ proc'[p].target = proc[p].target
  BY <1>1, GoesOn DEF Step
<1>4. /\ current' \in Selection /\ current' # NoState
      /\ Mentioned(current') \subseteq
           Mentioned(current) \cup {proc[p].release, 0}
  BY <1>1, <1>2, SelectingNames
<1>5. ProcOK(p)'
  <2>1. Is(p, "upgrade") =>
          pending' # NoState
          /\ current' = Selecting(proc'[p].release, pending')
    BY <1>1, <1>2, <1>3 DEF Selecting
  <2>2. RecordsFit(p)'
    BY <1>1, <1>2, <1>3, <2>1
       DEF RecordsFit, At, Is, Activating, Selecting
  <2>. QED
    BY <1>1, <1>2, <1>3, <2>2
       DEF ProcOK, HoldsLock, PurposeFits, ValuesFit,
           SelectsWhole, At, Is, Inside, Activating
<1>6. RetainedAreWhole' /\ UpgradeOfSome'
  BY <1>1, <1>2, <1>4 DEF IInv, RetainedAreWhole, UpgradeOfSome, Mentioned
<1>. QED
  BY <1>1, <1>2, <1>3, <1>4, <1>5, <1>6, Types, HolderKeeps DEF IInv, TypeOK

LEMMA WriteMarkerKeeps ==
  ASSUME IInv, NEW p \in Setup, WriteMarker(p) PROVE IInv'
<1>1. /\ At(p, "mark") /\ marker' = TRUE
      /\ UNCHANGED <<versions, current, pending, entries, session, lock,
                     accepted, broken>>
  BY DEF WriteMarker
<1>2. /\ lock = p /\ proc[p] \in Proc /\ ProcOK(p)
      /\ proc[p].release \in Release
      /\ proc[p].purpose \in {"install", "upgrade"}
      /\ Is(p, "install") => pending = NoState
      /\ Is(p, "upgrade") =>
           pending # NoState /\ current = Selecting(proc[p].release, pending)
  BY <1>1, HolderIs
     DEF At, Is, Inside, ProcOK, PurposeFits, ValuesFit, RecordsFit
<1>3. Undisturbed(p) /\ ProcOK(p)'
  <2>1. CASE Is(p, "upgrade")
    <3>. DEFINE x == ToActivate(p, proc[p].release)
    <3>1. /\ x \in Proc /\ x.pc = "helper" /\ x.purpose = "upgrade"
          /\ x.release = proc[p].release /\ x.target = proc[p].release
      BY <1>2, <2>1 DEF ToActivate, EntryStep, Proc, Step, Is
    <3>2. proc' = [proc EXCEPT ![p] = x]
      BY <2>1 DEF WriteMarker
    <3>. HIDE DEF x
    <3>3. Undisturbed(p) /\ proc'[p] = x
      BY <1>1, <3>1, <3>2, Becomes
    <3>4. ProcOK(p)'
      BY <1>1, <1>2, <2>1, <3>1, <3>3
         DEF ProcOK, HoldsLock, PurposeFits, ValuesFit, RecordsFit,
             SelectsWhole, At, Is, Inside, Activating, Selecting
    <3>. QED
      BY <3>3, <3>4
  <2>2. CASE ~Is(p, "upgrade")
    <3>1. GoTo(p, "pruneRest")
      BY <2>2 DEF WriteMarker
    <3>2. /\ Undisturbed(p) /\ proc'[p].pc = "pruneRest"
          /\ proc'[p].purpose = proc[p].purpose
          /\ proc'[p].release = proc[p].release
      BY <1>1, <3>1, GoesOn DEF Step
    <3>3. ProcOK(p)'
      BY <1>1, <1>2, <2>2, <3>2
         DEF ProcOK, HoldsLock, PurposeFits, ValuesFit, RecordsFit,
             SelectsWhole, At, Is, Inside, Activating
    <3>. QED
      BY <3>2, <3>3
  <2>. QED
    BY <2>1, <2>2
<1>4. RetainedAreWhole' /\ UpgradeOfSome'
  BY <1>1 DEF IInv, RetainedAreWhole, UpgradeOfSome, Mentioned
<1>. QED
  BY <1>1, <1>2, <1>3, <1>4, Types, HolderKeeps DEF IInv, TypeOK

LEMMA RestoreKeeps == ASSUME IInv, NEW p \in Setup, Restore(p) PROVE IInv'
<1>. DEFINE x == ToActivate(p, pending.current)
<1>1. /\ At(p, "restore") /\ HasApp(pending.current) /\ current' = pending
      /\ proc' = [proc EXCEPT ![p] = x]
      /\ UNCHANGED <<versions, pending, marker, entries, session, lock,
                     accepted, broken>>
  BY DEF Restore
<1>2. /\ lock = p /\ proc[p] \in Proc /\ ProcOK(p)
      /\ proc[p].purpose \in {"revert", "recover", "signIn"}
      /\ pending # NoState /\ pending.current \in Release
  BY <1>1, HolderIs
     DEF At, Inside, ProcOK, PurposeFits, RecordsFit, HasApp
<1>3. /\ x \in Proc /\ x.pc \in {"helper", "list"}
      /\ x.purpose = proc[p].purpose
      /\ x.release = proc[p].release /\ x.target = pending.current
  BY <1>2 DEF ToActivate, EntryStep, Proc, Step
<1>. HIDE DEF x
<1>4. Undisturbed(p) /\ proc'[p] = x
  BY <1>1, <1>3, Becomes
<1>5. ProcOK(p)'
  BY <1>1, <1>2, <1>3, <1>4
     DEF ProcOK, HoldsLock, PurposeFits, ValuesFit, RecordsFit,
         SelectsWhole, At, Is, Inside, Activating
<1>6. RetainedAreWhole' /\ UpgradeOfSome'
  BY <1>1, <1>2 DEF IInv, RetainedAreWhole, UpgradeOfSome, Mentioned
<1>. QED
  BY <1>1, <1>2, <1>4, <1>5, <1>6, Types, HolderKeeps DEF IInv, TypeOK

LEMMA CommitKeeps == ASSUME IInv, NEW p \in Setup, Commit(p) PROVE IInv'
<1>1. /\ At(p, "commit") /\ GoTo(p, "pruneRest") /\ pending' = NoState
      /\ UNCHANGED <<versions, current, marker, entries, session, lock,
                     accepted, broken>>
  BY DEF Commit
<1>2. /\ lock = p /\ proc[p] \in Proc /\ ProcOK(p) /\ Is(p, "upgrade")
  BY <1>1, HolderIs DEF At, Inside, ProcOK, PurposeFits
<1>3. /\ Undisturbed(p) /\ proc'[p].pc = "pruneRest"
      /\ proc'[p].purpose = proc[p].purpose
      /\ proc'[p].release = proc[p].release
  BY <1>1, GoesOn DEF Step
<1>4. ProcOK(p)'
  BY <1>1, <1>2, <1>3
     DEF ProcOK, HoldsLock, PurposeFits, ValuesFit, RecordsFit,
         SelectsWhole, At, Is, Inside, Activating
<1>5. RetainedAreWhole' /\ UpgradeOfSome'
  BY <1>1 DEF IInv, RetainedAreWhole, UpgradeOfSome, Mentioned
<1>. QED
  BY <1>1, <1>2, <1>3, <1>4, <1>5, Types, HolderKeeps DEF IInv, TypeOK

LEMMA PruneRestKeeps ==
  ASSUME IInv, NEW p \in Setup, PruneRest(p) PROVE IInv'
<1>1. /\ At(p, "pruneRest")
      /\ versions' \in Removed(Release \ Mentioned(current))
      /\ UNCHANGED <<current, pending, marker, entries, session, accepted,
                     broken>>
  BY DEF PruneRest
<1>2. /\ lock = p /\ proc[p] \in Proc /\ ProcOK(p) /\ pending = NoState
  BY <1>1, HolderIs DEF At, Inside, ProcOK, RecordsFit
<1>3. Undisturbed(p) /\ ProcOK(p)'
  <2>1. CASE Is(p, "install")
    <3>. DEFINE x == ToActivate(p, proc[p].release)
    <3>1. proc[p].release \in Release
      BY <1>1, <1>2, <2>1 DEF ProcOK, ValuesFit, At, Is
    <3>2. /\ x \in Proc /\ x.pc = "helper" /\ x.purpose = "install"
          /\ x.release = proc[p].release /\ x.target = proc[p].release
      BY <1>2, <2>1, <3>1 DEF ToActivate, EntryStep, Proc, Step, Is
    <3>3. Leave(p, x)
      BY <2>1 DEF PruneRest
    <3>. HIDE DEF x
    <3>4. Undisturbed(p) /\ proc'[p] = x
      BY <3>2, <3>3, Leaves
    <3>5. ProcOK(p)'
      BY <3>1, <3>2, <3>4
         DEF ProcOK, HoldsLock, PurposeFits, ValuesFit, RecordsFit,
             SelectsWhole, At, Is, Inside, Activating
    <3>. QED
      BY <3>4, <3>5
  <2>2. CASE ~Is(p, "install")
    BY <2>2, Ends DEF PruneRest
  <2>. QED
    BY <2>1, <2>2
<1>4. RetainedAreWhole' /\ UpgradeOfSome'
  <2>1. \A r \in Mentioned(current) \ {0} : versions'[r] = versions[r]
    BY <1>1, Named, RemovedLeaves
  <2>. QED
    BY <1>1, <1>2, <2>1
       DEF IInv, RetainedAreWhole, UpgradeOfSome, Mentioned
<1>. QED
  BY <1>1, <1>2, <1>3, <1>4, Types, RemovedLeaves, HolderKeeps
     DEF IInv, TypeOK

LEMMA ForgetKeeps == ASSUME IInv, NEW p \in Setup, Forget(p) PROVE IInv'
<1>1. /\ At(p, "forget") /\ pending' = NoState
      /\ UNCHANGED <<versions, current, marker, entries, session, accepted,
                     broken>>
  BY DEF Forget
<1>2. /\ lock = p /\ proc[p] \in Proc /\ ProcOK(p)
      /\ proc[p].purpose \in {"revert", "recover", "signIn"}
      /\ proc[p].target \in Release
  BY <1>1, HolderIs DEF At, Inside, ProcOK, PurposeFits, ValuesFit
<1>3. Undisturbed(p) /\ ProcOK(p)'
  <2>1. CASE Is(p, "recover")
    <3>. DEFINE x == [proc[p] EXCEPT !.pc = "lock", !.purpose = "upgrade"]
    <3>1. proc[p].release \in Release
      BY <1>1, <1>2, <2>1 DEF ProcOK, ValuesFit, At, Is
    <3>2. /\ x \in Proc /\ x.pc = "lock" /\ x.purpose = "upgrade"
          /\ x.release = proc[p].release
      BY <1>2 DEF Proc, Step, Purpose
    <3>3. Leave(p, x)
      BY <2>1 DEF Forget, Is
    <3>. HIDE DEF x
    <3>4. Undisturbed(p) /\ proc'[p] = x
      BY <3>2, <3>3, Leaves
    <3>5. ProcOK(p)'
      BY <3>1, <3>2, <3>4
         DEF ProcOK, HoldsLock, PurposeFits, ValuesFit, RecordsFit,
             SelectsWhole, At, Is, Inside, Activating
    <3>. QED
      BY <3>4, <3>5
  <2>2. CASE Is(p, "signIn")
    <3>. DEFINE x == [proc[p] EXCEPT !.pc = "start"]
    <3>1. /\ x \in Proc /\ x.pc = "start" /\ x.purpose = "signIn"
          /\ x.target = proc[p].target
      BY <1>2, <2>2 DEF Proc, Step, Is
    <3>2. Leave(p, x)
      BY <2>2 DEF Forget, Is
    <3>. HIDE DEF x
    <3>3. Undisturbed(p) /\ proc'[p] = x /\ lock' # p
      BY <3>1, <3>2, Leaves
    <3>4. ProcOK(p)'
      BY <1>2, <3>1, <3>3
         DEF ProcOK, HoldsLock, PurposeFits, ValuesFit, RecordsFit,
             SelectsWhole, At, Is, Inside, Activating
    <3>. QED
      BY <3>3, <3>4
  <2>3. CASE Is(p, "revert")
    <3>1. End(p)
      BY <2>3 DEF Forget, Is
    <3>. QED
      BY <3>1, Ends
  <2>. QED
    BY <1>2, <2>1, <2>2, <2>3 DEF Is
<1>4. RetainedAreWhole' /\ UpgradeOfSome'
  BY <1>1 DEF IInv, RetainedAreWhole, UpgradeOfSome, Mentioned
<1>. QED
  BY <1>1, <1>2, <1>3, <1>4, Types, HolderKeeps DEF IInv, TypeOK

LEMMA SwapKeeps == ASSUME IInv, NEW p \in Setup, Swap(p) PROVE IInv'
<1>. DEFINE x == ToActivate(p, current.previous)
            s == [current |-> current.previous, previous |-> current.current]
<1>1. /\ At(p, "swap") /\ current' = s /\ Leave(p, x)
      /\ UNCHANGED <<versions, pending, marker, entries, session, accepted,
                     broken>>
  BY DEF Swap
<1>2. /\ lock = p /\ proc[p] \in Proc /\ ProcOK(p)
      /\ pending = NoState /\ current # NoState
      /\ current.previous \in Release
  BY <1>1, HolderIs DEF At, Inside, ProcOK, RecordsFit
<1>3. /\ x \in Proc /\ x.pc \in {"helper", "list"}
      /\ x.purpose = proc[p].purpose
      /\ x.release = proc[p].release /\ x.target = current.previous
  BY <1>2 DEF ToActivate, EntryStep, Proc, Step
<1>. HIDE DEF x
<1>4. Undisturbed(p) /\ proc'[p] = x /\ lock' # p
  BY <1>1, <1>3, Leaves
<1>5. Is(p, "rollback")
  BY <1>1, <1>2 DEF ProcOK, PurposeFits
<1>6. ProcOK(p)'
  BY <1>2, <1>3, <1>4, <1>5
     DEF ProcOK, HoldsLock, PurposeFits, ValuesFit, RecordsFit,
         SelectsWhole, At, Is, Inside, Activating
<1>7. /\ current \in Selection /\ s \in Selection
      /\ s.current = current.previous /\ s.previous = current.current
  BY <1>2, Named DEF Selection
<1>8. s # NoState /\ Mentioned(s) = Mentioned(current)
  BY <1>2, <1>7, SelectionIsSome DEF Mentioned
<1>9. RetainedAreWhole' /\ UpgradeOfSome'
  <2>1. Mentioned(current)' = Mentioned(current)
        /\ Mentioned(pending)' = Mentioned(pending)
    BY <1>1, <1>8 DEF Mentioned
  <2>. QED
    BY <1>1, <1>2, <2>1 DEF IInv, RetainedAreWhole, UpgradeOfSome
<1>. HIDE DEF s
<1>. QED
  BY <1>1, <1>2, <1>4, <1>6, <1>7, <1>9, Types, HolderKeeps
     DEF IInv, TypeOK

LEMMA RemoveRootKeeps ==
  ASSUME IInv, NEW p \in Setup, RemoveRoot(p) PROVE IInv'
<1>. DEFINE x == [proc[p] EXCEPT !.pc = "removeShortcut"]
<1>1. /\ At(p, "remove") /\ Leave(p, x)
      /\ versions' = [r \in Release |-> "absent"]
      /\ current' = NoState /\ marker' = FALSE
      /\ UNCHANGED <<pending, entries, session, accepted, broken>>
  BY DEF RemoveRoot
<1>2. /\ lock = p /\ proc[p] \in Proc /\ ProcOK(p)
      /\ pending = NoState /\ Is(p, "uninstall")
  BY <1>1, HolderIs DEF At, Inside, ProcOK, RecordsFit, PurposeFits
<1>3. /\ x \in Proc /\ x.pc = "removeShortcut" /\ x.purpose = "uninstall"
  BY <1>2 DEF Proc, Step, Is
<1>. HIDE DEF x
<1>4. Undisturbed(p) /\ proc'[p] = x
  BY <1>1, <1>3, Leaves
<1>5. ProcOK(p)'
  BY <1>3, <1>4
     DEF ProcOK, HoldsLock, PurposeFits, ValuesFit, RecordsFit,
         SelectsWhole, At, Is, Inside, Activating
<1>6. RetainedAreWhole' /\ UpgradeOfSome'
  BY <1>1, <1>2 DEF RetainedAreWhole, UpgradeOfSome, Mentioned
<1>7. versions' \in [Release -> Directory]
  BY <1>1 DEF Directory
<1>. QED
  BY <1>1, <1>2, <1>4, <1>5, <1>6, <1>7, HolderKeeps DEF IInv, TypeOK

LEMMA RemovePartKeeps ==
  ASSUME IInv, NEW p \in Setup, RemovePart(p) PROVE IInv'
<1>1. /\ At(p, "remove") /\ End(p)
      /\ versions' \in Removed(Release)
      /\ current' \in {current, NoState} /\ marker' \in {marker, FALSE}
      /\ broken' = TRUE
      /\ UNCHANGED <<pending, entries, session, accepted>>
  BY DEF RemovePart
<1>2. lock = p /\ pending = NoState
  BY <1>1, HolderIs DEF At, Inside, ProcOK, RecordsFit
<1>3. Undisturbed(p) /\ ProcOK(p)'
  BY <1>1, Ends
<1>4. RetainedAreWhole' /\ UpgradeOfSome'
  BY <1>1, <1>2 DEF RetainedAreWhole, UpgradeOfSome
<1>. QED
  BY <1>1, <1>2, <1>3, <1>4, Types, RemovedLeaves, HolderKeeps
     DEF IInv, TypeOK

-----------------------------------------------------------------------------
(* Entry points and background programs.                                   *)

LEMMA StepsOn ==
  ASSUME IInv, NEW p \in Setup, NEW pc \in Activating, GoTo(p, pc),
         proc[p].pc \in Activating, UNCHANGED <<files, lock>>
  PROVE  Undisturbed(p) /\ ProcOK(p)'
<1>1. /\ Undisturbed(p) /\ proc'[p].pc = pc
      /\ proc'[p].purpose = proc[p].purpose
      /\ proc'[p].release = proc[p].release
      /\ proc'[p].target = proc[p].target
  BY GoesOn DEF Activating, Step
<1>2. ProcOK(p) /\ UNCHANGED <<versions, current, pending, lock>>
  BY DEF IInv, files
<1>3. HoldsLock(p)' /\ PurposeFits(p)' /\ ValuesFit(p)' /\ SelectsWhole(p)'
  BY <1>1, <1>2
     DEF ProcOK, HoldsLock, PurposeFits, ValuesFit, SelectsWhole, At, Is,
         Inside, Activating
<1>4. RecordsFit(p)'
  BY <1>1, <1>2 DEF ProcOK, RecordsFit, At, Is, Activating, Selecting
<1>. QED
  BY <1>1, <1>3, <1>4 DEF ProcOK

LEMMA RemoveShortcutKeeps ==
  ASSUME IInv, NEW p \in Setup, RemoveShortcut(p) PROVE IInv'
<1>1. /\ At(p, "removeShortcut") /\ GoTo(p, "unlist") /\ shortcut' = 0
      /\ UNCHANGED <<files, helper, listed, signIn, session, lock, accepted,
                     broken>>
  BY DEF RemoveShortcut
<1>2. /\ Undisturbed(p) /\ proc'[p].pc = "unlist"
      /\ proc'[p].purpose = proc[p].purpose
      /\ proc'[p].release = proc[p].release
  BY <1>1, GoesOn DEF Step
<1>3. ProcOK(p)'
  <2>1. ProcOK(p)
    BY DEF IInv
  <2>. QED
    BY <1>1, <1>2, <2>1
       DEF ProcOK, HoldsLock, PurposeFits, ValuesFit, RecordsFit,
           SelectsWhole, At, Is, Inside, Activating
<1>4. OutsideOK'
  BY <1>1 DEF IInv, TypeOK, OutsideOK, files, session
<1>. QED
  BY <1>1, <1>2, <1>3, <1>4, QuietKeeps

LEMMA RemoveInstalledAppsKeeps ==
  ASSUME IInv, NEW p \in Setup, RemoveInstalledApps(p) PROVE IInv'
<1>1. /\ End(p) /\ listed' = FALSE /\ helper' \in {helper, FALSE}
      /\ UNCHANGED <<files, signIn, shortcut, session, accepted, broken>>
  BY DEF RemoveInstalledApps
<1>2. Undisturbed(p) /\ ProcOK(p)'
  BY <1>1, Ends
<1>3. OutsideOK'
  BY <1>1 DEF IInv, TypeOK, OutsideOK, files, session
<1>. QED
  BY <1>1, <1>2, <1>3, QuietKeeps

LEMMA EntriesKeep ==
  ASSUME IInv, NEW p \in Setup,
         \/ RemoveOldHelper(p) \/ RenameHelper(p) \/ UpdateInstalledApps(p)
         \/ UpdateShortcut(p) \/ UpdateStartup(p)
  PROVE  IInv'
<1>1. UNCHANGED <<files, session, lock, accepted, broken>>
  BY DEF RemoveOldHelper, RenameHelper, UpdateInstalledApps, UpdateShortcut,
         UpdateStartup
<1>2. Undisturbed(p) /\ ProcOK(p)'
  <2>1. \E pc \in Activating : GoTo(p, pc)
    BY DEF RemoveOldHelper, RenameHelper, UpdateInstalledApps,
           UpdateShortcut, UpdateStartup, Activating
  <2>2. proc[p].pc \in Activating
    BY DEF RemoveOldHelper, RenameHelper, UpdateInstalledApps,
           UpdateShortcut, UpdateStartup, Activating, At
  <2>. QED
    BY <1>1, <2>1, <2>2, StepsOn
<1>3. OutsideOK'
  <2>1. {helper, listed, signIn}' \subseteq BOOLEAN
    BY DEF RemoveOldHelper, RenameHelper, UpdateInstalledApps,
           UpdateShortcut, UpdateStartup, IInv, TypeOK
  <2>2. shortcut' \in Release \cup {0}
    <3>1. proc[p].target \in Release \cup {0}
      BY Types DEF Proc
    <3>. QED
      BY <3>1
         DEF RemoveOldHelper, RenameHelper, UpdateInstalledApps,
             UpdateShortcut, UpdateStartup, IInv, TypeOK
  <2>. QED
    BY <1>1, <2>1, <2>2 DEF IInv, TypeOK, OutsideOK, files, session
<1>. QED
  BY <1>1, <1>2, <1>3, QuietKeeps

\* Programs that end.
LEMMA ProgramsEnd ==
  ASSUME IInv, NEW left \in SUBSET running, LeaveRunning(left),
         UNCHANGED <<files, entries, task, agentDue, accepted, broken>>
  PROVE  OutsideOK'
<1>1. running' \subseteq Background \X Release
      /\ endpoint' \in Release \cup {0}
  BY DEF LeaveRunning, IInv, TypeOK
<1>. QED
  BY <1>1 DEF IInv, TypeOK, OutsideOK, files, entries

LEMMA StopBackgroundKeeps ==
  ASSUME IInv, NEW p \in Setup, StopBackground(p) PROVE IInv'
<1>1. /\ At(p, "stop") /\ LeaveRunning({})
      /\ GoTo(p, "start") \/ GoTo(p, "request")
      /\ UNCHANGED <<files, entries, task, agentDue, lock, accepted, broken>>
  BY DEF StopBackground
<1>2. Undisturbed(p) /\ ProcOK(p)'
  BY <1>1, StepsOn DEF Activating, At
<1>3. OutsideOK'
  BY <1>1, ProgramsEnd
<1>. QED
  BY <1>1, <1>2, <1>3, QuietKeeps

LEMMA StopFailsKeeps ==
  ASSUME IInv, NEW p \in Setup, StopFails(p) PROVE IInv'
<1>1. /\ At(p, "stop") /\ Fail(p)
      /\ UNCHANGED <<files, entries, task, agentDue, accepted, broken>>
  BY DEF StopFails
<1>2. Undisturbed(p) /\ ProcOK(p)'
  BY <1>1, Failing DEF files, At
<1>3. OutsideOK'
  BY <1>1, ProgramsEnd DEF StopFails
<1>. QED
  BY <1>1, <1>2, <1>3, QuietKeeps

LEMMA StartBackgroundKeeps ==
  ASSUME IInv, NEW p \in Setup, StartBackground(p) PROVE IInv'
<1>1. /\ At(p, "start") /\ GoTo(p, "probe")
      /\ running' = running \cup (Commands(p) \X {proc[p].target})
      /\ UNCHANGED <<files, entries, endpoint, task, agentDue, lock, accepted,
                     broken>>
  BY DEF StartBackground
<1>2. Undisturbed(p) /\ ProcOK(p)'
  BY <1>1, StepsOn DEF Activating, At
<1>3. proc[p].target \in Release /\ Commands(p) \subseteq Background
  BY <1>1 DEF IInv, ProcOK, ValuesFit, Activating, At, Commands
<1>4. running' \subseteq Background \X Release
  BY <1>1, <1>3 DEF IInv, TypeOK
<1>5. OutsideOK'
  BY <1>1, <1>4 DEF IInv, TypeOK, OutsideOK, files, entries
<1>. QED
  BY <1>1, <1>2, <1>5, QuietKeeps

LEMMA StartFailsKeeps ==
  ASSUME IInv, NEW p \in Setup, StartFails(p) PROVE IInv'
<1>1. /\ At(p, "start") /\ Fail(p)
      /\ UNCHANGED <<files, entries, endpoint, task, agentDue, accepted,
                     broken>>
  BY DEF StartFails
<1>2. Undisturbed(p) /\ ProcOK(p)'
  BY <1>1, Failing DEF files, At
<1>3. running' \subseteq Background \X Release
  <2>1. proc[p].target \in Release /\ Commands(p) \subseteq Background
    BY <1>1 DEF IInv, ProcOK, ValuesFit, Activating, At, Commands
  <2>. QED
    BY <2>1 DEF StartFails, IInv, TypeOK
<1>4. OutsideOK'
  BY <1>1, <1>3 DEF IInv, TypeOK, OutsideOK, files, entries
<1>. QED
  BY <1>1, <1>2, <1>4, QuietKeeps

LEMMA ActivatedKeeps ==
  ASSUME IInv, NEW p \in Setup, proc[p].pc \in {"probe", "await"},
         Activated(p),
         UNCHANGED <<files, entries, session, lock, accepted, broken>>
  PROVE  IInv'
<1>1. proc[p] \in Proc /\ ProcOK(p)
      /\ UNCHANGED <<versions, current, pending>>
  BY Types DEF IInv, files
<1>2. Undisturbed(p) /\ ProcOK(p)'
  <2>1. CASE Is(p, "upgrade")
    <3>1. GoTo(p, "commit")
      BY <2>1 DEF Activated, Is
    <3>2. /\ Undisturbed(p) /\ proc'[p].pc = "commit"
          /\ proc'[p].purpose = proc[p].purpose
          /\ proc'[p].release = proc[p].release
          /\ proc'[p].target = proc[p].target
      BY <3>1, GoesOn DEF Step
    <3>3. ProcOK(p)'
      BY <1>1, <2>1, <3>2
         DEF ProcOK, HoldsLock, PurposeFits, ValuesFit, RecordsFit,
             SelectsWhole, At, Is, Inside, Activating, Selecting
    <3>. QED
      BY <3>2, <3>3
  <2>2. CASE \/ proc[p].purpose \in {"revert", "recover"}
             \/ Is(p, "signIn") /\ lock = p
    <3>1. GoTo(p, "forget")
      BY <2>2 DEF Activated, Is
    <3>2. /\ Undisturbed(p) /\ proc'[p].pc = "forget"
          /\ proc'[p].purpose = proc[p].purpose
          /\ proc'[p].release = proc[p].release
          /\ proc'[p].target = proc[p].target
      BY <3>1, GoesOn DEF Step
    <3>3. ProcOK(p)'
      BY <1>1, <2>2, <3>2
         DEF ProcOK, HoldsLock, PurposeFits, ValuesFit, RecordsFit,
             SelectsWhole, At, Is, Inside, Activating
    <3>. QED
      BY <3>2, <3>3
  <2>3. CASE /\ ~Is(p, "upgrade")
             /\ ~(proc[p].purpose \in {"revert", "recover"})
             /\ ~(Is(p, "signIn") /\ lock = p)
    <3>1. proc' = [proc EXCEPT ![p] = NoProc]
      BY <2>3 DEF Activated
    <3>. QED
      BY <3>1, NoProcTyped, Becomes, EndedIsOK
  <2>. QED
    BY <2>1, <2>2, <2>3
<1>3. OutsideOK'
  BY OutsideStays DEF files
<1>. QED
  BY <1>2, <1>3, QuietKeeps

LEMMA RequestActivationKeeps ==
  ASSUME IInv, NEW p \in Setup, RequestActivation(p) PROVE IInv'
<1>1. /\ At(p, "request") /\ task' = proc[p].target /\ agentDue' = TRUE
      /\ UNCHANGED <<files, entries, running, endpoint, lock, accepted,
                     broken>>
      /\ UNCHANGED <<versions, current, pending>>
  BY DEF RequestActivation, files
<1>. DEFINE x == [proc[p] EXCEPT !.pc = "await"]
<1>2. /\ proc[p] \in Proc /\ ProcOK(p) /\ x \in Proc /\ x.pc = "await"
      /\ x.purpose = proc[p].purpose /\ x.release = proc[p].release
      /\ x.target = proc[p].target
  BY Types DEF IInv, Proc, Step
<1>3. proc' = [q \in Setup |->
        IF q = p THEN x ELSE IF Is(q, "agent") THEN NoProc ELSE proc[q]]
  BY DEF RequestActivation
<1>. HIDE DEF x
<1>4. Undisturbed(p) /\ proc'[p] = x
  BY <1>1, <1>2, <1>3, Types, NoProcTyped DEF Undisturbed
<1>5. ProcOK(p)'
  <2>1. HoldsLock(p)' /\ PurposeFits(p)' /\ ValuesFit(p)' /\ SelectsWhole(p)'
    BY <1>1, <1>2, <1>4
       DEF ProcOK, HoldsLock, PurposeFits, ValuesFit, SelectsWhole, At, Is,
           Inside, Activating
  <2>2. RecordsFit(p)'
    BY <1>1, <1>2, <1>4 DEF ProcOK, RecordsFit, At, Is, Activating, Selecting
  <2>. QED
    BY <2>1, <2>2 DEF ProcOK
<1>6. OutsideOK'
  BY <1>1, <1>2 DEF IInv, TypeOK, OutsideOK, entries, files, Proc
<1>. QED
  BY <1>1, <1>4, <1>5, <1>6, QuietKeeps

LEMMA BeginAgentKeeps ==
  ASSUME IInv, NEW p \in Setup, BeginAgent(p) PROVE IInv'
<1>. DEFINE x == [NoProc EXCEPT !.pc = "agent", !.purpose = "agent"]
<1>1. x \in Proc /\ x.pc = "agent" /\ x.purpose = "agent"
  BY DEF NoProc, Proc, Step, Purpose
<1>2. /\ proc' = [proc EXCEPT ![p] = x] /\ agentDue' = FALSE
      /\ UNCHANGED <<files, entries, running, endpoint, task, lock, accepted,
                     broken>>
  BY DEF BeginAgent
<1>. HIDE DEF x
<1>3. Undisturbed(p) /\ proc'[p] = x
  BY <1>1, <1>2, Becomes
<1>4. ProcOK(p)'
  BY <1>1, <1>3
     DEF ProcOK, HoldsLock, PurposeFits, ValuesFit, RecordsFit,
         SelectsWhole, At, Is, Inside, Activating
<1>5. OutsideOK'
  BY <1>2 DEF IInv, TypeOK, OutsideOK, entries, files
<1>. QED
  BY <1>2, <1>3, <1>4, <1>5, QuietKeeps

LEMMA AgentResolvesKeeps ==
  ASSUME IInv, NEW p \in Setup, AgentResolves(p) PROVE IInv'
<1>. DEFINE x == [proc[p] EXCEPT !.pc = "stop", !.target = current.current]
<1>1. /\ At(p, "agent") /\ current.current \in Release
      /\ proc' = [proc EXCEPT ![p].pc = "stop", ![p].target = current.current]
      /\ UNCHANGED <<files, entries, session, lock, accepted, broken>>
      /\ UNCHANGED <<versions, current, pending>>
  BY DEF AgentResolves, HasApp, files
<1>2. /\ proc[p] \in Proc /\ ProcOK(p) /\ x \in Proc /\ x.pc = "stop"
      /\ x.purpose = proc[p].purpose /\ x.release = proc[p].release
      /\ x.target = current.current
  BY <1>1, Types DEF IInv, Proc, Step
<1>3. proc' = [proc EXCEPT ![p] = x]
  BY <1>1
<1>. HIDE DEF x
<1>4. Undisturbed(p) /\ proc'[p] = x
  BY <1>1, <1>2, <1>3, Becomes
<1>5. ProcOK(p)'
  BY <1>1, <1>2, <1>4
     DEF ProcOK, HoldsLock, PurposeFits, ValuesFit, RecordsFit,
         SelectsWhole, At, Is, Inside, Activating
<1>6. OutsideOK'
  BY <1>1, OutsideStays DEF files
<1>. QED
  BY <1>1, <1>4, <1>5, <1>6, QuietKeeps

LEMMA WorkKeeps == ASSUME IInv, NEW p \in Setup, Work(p) PROVE IInv'
<1>1. CASE LockFails(p) \/ Lock(p) \/ NothingToRecover(p)
  BY <1>1, LockFailsKeeps, LockKeeps, NothingToRecoverKeeps
<1>2. CASE \/ PruneFirst(p) \/ WriteJournal(p) \/ InstallFiles(p)
           \/ Select(p) \/ WriteMarker(p) \/ Restore(p) \/ Commit(p)
           \/ PruneRest(p) \/ Forget(p) \/ Swap(p) \/ RemoveRoot(p)
           \/ RemovePart(p)
  BY <1>2, PruneFirstKeeps, WriteJournalKeeps, InstallFilesKeeps,
     SelectKeeps, WriteMarkerKeeps, RestoreKeeps, CommitKeeps,
     PruneRestKeeps, ForgetKeeps, SwapKeeps, RemoveRootKeeps, RemovePartKeeps
<1>3. CASE \/ RemoveShortcut(p) \/ RemoveInstalledApps(p)
           \/ RemoveOldHelper(p) \/ RenameHelper(p) \/ UpdateInstalledApps(p)
           \/ UpdateShortcut(p) \/ UpdateStartup(p)
  BY <1>3, RemoveShortcutKeeps, RemoveInstalledAppsKeeps, EntriesKeep
<1>4. CASE \/ StopBackground(p) \/ StartBackground(p)
           \/ RequestActivation(p) \/ AgentResolves(p)
  BY <1>4, StopBackgroundKeeps, StartBackgroundKeeps, RequestActivationKeeps,
     AgentResolvesKeeps
<1>5. CASE ProbePasses(p)
  BY <1>5, ActivatedKeeps DEF ProbePasses, At
<1>6. CASE AwaitPasses(p)
  BY <1>6, ActivatedKeeps DEF AwaitPasses, At
<1>. QED
  BY <1>1, <1>2, <1>3, <1>4, <1>5, <1>6 DEF Work

\* Steps of no Setup process.
LEMMA ProgramsKeep ==
  ASSUME IInv, OutsideOK', UNCHANGED <<files, proc, lock, broken>>
  PROVE  IInv'
<1>1. UNCHANGED <<versions, current, pending, marker, proc, lock, broken>>
  BY DEF files
<1>2. TypeOK'
  BY <1>1 DEF IInv, TypeOK, OutsideOK
<1>3. \A p \in Setup : ProcOK(p)'
  BY <1>1
     DEF IInv, ProcOK, HoldsLock, PurposeFits, ValuesFit, RecordsFit,
         SelectsWhole, At, Is, Selecting
<1>. QED
  BY <1>2, <1>3, RecordsStay DEF IInv

LEMMA TaskOpensCenterKeeps == ASSUME IInv, TaskOpensCenter PROVE IInv'
<1>1. /\ task' = 0 /\ agentDue' = FALSE
      /\ running' = running \cup
           IF HasApp(task) THEN {<<Center, task>>} ELSE {}
      /\ UNCHANGED <<files, entries, endpoint, lock, accepted, proc, broken>>
  BY DEF TaskOpensCenter
<1>2. running' \subseteq Background \X Release
  BY <1>1, WindowsSetupAssumption DEF HasApp, IInv, TypeOK
<1>3. OutsideOK'
  BY <1>1, <1>2 DEF IInv, TypeOK, OutsideOK, files, entries
<1>. QED
  BY <1>1, <1>3, ProgramsKeep

LEMMA DaemonListensKeeps ==
  ASSUME IInv, NEW r \in Release, DaemonListens(r) PROVE IInv'
<1>1. OutsideOK'
  BY DEF DaemonListens, IInv, TypeOK, OutsideOK, files, entries
<1>. QED
  BY <1>1, ProgramsKeep DEF DaemonListens

LEMMA ProgramExitsKeeps == ASSUME IInv, ProgramExits PROVE IInv'
<1>1. OutsideOK'
  BY ProgramsEnd DEF ProgramExits
<1>. QED
  BY <1>1, ProgramsKeep DEF ProgramExits

LEMMA StepFailsKeeps ==
  ASSUME IInv, NEW p \in Setup, StepFails(p) PROVE IInv'
<1>1. /\ ~At(p, "idle") /\ Fail(p)
      /\ UNCHANGED <<files, entries, session, accepted, broken>>
  BY DEF StepFails, At
<1>2. Undisturbed(p) /\ ProcOK(p)'
  BY <1>1, Failing DEF files
<1>3. OutsideOK'
  BY <1>1, OutsideStays DEF files
<1>. QED
  BY <1>1, <1>2, <1>3, QuietKeeps

LEMMA KilledKeeps == ASSUME IInv, NEW p \in Setup, Killed(p) PROVE IInv'
<1>1. End(p) /\ UNCHANGED <<files, entries, session, accepted, broken>>
  BY DEF Killed
<1>2. Undisturbed(p) /\ ProcOK(p)'
  BY <1>1, Ends
<1>3. OutsideOK'
  BY <1>1, OutsideStays DEF files
<1>. QED
  BY <1>1, <1>2, <1>3, QuietKeeps

LEMMA PowerOffKeeps == ASSUME IInv, PowerOff PROVE IInv'
<1>1. /\ proc' = [p \in Setup |-> NoProc] /\ lock' = NoSetup
      /\ running' = {} /\ endpoint' = 0 /\ task' = 0 /\ agentDue' = FALSE
      /\ UNCHANGED <<files, entries, accepted, broken>>
  BY DEF PowerOff
<1>2. \A p \in Setup : ProcOK(p)'
  <2>1. \A p \in Setup : proc'[p] = NoProc
    BY <1>1
  <2>. QED
    BY <2>1, EndedIsOK
<1>3. TypeOK'
  <2>1. proc' \in [Setup -> Proc]
    BY <1>1, NoProcTyped
  <2>. QED
    BY <1>1, <2>1 DEF IInv, TypeOK, Proc, files, entries
<1>. QED
  BY <1>1, <1>2, <1>3, RecordsStay DEF IInv

-----------------------------------------------------------------------------
(* The invariant and what follows from it.                                 *)

LEMMA InitInvariant == Init => IInv
<1> SUFFICES ASSUME Init PROVE IInv
  OBVIOUS
<1>1. TypeOK
  BY NoProcTyped DEF Init, TypeOK, Proc, Directory
<1>2. \A p \in Setup : ProcOK(p)
  BY NoProcTyped
     DEF Init, ProcOK, HoldsLock, PurposeFits, ValuesFit, RecordsFit,
         SelectsWhole, At, Is, Inside, Activating
<1>. QED
  BY <1>1, <1>2 DEF Init, IInv, RetainedAreWhole, UpgradeOfSome, Mentioned

LEMMA StepInvariant == IInv /\ [Next]_vars => IInv'
<1> SUFFICES ASSUME IInv, [Next]_vars PROVE IInv'
  OBVIOUS
<1>1. ASSUME NEW p \in Setup,
             Command(p) \/ BeginSignIn(p) \/ BeginAgent(p) \/ Work(p)
      PROVE  IInv'
  BY <1>1, CommandsKeep, BeginAgentKeeps, WorkKeeps
<1>2. CASE Programs
  BY <1>2, TaskOpensCenterKeeps, DaemonListensKeeps DEF Programs
<1>3. CASE Fault
  BY <1>3, StopFailsKeeps, StartFailsKeeps, StepFailsKeeps, KilledKeeps,
     ProgramExitsKeeps, PowerOffKeeps DEF Fault
<1>4. CASE UNCHANGED vars
  <2>1. UNCHANGED <<files, entries, session, lock, accepted, proc, broken>>
    BY <1>4 DEF vars
  <2>2. OutsideOK'
    BY <2>1, OutsideStays DEF files
  <2>. QED
    BY <2>1, <2>2, ProgramsKeep
<1>. QED
  BY <1>1, <1>2, <1>3, <1>4 DEF Next

(***************************************************************************)
(* The invariant holds in every state: the types, who holds the lock in    *)
(* which step, and what the records say while it is held.                  *)
(***************************************************************************)
THEOREM Invariance == Spec => []IInv
<1>1. Init => IInv
  BY InitInvariant
<1>2. IInv /\ [Next]_vars => IInv'
  BY StepInvariant
<1>. QED
  BY <1>1, <1>2, PTL DEF Spec

(***************************************************************************)
(* Files, entry points, programs and Setup processes keep their types.     *)
(***************************************************************************)
THEOREM TypeCorrect == Spec => []TypeOK
<1>1. IInv => TypeOK
  BY DEF IInv
<1>. QED
  BY <1>1, Invariance, PTL

(***************************************************************************)
(* Every release that is selected, kept for a rollback or recorded for     *)
(* recovery is whole, whatever was interrupted or pruned, until a removal  *)
(* of the installation breaks off (install, pruneObsoleteVersions): only   *)
(* the process that has the lock prunes, and it keeps what the records     *)
(* name.                                                                   *)
(***************************************************************************)
THEOREM RetainedWhole == Spec => []RetainedAreWhole
<1>1. IInv => RetainedAreWhole
  BY DEF IInv
<1>. QED
  BY <1>1, Invariance, PTL

-----------------------------------------------------------------------------
(* WindowsSetup implements VersionSwitch.                                  *)

Installed == IF pending # NoState THEN pending ELSE current

Starts(p) ==
  Is(p, "install") /\ proc[p].pc \in {"lock", "prune", "files", "select"}

\* The variables of VersionSwitch.
Firsts ==
  {proc[p].release : p \in {q \in Setup :
     Is(q, "install") /\ proc[q].pc \in {"lock", "prune", "files", "select"}}}

Trials == {proc[p].release : p \in {q \in Setup : At(q, "commit")}}

Servings == {r \in Release : \A b \in {Daemon, Center} : Runs(b, r)}

\* A process whose step brings no release closer to being installed.
Behind(p) ==
  /\ Starts(p)' => Starts(p) /\ proc'[p].release = proc[p].release
  /\ At(p, "commit")' => At(p, "commit")
                         /\ proc'[p].release = proc[p].release

LEMMA GivesUp ==
  ASSUME UNCHANGED Installed, Firsts' \subseteq Firsts,
         Trials' \subseteq Trials
  PROVE  [Atomic!Next]_Atomic!vars
BY DEF Installed, Firsts, Trials, Atomic!Next, Atomic!GiveUp

LEMMA EndedIsBehind ==
  ASSUME NEW p \in Setup, proc'[p] = NoProc
  PROVE  Behind(p)
BY NoProcTyped DEF Behind, Starts, At, Is

LEMMA BehindGivesUp ==
  ASSUME UNCHANGED Installed, \A p \in Setup : Behind(p)
  PROVE  [Atomic!Next]_Atomic!vars
<1>1. Firsts' \subseteq Firsts
  <2>1. ASSUME NEW p \in Setup, Starts(p)'
        PROVE  Starts(p) /\ proc'[p].release = proc[p].release
    BY <2>1 DEF Behind
  <2>2. Firsts' = {proc'[p].release : p \in {q \in Setup : Starts(q)'}}
    BY DEF Firsts, Starts, Is
  <2>3. Firsts = {proc[p].release : p \in {q \in Setup : Starts(q)}}
    BY DEF Firsts, Starts
  <2>. QED
    BY <2>1, <2>2, <2>3
<1>2. Trials' \subseteq Trials
  <2>1. ASSUME NEW p \in Setup, At(p, "commit")'
        PROVE  At(p, "commit") /\ proc'[p].release = proc[p].release
    BY <2>1 DEF Behind
  <2>2. Trials' = {proc'[p].release : p \in {q \in Setup : At(q, "commit")'}}
    BY DEF Trials, At
  <2>. QED
    BY <2>1, <2>2 DEF Trials
<1>. QED
  BY <1>1, <1>2, GivesUp

\* The step of one process, behind or not.
LEMMA OthersAreBehind ==
  ASSUME NEW p \in Setup, Undisturbed(p)
  PROVE  \A q \in Setup \ {p} : Behind(q)
<1>1. ASSUME NEW q \in Setup \ {p} PROVE Behind(q)
  <2>1. CASE proc'[q] = NoProc
    BY <2>1, EndedIsBehind
  <2>2. CASE proc'[q] = proc[q]
    BY <2>2 DEF Behind, Starts, At, Is
  <2>. QED
    BY <2>1, <2>2 DEF Undisturbed
<1>. QED
  BY <1>1

LEMMA Refines ==
  ASSUME NEW p \in Setup, Undisturbed(p), Behind(p), UNCHANGED Installed
  PROVE  [Atomic!Next]_Atomic!vars
<1>1. \A q \in Setup : Behind(q)
  BY OthersAreBehind
<1>. QED
  BY <1>1, BehindGivesUp

LEMMA RecordsSame == ASSUME UNCHANGED files PROVE UNCHANGED Installed
BY DEF files, Installed

\* Where a step may lead without bringing a release closer.
Aside(x) ==
  \/ x.pc \notin {"lock", "prune", "files", "select", "commit"}
  \/ x.pc # "commit" /\ x.purpose # "install"

LEMMA AsideIsBehind ==
  ASSUME NEW p \in Setup, Aside(proc[p])'
  PROVE  Behind(p)
BY DEF Aside, Behind, Starts, At, Is

LEMMA GoesAside ==
  ASSUME IInv, NEW p \in Setup,
         NEW pc \in Step \ {"lock", "prune", "files", "select", "commit"},
         GoTo(p, pc), UNCHANGED lock
  PROVE  Undisturbed(p) /\ Behind(p)
<1>1. Undisturbed(p) /\ proc'[p].pc = pc
  BY GoesOn
<1>. QED
  BY <1>1, AsideIsBehind DEF Aside

LEMMA BecomesAside ==
  ASSUME IInv, NEW p \in Setup, NEW x \in Proc, Aside(x),
         \/ proc' = [proc EXCEPT ![p] = x] /\ UNCHANGED lock
         \/ Leave(p, x)
  PROVE  Undisturbed(p) /\ Behind(p)
<1>1. Undisturbed(p) /\ proc'[p] = x
  BY Becomes, Leaves
<1>. QED
  BY <1>1, AsideIsBehind DEF Aside

LEMMA EndsAside ==
  ASSUME IInv, NEW p \in Setup, End(p)
  PROVE  Undisturbed(p) /\ Behind(p)
BY Ends, EndedIsBehind

LEMMA FailsAside ==
  ASSUME IInv, NEW p \in Setup, Fail(p)
  PROVE  Undisturbed(p) /\ Behind(p)
<1>. DEFINE back == /\ Is(p, "upgrade") /\ pending # NoState
                    /\ ~At(p, "commit") /\ ~At(p, "lock")
            x == [proc[p] EXCEPT !.pc = "restore", !.purpose = "revert"]
<1>1. CASE ~back
  BY <1>1, EndsAside DEF Fail
<1>2. CASE back
  <2>1. x \in Proc /\ x.pc = "restore"
    <3>1. proc[p] \in Proc
      BY Types
    <3>. QED
      BY <3>1 DEF Proc, Step, Purpose
  <2>2. proc' = [proc EXCEPT ![p] = x] /\ UNCHANGED lock
    BY <1>2 DEF Fail
  <2>. HIDE DEF x
  <2>. QED
    BY <2>1, <2>2, BecomesAside DEF Aside
<1>. QED
  BY <1>1, <1>2

-----------------------------------------------------------------------------
(* Steps that change neither what is installed nor what may become so.     *)

LEMMA CommandRefines ==
  ASSUME IInv, NEW p \in Setup,
         NEW purpose \in {"signIn", "rollback", "uninstall"},
         BeginCommand(p, purpose)
  PROVE  [Atomic!Next]_Atomic!vars
<1>. DEFINE x == [NoProc EXCEPT !.pc = "lock", !.purpose = purpose]
<1>1. x \in Proc /\ x.pc = "lock" /\ x.purpose = purpose
  BY DEF NoProc, Proc, Step, Purpose
<1>2. /\ proc' = [proc EXCEPT ![p] = x] /\ UNCHANGED <<files, lock>>
  BY DEF BeginCommand
<1>. HIDE DEF x
<1>3. Undisturbed(p) /\ Behind(p)
  BY <1>1, <1>2, BecomesAside DEF Aside
<1>. QED
  BY <1>2, <1>3, Refines, RecordsSame

LEMMA BeginAgentRefines ==
  ASSUME IInv, NEW p \in Setup, BeginAgent(p)
  PROVE  [Atomic!Next]_Atomic!vars
<1>. DEFINE x == [NoProc EXCEPT !.pc = "agent", !.purpose = "agent"]
<1>1. x \in Proc /\ x.pc = "agent"
  BY DEF NoProc, Proc, Step, Purpose
<1>2. /\ proc' = [proc EXCEPT ![p] = x] /\ UNCHANGED <<files, lock>>
  BY DEF BeginAgent
<1>. HIDE DEF x
<1>3. Undisturbed(p) /\ Behind(p)
  BY <1>1, <1>2, BecomesAside DEF Aside
<1>. QED
  BY <1>2, <1>3, Refines, RecordsSame

LEMMA LockRefines ==
  ASSUME IInv, NEW p \in Setup, Lock(p)
  PROVE  [Atomic!Next]_Atomic!vars
<1>1. UNCHANGED files /\ At(p, "lock")
  BY DEF Lock
<1>2. Undisturbed(p) /\ Behind(p)
  <2>1. CASE ~Admitted(p)
    <3>1. UNCHANGED lock /\ proc' = [proc EXCEPT ![p] = NoProc]
      BY <2>1 DEF Lock
    <3>. QED
      BY <3>1, NoProcTyped, BecomesAside DEF Aside
  <2>2. CASE Admitted(p)
    <3>. DEFINE pc == FirstStep(p)
    <3>1. lock' = p /\ GoTo(p, pc) /\ lock = NoSetup
      BY <2>2 DEF Lock
    <3>2. /\ pc \in Step
          /\ pc \in {"prune", "journal", "swap", "remove", "restore"}
          /\ pc = "prune" => Is(p, "install")
      BY DEF FirstStep, Is, Step
    <3>. HIDE DEF pc
    <3>3. /\ proc' \in [Setup -> Proc] /\ proc'[p].pc = pc
          /\ proc'[p].purpose = proc[p].purpose
          /\ proc'[p].release = proc[p].release
          /\ \A q \in Setup \ {p} : proc'[q] = proc[q]
      BY <3>1, <3>2, Types DEF GoTo, Proc
    <3>4. Undisturbed(p)
      BY <3>1, <3>3, Types DEF Undisturbed
    <3>5. Behind(p)
      BY <1>1, <3>2, <3>3 DEF Behind, Starts, At, Is
    <3>. QED
      BY <3>4, <3>5
  <2>. QED
    BY <2>1, <2>2
<1>. QED
  BY <1>1, <1>2, Refines, RecordsSame

LEMMA NothingToRecoverRefines ==
  ASSUME IInv, NEW p \in Setup, NothingToRecover(p)
  PROVE  [Atomic!Next]_Atomic!vars
<1>. DEFINE x == IF ~Admitted(p) THEN NoProc
                 ELSE IF Is(p, "recover")
                 THEN [proc[p] EXCEPT !.purpose = "upgrade"]
                 ELSE [proc[p] EXCEPT !.pc = "start",
                                      !.target = current.current]
<1>1. /\ UNCHANGED <<files, lock>> /\ At(p, "lock")
      /\ proc[p].purpose \in {"recover", "signIn"} /\ pending = NoState
      /\ proc[p] \in Proc
  BY Types DEF NothingToRecover
<1>2. Admitted(p) => current.current \in Release
  BY <1>1 DEF Admitted, Is, HasApp
<1>3. x \in Proc /\ proc' = [proc EXCEPT ![p] = x] /\ Aside(x)
  BY <1>1, <1>2, NoProcTyped
     DEF NothingToRecover, Proc, Step, Purpose, Aside, At
<1>. HIDE DEF x
<1>4. Undisturbed(p) /\ Behind(p)
  BY <1>1, <1>3, BecomesAside
<1>. QED
  BY <1>1, <1>4, Refines, RecordsSame

LEMMA PreparingRefines ==
  ASSUME IInv, NEW p \in Setup, PruneFirst(p) \/ InstallFiles(p)
  PROVE  [Atomic!Next]_Atomic!vars
<1>1. /\ UNCHANGED <<current, pending, lock>>
      /\ \/ At(p, "prune") /\ GoTo(p, "files")
         \/ At(p, "files") /\ GoTo(p, "select")
  BY DEF PruneFirst, InstallFiles
<1>2. PICK pc \in {"files", "select"} :
        GoTo(p, pc) /\ proc[p].pc \in {"prune", "files"}
  BY <1>1 DEF At
<1>3. /\ Undisturbed(p) /\ proc'[p].pc = pc
      /\ proc'[p].purpose = proc[p].purpose
      /\ proc'[p].release = proc[p].release
  BY <1>1, <1>2, GoesOn DEF Step
<1>4. Behind(p)
  BY <1>2, <1>3 DEF Behind, Starts, At, Is
<1>. QED
  BY <1>1, <1>3, <1>4, Refines DEF Installed

LEMMA WriteJournalRefines ==
  ASSUME IInv, NEW p \in Setup, WriteJournal(p)
  PROVE  [Atomic!Next]_Atomic!vars
<1>1. /\ At(p, "journal") /\ GoTo(p, "files") /\ pending' = current
      /\ UNCHANGED <<current, lock>>
  BY DEF WriteJournal
<1>2. Is(p, "upgrade") /\ current # NoState /\ pending = NoState
  BY <1>1, HolderIs DEF At, Inside, ProcOK, PurposeFits, RecordsFit
<1>3. /\ Undisturbed(p) /\ proc'[p].pc = "files"
      /\ proc'[p].purpose = proc[p].purpose
  BY <1>1, GoesOn DEF Step
<1>4. Behind(p)
  BY <1>2, <1>3, AsideIsBehind DEF Aside, Is
<1>. QED
  BY <1>1, <1>2, <1>3, <1>4, Refines DEF Installed

LEMMA WriteMarkerRefines ==
  ASSUME IInv, NEW p \in Setup, WriteMarker(p)
  PROVE  [Atomic!Next]_Atomic!vars
<1>1. At(p, "mark") /\ UNCHANGED <<current, pending, lock>>
  BY DEF WriteMarker
<1>2. Undisturbed(p) /\ Behind(p)
  <2>1. CASE Is(p, "upgrade")
    <3>. DEFINE x == ToActivate(p, proc[p].release)
    <3>1. x \in Proc /\ x.pc = "helper"
      <4>1. proc[p] \in Proc
        BY Types
      <4>. QED
        BY <2>1, <4>1 DEF ToActivate, EntryStep, Proc, Step, Is
    <3>2. proc' = [proc EXCEPT ![p] = x]
      BY <2>1 DEF WriteMarker
    <3>. HIDE DEF x
    <3>. QED
      BY <1>1, <3>1, <3>2, BecomesAside DEF Aside
  <2>2. CASE ~Is(p, "upgrade")
    BY <1>1, <2>2, GoesAside DEF WriteMarker, Step
  <2>. QED
    BY <2>1, <2>2
<1>. QED
  BY <1>1, <1>2, Refines DEF Installed

LEMMA RestoreRefines ==
  ASSUME IInv, NEW p \in Setup, Restore(p)
  PROVE  [Atomic!Next]_Atomic!vars
<1>. DEFINE x == ToActivate(p, pending.current)
<1>1. /\ At(p, "restore") /\ HasApp(pending.current)
      /\ proc' = [proc EXCEPT ![p] = x] /\ UNCHANGED <<pending, lock>>
  BY DEF Restore
<1>2. pending # NoState /\ proc[p] \in Proc
  BY <1>1, HolderIs DEF At, Inside, ProcOK, RecordsFit
<1>3. x \in Proc /\ x.pc \in {"helper", "list"}
  BY <1>1, <1>2 DEF ToActivate, EntryStep, Proc, Step, HasApp
<1>. HIDE DEF x
<1>4. Undisturbed(p) /\ Behind(p)
  BY <1>1, <1>3, BecomesAside DEF Aside
<1>. QED
  BY <1>1, <1>2, <1>4, Refines DEF Installed

LEMMA PruneRestRefines ==
  ASSUME IInv, NEW p \in Setup, PruneRest(p)
  PROVE  [Atomic!Next]_Atomic!vars
<1>1. UNCHANGED <<current, pending>> /\ proc[p] \in Proc
  BY Types DEF PruneRest
<1>2. Undisturbed(p) /\ Behind(p)
  <2>1. CASE Is(p, "install")
    <3>. DEFINE x == ToActivate(p, proc[p].release)
    <3>1. x \in Proc /\ x.pc = "helper"
      BY <1>1, <2>1 DEF ToActivate, EntryStep, Proc, Step, Is
    <3>2. Leave(p, x)
      BY <2>1 DEF PruneRest
    <3>. HIDE DEF x
    <3>. QED
      BY <3>1, <3>2, BecomesAside DEF Aside
  <2>2. CASE ~Is(p, "install")
    BY <2>2, EndsAside DEF PruneRest
  <2>. QED
    BY <2>1, <2>2
<1>. QED
  BY <1>1, <1>2, Refines DEF Installed

LEMMA ForgetRefines ==
  ASSUME IInv, NEW p \in Setup, Forget(p)
  PROVE  [Atomic!Next]_Atomic!vars
<1>1. At(p, "forget") /\ pending' = NoState /\ UNCHANGED current
  BY DEF Forget
<1>2. /\ lock = p /\ proc[p] \in Proc
      /\ proc[p].purpose \in {"revert", "recover", "signIn"}
      /\ pending # NoState /\ current = pending
  BY <1>1, HolderIs
     DEF At, Is, Inside, ProcOK, PurposeFits, RecordsFit, Activating
<1>3. Undisturbed(p) /\ Behind(p)
  <2>1. CASE Is(p, "recover")
    <3>. DEFINE x == [proc[p] EXCEPT !.pc = "lock", !.purpose = "upgrade"]
    <3>1. x \in Proc /\ x.pc = "lock" /\ x.purpose = "upgrade"
      BY <1>2 DEF Proc, Step, Purpose
    <3>2. Leave(p, x)
      BY <2>1 DEF Forget, Is
    <3>. HIDE DEF x
    <3>. QED
      BY <3>1, <3>2, BecomesAside DEF Aside
  <2>2. CASE Is(p, "signIn")
    <3>. DEFINE x == [proc[p] EXCEPT !.pc = "start"]
    <3>1. x \in Proc /\ x.pc = "start"
      BY <1>2 DEF Proc, Step
    <3>2. Leave(p, x)
      BY <2>2 DEF Forget, Is
    <3>. HIDE DEF x
    <3>. QED
      BY <3>1, <3>2, BecomesAside DEF Aside
  <2>3. CASE Is(p, "revert")
    <3>1. End(p)
      BY <2>3 DEF Forget, Is
    <3>. QED
      BY <3>1, EndsAside
  <2>. QED
    BY <1>2, <2>1, <2>2, <2>3 DEF Is
<1>. QED
  BY <1>1, <1>2, <1>3, Refines DEF Installed

\* Steps that leave the installed files alone and lead aside.
LEMMA QuietRefines ==
  ASSUME IInv, NEW p \in Setup, UNCHANGED files,
         \/ Fail(p)
         \/ End(p)
         \/ /\ UNCHANGED lock
            /\ \E pc \in Activating \cup {"unlist"} : GoTo(p, pc)
  PROVE  [Atomic!Next]_Atomic!vars
<1>1. Undisturbed(p) /\ Behind(p)
  <2>1. Activating \cup {"unlist"} \subseteq
          Step \ {"lock", "prune", "files", "select", "commit"}
    BY DEF Activating, Step
  <2>. QED
    BY <2>1, FailsAside, EndsAside, GoesAside
<1>. QED
  BY <1>1, Refines, RecordsSame

LEMMA EntriesRefine ==
  ASSUME IInv, NEW p \in Setup,
         \/ LockFails(p) \/ RemoveShortcut(p) \/ RemoveInstalledApps(p)
         \/ RemoveOldHelper(p) \/ RenameHelper(p) \/ UpdateInstalledApps(p)
         \/ UpdateShortcut(p) \/ UpdateStartup(p)
  PROVE  [Atomic!Next]_Atomic!vars
<1>1. UNCHANGED files
  BY DEF LockFails, RemoveShortcut, RemoveInstalledApps, RemoveOldHelper,
         RenameHelper, UpdateInstalledApps, UpdateShortcut, UpdateStartup
<1>2. \/ End(p)
      \/ /\ UNCHANGED lock
         /\ \E pc \in Activating \cup {"unlist"} : GoTo(p, pc)
  BY DEF LockFails, RemoveShortcut, RemoveInstalledApps, RemoveOldHelper,
         RenameHelper, UpdateInstalledApps, UpdateShortcut, UpdateStartup,
         Activating
<1>. QED
  BY <1>1, <1>2, QuietRefines

LEMMA ProgramStepsRefine ==
  ASSUME IInv, NEW p \in Setup,
         \/ StopBackground(p) \/ StopFails(p) \/ StartBackground(p)
         \/ StartFails(p) \/ StepFails(p) \/ Killed(p)
  PROVE  [Atomic!Next]_Atomic!vars
<1>1. UNCHANGED files
  BY DEF StopBackground, StopFails, StartBackground, StartFails, StepFails,
         Killed
<1>2. \/ Fail(p)
      \/ End(p)
      \/ /\ UNCHANGED lock
         /\ \E pc \in Activating \cup {"unlist"} : GoTo(p, pc)
  BY DEF StopBackground, StopFails, StartBackground, StartFails, StepFails,
         Killed, Activating
<1>. QED
  BY <1>1, <1>2, QuietRefines

LEMMA AgentResolvesRefines ==
  ASSUME IInv, NEW p \in Setup, AgentResolves(p)
  PROVE  [Atomic!Next]_Atomic!vars
<1>. DEFINE x == [proc[p] EXCEPT !.pc = "stop", !.target = current.current]
<1>1. /\ current.current \in Release /\ UNCHANGED <<files, lock>>
      /\ proc' = [proc EXCEPT ![p].pc = "stop", ![p].target = current.current]
  BY DEF AgentResolves, HasApp
<1>2. x \in Proc /\ x.pc = "stop" /\ proc' = [proc EXCEPT ![p] = x]
  <2>1. proc[p] \in Proc /\ proc \in [Setup -> Proc]
    BY Types
  <2>2. x \in Proc /\ x.pc = "stop"
    BY <1>1, <2>1 DEF Proc, Step
  <2>3. proc' = [proc EXCEPT ![p] = x]
    BY <1>1
  <2>. QED
    BY <2>2, <2>3
<1>. HIDE DEF x
<1>3. Undisturbed(p) /\ Behind(p)
  BY <1>1, <1>2, BecomesAside DEF Aside
<1>. QED
  BY <1>1, <1>3, Refines, RecordsSame

LEMMA RequestRefines ==
  ASSUME IInv, NEW p \in Setup, RequestActivation(p)
  PROVE  [Atomic!Next]_Atomic!vars
<1>. DEFINE x == [proc[p] EXCEPT !.pc = "await"]
<1>1. UNCHANGED <<files, lock>>
  BY DEF RequestActivation
<1>2. x \in Proc /\ x.pc = "await"
  BY Types DEF Proc, Step
<1>3. proc' = [q \in Setup |->
        IF q = p THEN x ELSE IF Is(q, "agent") THEN NoProc ELSE proc[q]]
  BY DEF RequestActivation
<1>. HIDE DEF x
<1>4. Undisturbed(p) /\ proc'[p] = x
  BY <1>1, <1>2, <1>3, Types, NoProcTyped DEF Undisturbed
<1>5. Behind(p)
  BY <1>2, <1>4, AsideIsBehind DEF Aside
<1>. QED
  BY <1>1, <1>4, <1>5, Refines, RecordsSame

\* Steps of no Setup process.
LEMMA NoProcessRefines ==
  ASSUME UNCHANGED <<files, proc>>
  PROVE  [Atomic!Next]_Atomic!vars
<1>1. \A p \in Setup : Behind(p)
  BY DEF Behind, Starts, At, Is
<1>. QED
  BY <1>1, BehindGivesUp, RecordsSame

LEMMA PowerOffRefines ==
  ASSUME PowerOff PROVE [Atomic!Next]_Atomic!vars
<1>1. \A p \in Setup : proc'[p] = NoProc
  BY DEF PowerOff
<1>. QED
  BY <1>1, EndedIsBehind, BehindGivesUp, RecordsSame DEF PowerOff

-----------------------------------------------------------------------------
(* Steps that change what is installed or what may become so.              *)

\* What the step of p alone makes of the releases.
LEMMA OneMoves ==
  ASSUME NEW p \in Setup, \A q \in Setup \ {p} : proc'[q] = proc[q]
  PROVE  /\ ~Starts(p) /\ ~Starts(p)' => Firsts' = Firsts
         /\ ~Starts(p) /\ Starts(p)' =>
              Firsts' = Firsts \cup {proc'[p].release}
         /\ Starts(p) /\ ~Starts(p)' =>
              /\ proc[p].release \in Firsts
              /\ Firsts' \in {Firsts, Firsts \ {proc[p].release}}
         /\ ~At(p, "commit") /\ ~At(p, "commit")' => Trials' = Trials
         /\ ~At(p, "commit") /\ At(p, "commit")' =>
              Trials' = Trials \cup {proc'[p].release}
         /\ At(p, "commit") /\ ~At(p, "commit")' =>
              /\ proc[p].release \in Trials
              /\ Trials' \in {Trials, Trials \ {proc[p].release}}
<1>1. /\ Firsts' = {proc'[q].release : q \in {y \in Setup : Starts(y)'}}
      /\ Firsts = {proc[q].release : q \in {y \in Setup : Starts(y)}}
      /\ Trials' = {proc'[q].release : q \in {y \in Setup : At(y, "commit")'}}
      /\ Trials = {proc[q].release : q \in {y \in Setup : At(y, "commit")}}
  BY DEF Firsts, Trials, Starts, At, Is
<1>2. ASSUME NEW q \in Setup \ {p}
      PROVE  /\ Starts(q)' <=> Starts(q)
             /\ At(q, "commit")' <=> At(q, "commit")
             /\ proc'[q].release = proc[q].release
  BY DEF Starts, At, Is
<1>. DEFINE F == {proc[q].release : q \in {y \in Setup \ {p} : Starts(y)}}
            T == {proc[q].release :
                    q \in {y \in Setup \ {p} : At(y, "commit")}}
<1>3. /\ Firsts' = F \cup (IF Starts(p)' THEN {proc'[p].release} ELSE {})
      /\ Firsts = F \cup (IF Starts(p) THEN {proc[p].release} ELSE {})
  <2>1. Firsts = F \cup (IF Starts(p) THEN {proc[p].release} ELSE {})
    BY <1>1
  <2>2. F = {proc'[q].release : q \in {y \in Setup \ {p} : Starts(y)'}}
    BY <1>2
  <2>3. Firsts' = F \cup (IF Starts(p)' THEN {proc'[p].release} ELSE {})
    <3>. HIDE DEF F
    <3>. QED
      BY <1>1, <2>2
  <2>. QED
    BY <2>1, <2>3
<1>4. /\ Trials' = T \cup (IF At(p, "commit")' THEN {proc'[p].release} ELSE {})
      /\ Trials = T \cup (IF At(p, "commit") THEN {proc[p].release} ELSE {})
  <2>1. Trials = T \cup (IF At(p, "commit") THEN {proc[p].release} ELSE {})
    BY <1>1
  <2>2. T = {proc'[q].release :
               q \in {y \in Setup \ {p} : At(y, "commit")'}}
    BY <1>2
  <2>3. Trials' =
          T \cup (IF At(p, "commit")' THEN {proc'[p].release} ELSE {})
    <3>. HIDE DEF T
    <3>. QED
      BY <1>1, <2>2
  <2>. QED
    BY <2>1, <2>3
<1>. HIDE DEF F, T
<1>5. /\ ~Starts(p) /\ ~Starts(p)' => Firsts' = Firsts
      /\ ~Starts(p) /\ Starts(p)' =>
           Firsts' = Firsts \cup {proc'[p].release}
      /\ Starts(p) /\ ~Starts(p)' =>
           /\ proc[p].release \in Firsts
           /\ Firsts' \in {Firsts, Firsts \ {proc[p].release}}
  BY <1>3
<1>6. /\ ~At(p, "commit") /\ ~At(p, "commit")' => Trials' = Trials
      /\ ~At(p, "commit") /\ At(p, "commit")' =>
           Trials' = Trials \cup {proc'[p].release}
      /\ At(p, "commit") /\ ~At(p, "commit")' =>
           /\ proc[p].release \in Trials
           /\ Trials' \in {Trials, Trials \ {proc[p].release}}
  BY <1>4
<1>. QED
  BY <1>5, <1>6

LEMMA ServingsSame == ASSUME UNCHANGED running PROVE UNCHANGED Servings
BY DEF Servings, Runs

LEMMA BeginInstallRefines ==
  ASSUME IInv, NEW p \in Setup, NEW r \in Release, BeginInstall(p, r)
  PROVE  [Atomic!Next]_Atomic!vars
<1>. DEFINE x == [NoProc EXCEPT !.pc = "lock", !.release = r,
                    !.purpose = IF current = NoState THEN "install"
                                ELSE "recover"]
<1>1. /\ At(p, "idle") /\ proc' = [proc EXCEPT ![p] = x]
      /\ UNCHANGED <<files, lock, running>>
  BY DEF BeginInstall, session
<1>2. /\ x \in Proc /\ x.pc = "lock" /\ x.release = r
      /\ current = NoState => x.purpose = "install"
      /\ current # NoState => x.purpose = "recover"
  BY DEF NoProc, Proc, Step, Purpose
<1>. HIDE DEF x
<1>3. CASE current # NoState
  <2>1. Undisturbed(p) /\ Behind(p)
    BY <1>1, <1>2, <1>3, BecomesAside DEF Aside
  <2>. QED
    BY <1>1, <2>1, Refines, RecordsSame
<1>4. CASE current = NoState
  <2>1. proc'[p] = x /\ \A q \in Setup \ {p} : proc'[q] = proc[q]
    BY <1>1, Types
  <2>2. /\ ~Starts(p) /\ ~At(p, "commit")
        /\ Starts(p)' /\ ~At(p, "commit")'
    BY <1>1, <1>2, <1>4, <2>1 DEF Starts, At, Is
  <2>3. Firsts' = Firsts \cup {r} /\ UNCHANGED Trials
    BY <1>2, <2>1, <2>2, OneMoves
  <2>4. Installed = NoState /\ UNCHANGED Installed /\ UNCHANGED Servings
    BY <1>1, <1>4, RecordsSame, ServingsSame
       DEF IInv, UpgradeOfSome, Installed
  <2>. QED
    BY <2>3, <2>4
       DEF Installed, Firsts, Trials, Servings, Atomic!Next, Atomic!Choose
<1>. QED
  BY <1>3, <1>4

\* The selection of a release in both modules.
LEMMA SameSelecting ==
  ASSUME NEW r \in Release, Installed' = Selecting(r, Installed)
  PROVE  Atomic!Installing(r)
BY DEF Selecting, Installed, Atomic!Installing

LEMMA SelectRefines ==
  ASSUME IInv, NEW p \in Setup, Select(p)
  PROVE  [Atomic!Next]_Atomic!vars
<1>1. /\ At(p, "select") /\ GoTo(p, "mark")
      /\ current' = Selecting(proc[p].release, current)
      /\ UNCHANGED <<pending, lock, running>>
  BY DEF Select, session
<1>2. /\ proc[p].release \in Release
      /\ proc[p].purpose \in {"install", "upgrade"}
      /\ Is(p, "install") => pending = NoState
      /\ Is(p, "upgrade") => pending # NoState
  BY <1>1, HolderIs
     DEF At, Is, Inside, ProcOK, PurposeFits, ValuesFit, RecordsFit
<1>3. CASE Is(p, "upgrade")
  <2>1. Undisturbed(p) /\ Behind(p)
    BY <1>1, GoesAside DEF Step
  <2>. QED
    BY <1>1, <1>2, <1>3, <2>1, Refines DEF Installed
<1>4. CASE Is(p, "install")
  <2>1. /\ proc'[p].pc = "mark"
        /\ \A q \in Setup \ {p} : proc'[q] = proc[q]
    BY <1>1, Types DEF GoTo, Proc
  <2>2. /\ Starts(p) /\ ~At(p, "commit")
        /\ ~Starts(p)' /\ ~At(p, "commit")'
    BY <1>1, <1>4, <2>1 DEF Starts, At
  <2>3. /\ proc[p].release \in Firsts
        /\ Firsts' \in {Firsts, Firsts \ {proc[p].release}}
        /\ UNCHANGED Trials
    BY <2>1, <2>2, OneMoves
  <2>4. Atomic!Installing(proc[p].release)
    <3>1. Installed' = Selecting(proc[p].release, Installed)
      BY <1>1, <1>2, <1>4 DEF Installed
    <3>. QED
      BY <1>2, <3>1, SameSelecting
  <2>5. UNCHANGED Servings
    BY <1>1, ServingsSame
  <2>. QED
    BY <2>3, <2>4, <2>5
       DEF Firsts, Trials, Servings, Atomic!Next, Atomic!Install
<1>. QED
  BY <1>2, <1>3, <1>4 DEF Is

LEMMA CommitRefines ==
  ASSUME IInv, NEW p \in Setup, Commit(p)
  PROVE  [Atomic!Next]_Atomic!vars
<1>1. /\ At(p, "commit") /\ GoTo(p, "pruneRest") /\ pending' = NoState
      /\ UNCHANGED <<current, lock, running>>
  BY DEF Commit, session
<1>2. /\ Is(p, "upgrade") /\ proc[p].release \in Release
      /\ pending # NoState /\ current = Selecting(proc[p].release, pending)
  BY <1>1, HolderIs
     DEF At, Is, Inside, ProcOK, PurposeFits, ValuesFit, RecordsFit
<1>3. /\ proc'[p].pc = "pruneRest"
      /\ \A q \in Setup \ {p} : proc'[q] = proc[q]
  BY <1>1, Types DEF GoTo, Proc
<1>4. /\ ~Starts(p) /\ ~Starts(p)' /\ ~At(p, "commit")'
  BY <1>1, <1>3 DEF Starts, At
<1>5. /\ proc[p].release \in Trials
      /\ Trials' \in {Trials, Trials \ {proc[p].release}}
      /\ UNCHANGED Firsts
  BY <1>1, <1>3, <1>4, OneMoves
<1>6. Atomic!Installing(proc[p].release) /\ Installed # NoState
  <2>1. Installed' = Selecting(proc[p].release, Installed)
    BY <1>1, <1>2 DEF Installed
  <2>. QED
    BY <1>2, <2>1, SameSelecting DEF Installed
<1>7. UNCHANGED Servings
  BY <1>1, ServingsSame
<1>. QED
  BY <1>5, <1>6, <1>7
     DEF Installed, Firsts, Trials, Servings, Atomic!Next, Atomic!Keep

LEMMA SwapRefines ==
  ASSUME IInv, NEW p \in Setup, Swap(p)
  PROVE  [Atomic!Next]_Atomic!vars
<1>. DEFINE x == ToActivate(p, current.previous)
            s == [current |-> current.previous, previous |-> current.current]
<1>1. /\ At(p, "swap") /\ current' = s /\ Leave(p, x)
      /\ UNCHANGED <<pending, running>>
  BY DEF Swap, session
<1>2. /\ proc[p] \in Proc /\ pending = NoState /\ current # NoState
      /\ current.previous \in Release
  BY <1>1, HolderIs DEF At, Inside, ProcOK, RecordsFit
<1>3. x.pc \in {"helper", "list"}
  BY <1>2 DEF ToActivate, EntryStep, Proc
<1>. HIDE DEF x
<1>4. proc'[p] = x /\ \A q \in Setup \ {p} : proc'[q] = proc[q]
  BY <1>1, Types DEF Leave
<1>5. /\ ~Starts(p) /\ ~At(p, "commit") /\ ~Starts(p)' /\ ~At(p, "commit")'
  BY <1>1, <1>3, <1>4 DEF Starts, At
<1>6. UNCHANGED Firsts /\ UNCHANGED Trials /\ UNCHANGED Servings
  BY <1>1, <1>4, <1>5, OneMoves, ServingsSame
<1>7. /\ Installed = current /\ Installed' = s
      /\ current.previous # 0
  BY <1>1, <1>2, Types DEF Installed
<1>. QED
  BY <1>2, <1>6, <1>7
     DEF Installed, Firsts, Trials, Servings, Atomic!Next, Atomic!GoBack

LEMMA RemoveRefines ==
  ASSUME IInv, NEW p \in Setup, RemoveRoot(p) \/ RemovePart(p)
  PROVE  [Atomic!Next]_Atomic!vars
<1>1. /\ At(p, "remove") /\ current' \in {current, NoState}
      /\ UNCHANGED <<pending, running>>
  BY DEF RemoveRoot, RemovePart, session
<1>2. proc[p] \in Proc /\ pending = NoState
  BY <1>1, HolderIs DEF At, Inside, ProcOK, RecordsFit
<1>3. PICK x \in Proc : x.pc \in {"idle", "removeShortcut"} /\ Leave(p, x)
  <2>1. CASE RemovePart(p)
    BY <2>1, NoProcTyped DEF RemovePart, End
  <2>2. CASE RemoveRoot(p)
    <3>. DEFINE y == [proc[p] EXCEPT !.pc = "removeShortcut"]
    <3>1. y \in Proc /\ y.pc = "removeShortcut"
      BY <1>2 DEF Proc, Step
    <3>2. Leave(p, y)
      BY <2>2 DEF RemoveRoot
    <3>. HIDE DEF y
    <3>. QED
      BY <3>1, <3>2
  <2>. QED
    BY <2>1, <2>2
<1>4. CASE current' = current
  <2>1. Undisturbed(p) /\ Behind(p)
    BY <1>3, BecomesAside DEF Aside
  <2>. QED
    BY <1>1, <1>4, <2>1, Refines DEF Installed
<1>5. CASE current' = NoState
  <2>1. proc'[p] = x /\ \A q \in Setup \ {p} : proc'[q] = proc[q]
    BY <1>3, Types DEF Leave
  <2>2. /\ ~Starts(p) /\ ~At(p, "commit")
        /\ ~Starts(p)' /\ ~At(p, "commit")'
    BY <1>1, <1>3, <2>1 DEF Starts, At
  <2>3. UNCHANGED Firsts /\ UNCHANGED Trials /\ UNCHANGED Servings
    BY <1>1, <2>1, <2>2, OneMoves, ServingsSame
  <2>4. Installed' = NoState
    BY <1>1, <1>2, <1>5 DEF Installed
  <2>. QED
    BY <2>3, <2>4
       DEF Installed, Firsts, Trials, Servings, Atomic!Next, Atomic!Remove
<1>. QED
  BY <1>1, <1>4, <1>5

\* A health check that passes; of an upgrade, it makes the release a trial.
LEMMA ActivatedRefines ==
  ASSUME IInv, NEW p \in Setup, proc[p].pc \in {"probe", "await"},
         Activated(p), UNCHANGED <<files, lock, running>>,
         Is(p, "upgrade") =>
           \A b \in {Daemon, Center} : Runs(b, proc[p].target)
  PROVE  [Atomic!Next]_Atomic!vars
<1>1. CASE Is(p, "upgrade")
  <2>1. GoTo(p, "commit")
    BY <1>1 DEF Activated, Is
  <2>2. proc[p].release \in Release /\ proc[p].target = proc[p].release
    BY <1>1 DEF IInv, ProcOK, ValuesFit, At, Is, Activating
  <2>3. /\ proc'[p].pc = "commit" /\ proc'[p].release = proc[p].release
        /\ proc'[p].purpose = proc[p].purpose
        /\ \A q \in Setup \ {p} : proc'[q] = proc[q]
    BY <2>1, Types DEF GoTo, Proc
  <2>4. /\ ~Starts(p) /\ ~At(p, "commit")
        /\ ~Starts(p)' /\ At(p, "commit")'
    BY <2>3 DEF Starts, At
  <2>5. Trials' = Trials \cup {proc[p].release} /\ UNCHANGED Firsts
    BY <2>3, <2>4, OneMoves
  <2>6. UNCHANGED Servings /\ proc[p].release \in Servings
    BY <1>1, <2>2, ServingsSame DEF Servings
  <2>7. UNCHANGED Installed
    BY RecordsSame
  <2>. QED
    BY <2>5, <2>6, <2>7
       DEF Installed, Firsts, Trials, Servings, Atomic!Next, Atomic!Activate
<1>2. CASE ~Is(p, "upgrade")
  <2>1. GoTo(p, "forget") \/ proc' = [proc EXCEPT ![p] = NoProc]
    BY <1>2 DEF Activated, Is
  <2>2. Undisturbed(p) /\ Behind(p)
    <3>1. CASE GoTo(p, "forget")
      BY <3>1, GoesAside DEF Step
    <3>2. CASE proc' = [proc EXCEPT ![p] = NoProc]
      BY <3>2, NoProcTyped, BecomesAside DEF Aside
    <3>. QED
      BY <2>1, <3>1, <3>2
  <2>. QED
    BY <2>2, Refines, RecordsSame
<1>. QED
  BY <1>1, <1>2

LEMMA HealthRefines ==
  ASSUME IInv, NEW p \in Setup, ProbePasses(p) \/ AwaitPasses(p)
  PROVE  [Atomic!Next]_Atomic!vars
<1>1. /\ proc[p].pc \in {"probe", "await"} /\ Activated(p)
      /\ UNCHANGED <<files, lock, running>>
  BY DEF ProbePasses, AwaitPasses, At, session
<1>2. Is(p, "upgrade") => \A b \in {Daemon, Center} : Runs(b, proc[p].target)
  BY WindowsSetupAssumption DEF ProbePasses, AwaitPasses, Is
<1>. QED
  BY <1>1, <1>2, ActivatedRefines

LEMMA StepRefines ==
  ASSUME IInv, [Next]_vars
  PROVE  [Atomic!Next]_Atomic!vars
<1>1. ASSUME NEW p \in Setup, Command(p) \/ BeginSignIn(p) \/ BeginAgent(p)
      PROVE  [Atomic!Next]_Atomic!vars
  BY <1>1, BeginInstallRefines, CommandRefines, BeginAgentRefines
     DEF Command, BeginRollback, BeginUninstall, BeginSignIn
<1>2. ASSUME NEW p \in Setup, Work(p)
      PROVE  [Atomic!Next]_Atomic!vars
  <2>1. CASE \/ LockFails(p) \/ RemoveShortcut(p) \/ RemoveInstalledApps(p)
             \/ RemoveOldHelper(p) \/ RenameHelper(p)
             \/ UpdateInstalledApps(p) \/ UpdateShortcut(p)
             \/ UpdateStartup(p)
    BY <2>1, EntriesRefine
  <2>2. CASE \/ Lock(p) \/ NothingToRecover(p) \/ PruneFirst(p)
             \/ InstallFiles(p) \/ WriteJournal(p) \/ WriteMarker(p)
             \/ Restore(p) \/ PruneRest(p) \/ Forget(p)
    BY <2>2, LockRefines, NothingToRecoverRefines, PreparingRefines,
       WriteJournalRefines, WriteMarkerRefines, RestoreRefines,
       PruneRestRefines, ForgetRefines
  <2>3. CASE \/ Select(p) \/ Commit(p) \/ Swap(p) \/ RemoveRoot(p)
             \/ RemovePart(p)
    BY <2>3, SelectRefines, CommitRefines, SwapRefines, RemoveRefines
  <2>4. CASE \/ StopBackground(p) \/ StartBackground(p) \/ AgentResolves(p)
             \/ RequestActivation(p) \/ ProbePasses(p) \/ AwaitPasses(p)
    BY <2>4, ProgramStepsRefine, AgentResolvesRefines, RequestRefines,
       HealthRefines
  <2>. QED
    BY <1>2, <2>1, <2>2, <2>3, <2>4 DEF Work
<1>3. CASE Programs
  BY <1>3, NoProcessRefines DEF Programs, TaskOpensCenter, DaemonListens
<1>4. CASE Fault
  <2>1. CASE ProgramExits
    BY <2>1, NoProcessRefines DEF ProgramExits
  <2>. QED
    BY <1>4, <2>1, ProgramStepsRefine, PowerOffRefines DEF Fault
<1>5. CASE UNCHANGED vars
  BY <1>5, NoProcessRefines DEF vars
<1>. QED
  BY <1>1, <1>2, <1>3, <1>4, <1>5 DEF Next

(***************************************************************************)
(* WindowsSetup implements VersionSwitch: whichever Setups run, fail or    *)
(* are killed, the version a recovery leaves selected changes in one step, *)
(* and an upgrade changes it only to a release that was activated          *)
(* (windowsinstaller.Upgrade, RecoverUpgrade, Rollback, Uninstall).        *)
(***************************************************************************)
THEOREM Refinement == Spec => SwitchIsAtomic
<1>1. Init => Atomic!Init
  <2> SUFFICES ASSUME Init PROVE Atomic!Init
    OBVIOUS
  <2>1. Installed = NoState /\ running = {}
    BY DEF Init, Installed
  <2>2. Firsts = {} /\ Trials = {}
    BY NoProcTyped DEF Init, Firsts, Trials, At
  <2>3. Servings = {}
    BY <2>1 DEF Servings, Runs
  <2>. QED
    BY <2>1, <2>2, <2>3
       DEF Installed, Firsts, Trials, Servings, Atomic!Init
<1>2. IInv /\ [Next]_vars => [Atomic!Next]_Atomic!vars
  BY StepRefines
<1>. QED
  BY <1>1, <1>2, Invariance, PTL DEF Spec, SwitchIsAtomic, Atomic!Spec

=============================================================================
