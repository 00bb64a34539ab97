--------------------------- MODULE MCWindowsSetup ---------------------------
(***************************************************************************)
(* Instances of WindowsSetup with a bounded number of commands and faults. *)
(* Sign-ins, and waits for health that cannot succeed, are free.           *)
(***************************************************************************)
EXTENDS WindowsSetup, TLC

CONSTANTS MaxCommands, MaxFaults

VARIABLES commands, faults

boundedVars == <<vars, commands, faults>>

ProgramsOfPackage == {Daemon, Center}

Hopeless(p) ==
  \/ At(p, "await")
  \/ At(p, "probe") /\ ~Is(p, "agent")
     /\ \E b \in Background : ~Runs(b, proc[p].target)
  \/ At(p, "probe") /\ endpoint = 0 /\ \A r \in Release : ~Runs(Daemon, r)

GivesUp(p) == Hopeless(p) /\ StepFails(p)

BoundedInit == Init /\ commands = 0 /\ faults = 0

BoundedCommand ==
  /\ commands < MaxCommands
  /\ commands' = commands + 1
  /\ \E p \in Setup : Command(p)
  /\ UNCHANGED faults

BoundedFault ==
  /\ faults < MaxFaults
  /\ faults' = faults + 1
  /\ Fault
  /\ UNCHANGED commands

Free ==
  /\ \/ \E p \in Setup :
          BeginSignIn(p) \/ BeginAgent(p) \/ Work(p) \/ GivesUp(p)
     \/ Programs
  /\ UNCHANGED <<commands, faults>>

BoundedNext == BoundedCommand \/ BoundedFault \/ Free

(***************************************************************************)
(* A step that a process or a program can take is taken, and the user      *)
(* signs in again and again.                                               *)
(***************************************************************************)
SignsIn(p) == BeginSignIn(p) /\ UNCHANGED <<commands, faults>>

GoesOn(p) == (Work(p) \/ GivesUp(p)) /\ UNCHANGED <<commands, faults>>

ProgramsGoOn == Programs /\ UNCHANGED <<commands, faults>>

BoundedSpec ==
  /\ BoundedInit /\ [][BoundedNext]_boundedVars
  /\ \A p \in Setup : WF_boundedVars(GoesOn(p)) /\ WF_boundedVars(SignsIn(p))
  /\ WF_boundedVars(ProgramsGoOn)

(***************************************************************************)
(* An interrupted upgrade does not stay pending while sign-ins run the     *)
(* helper (the startup command, RecoverUpgrade).                           *)
(***************************************************************************)
PendingIsRecovered ==
  pending # NoState ~> (pending = NoState \/ ~helper \/ ~signIn \/ broken)

=============================================================================
