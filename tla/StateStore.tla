----------------------------- MODULE StateStore -----------------------------
(***************************************************************************)
(* The state database of a computer (state.Store): the committed snapshots *)
(* of its directory, the newest SSH bindings it accepted, the clock of its *)
(* cached authority, and the rows by which a Gateway on the same database  *)
(* overrides older snapshots.  Every call is one SQLite transaction, so it *)
(* is one step or none.                                                    *)
(*                                                                         *)
(* Simplifications: a Device has one Shell Capability, and a binding is    *)
(* its version and the host keys it is signed for (the signature depends   *)
(* on nothing else); names, Desktop profiles and the list of recent        *)
(* sessions are left out.                                                  *)
(***************************************************************************)
EXTENDS Naturals, Sequences, FiniteSets

CONSTANTS
  Device,
  Key,          \* sets of SSH host keys
  NoBinding,    \* a Shell Capability that was not confirmed
  NoSnapshot,   \* no valid committed snapshot remains
  Retained,     \* committed snapshots that are kept (5)
  MaxBinding    \* bound of the versions of a binding

Binding == [version : 1..MaxBinding, key : Key]

Bindings == [Device -> Binding \cup {NoBinding}]

\* dv, gv: directory and grant version; captured: when its authority began.
Snapshot ==
  [dv : Nat, gv : Nat, captured : Nat, revoked : SUBSET Device,
   binding : Bindings]

ASSUME StoreAssumption ==
  /\ Retained \in Nat \ {0} /\ MaxBinding \in Nat \ {0}
  /\ NoBinding \notin Binding
  /\ NoSnapshot \notin Snapshot

VARIABLES
  snapshots,    \* the committed snapshots, oldest first
  active,       \* the position of the active one
  accepted,     \* ssh_binding_versions
  clock,        \* authorization_clock
  versions,     \* control_versions; 0, if there is none
  revocations   \* device_revocations

storeVars == <<snapshots, active, accepted, clock, versions, revocations>>

StoreTypeOK ==
  /\ snapshots \in Seq([snap : Snapshot, damaged : BOOLEAN])
  /\ Len(snapshots) <= Retained
  /\ active \in 0..Len(snapshots)
  /\ accepted \in Bindings
  /\ clock \in Nat
  /\ versions \in [dv : Nat, gv : Nat]
  /\ revocations \subseteq Device

NoVersions == [dv |-> 0, gv |-> 0]

Unbound == [d \in Device |-> NoBinding]

EmptyStore ==
  /\ snapshots = <<>> /\ active = 0
  /\ accepted = Unbound
  /\ clock = 0
  /\ versions = NoVersions
  /\ revocations = {}

Later(x, y) == IF x > y THEN x ELSE y

-----------------------------------------------------------------------------
(* LoadLatestValidSnapshot.                                                *)

\* Faulty variant: any binding will do.
AnyBinding(s) == TRUE

\* Its bindings are the newest ones that were ever accepted.
Current(s) ==
  \A d \in Device : s.binding[d] # NoBinding => s.binding[d] = accepted[d]

\* Faulty variant: a snapshot as new as the rows is left alone.
OverlaidIfOlder(s) ==
  IF s.dv >= versions.dv THEN s
  ELSE [s EXCEPT !.dv = versions.dv, !.gv = Later(@, versions.gv),
                 !.revoked = @ \cup revocations]

\* A revoked Device that the directory does not list is of no account.
Overlaid(s) ==
  [s EXCEPT !.dv = Later(@, versions.dv), !.gv = Later(@, versions.gv),
            !.revoked = @ \cup revocations]

Valid ==
  {i \in DOMAIN snapshots :
     ~snapshots[i].damaged /\ Current(snapshots[i].snap)}

\* The active one, or else the newest.
Chosen ==
  IF active \in Valid THEN active
  ELSE CHOOSE i \in Valid : \A j \in Valid : j <= i

View ==
  IF Valid = {} THEN NoSnapshot ELSE Overlaid(snapshots[Chosen].snap)

Load ==
  /\ Valid # {}
  /\ active' = Chosen
  /\ UNCHANGED <<snapshots, accepted, clock, versions, revocations>>

-----------------------------------------------------------------------------
(* Writes.                                                                 *)

Newer(b, old) == old # NoBinding => b.version > old.version

\* A binding of an older version, or another one of the same version.
Refused(s) ==
  \E d \in Device :
    /\ s.binding[d] # NoBinding
    /\ ~Newer(s.binding[d], accepted[d]) /\ s.binding[d] # accepted[d]

\* Faulty variant: one too many is retained.
CommitSnapshotAlso(s) ==
  /\ ~Refused(s)
  /\ LET all == Append(snapshots, [snap |-> s, damaged |-> FALSE])
         first == IF Len(all) > Retained + 1 THEN 2 ELSE 1
     IN  snapshots' = SubSeq(all, first, Len(all))
  /\ active' = Len(snapshots')
  /\ accepted' = [d \in Device |-> IF s.binding[d] = NoBinding
                                   THEN accepted[d] ELSE s.binding[d]]
  /\ clock' = Later(clock, s.captured)
  /\ UNCHANGED <<versions, revocations>>

CommitSnapshot(s) ==
  /\ ~Refused(s)
  /\ LET all == Append(snapshots, [snap |-> s, damaged |-> FALSE])
         first == IF Len(all) > Retained THEN 2 ELSE 1
     IN  snapshots' = SubSeq(all, first, Len(all))
  /\ active' = Len(snapshots')
  /\ accepted' = [d \in Device |-> IF s.binding[d] = NoBinding
                                   THEN accepted[d] ELSE s.binding[d]]
  /\ clock' = Later(clock, s.captured)
  /\ UNCHANGED <<versions, revocations>>

\* Faulty variant: the clock follows the computer's.
ObserveExactly(time) ==
  /\ clock' = time
  /\ UNCHANGED <<snapshots, active, accepted, versions, revocations>>

ObserveAuthorizationTime(time) ==
  /\ clock' = Later(clock, time)
  /\ UNCHANGED <<snapshots, active, accepted, versions, revocations>>

SaveDeviceStatus(d, status, v) ==
  /\ versions' = [dv |-> Later(versions.dv, v.dv),
                  gv |-> Later(versions.gv, v.gv)]
  /\ revocations' = IF status = "revoked" THEN revocations \cup {d}
                    ELSE revocations \ {d}
  /\ UNCHANGED <<snapshots, active, accepted, clock>>

\* Faulty variant: the accepted bindings are not taken over.
ReplaceButBindings(s, gone) ==
  /\ snapshots' = <<[snap |-> s, damaged |-> FALSE]>> /\ active' = 1
  /\ accepted' = Unbound
  /\ clock' = s.captured
  /\ versions' = [dv |-> s.dv, gv |-> s.gv]
  /\ revocations' = gone

\* By a staging database into which a bundle was restored: its snapshot s,
\* and one row for each Device that is gone.
ReplaceFromDatabase(s, gone) ==
  /\ snapshots' = <<[snap |-> s, damaged |-> FALSE]>> /\ active' = 1
  /\ accepted' = s.binding
  /\ clock' = s.captured
  /\ versions' = [dv |-> s.dv, gv |-> s.gv]
  /\ revocations' = gone

\* What a row on the disk may suffer.
Damage(i) ==
  /\ i \in DOMAIN snapshots
  /\ snapshots' = [snapshots EXCEPT ![i].damaged = TRUE]
  /\ UNCHANGED <<active, accepted, clock, versions, revocations>>

=============================================================================
