------------------------------ MODULE Directory ------------------------------
(***************************************************************************)
(* The directory of one computer: how the daemon (pfremoted) loads it,     *)
(* confirms the computer's own Shell in it, publishes that at the Gateway, *)
(* pulls what other Devices published or renews its own authority          *)
(* (capabilitysync), and how a lost Gateway is restored from a recovery    *)
(* bundle (recovery) on the same database.                                 *)
(*                                                                         *)
(* Simplifications.                                                        *)
(*  - The Gateway is what Enrollment makes of it: versions, statuses and   *)
(*    bindings, saved by each request.                                     *)
(*  - All belong to one Fabric.  Encryption is perfect.                    *)
(*  - The directory of an earlier tool (migration) is not used.            *)
(*  - A synchronization is due at any time.                                *)
(***************************************************************************)
EXTENDS StateStore

CONSTANTS
  Self,         \* this computer
  TTL,          \* how long authority lasts (seven days)
  MaxTime,      \* bound of the computer's clock
  MaxVersion    \* no administration from this directory version on

ASSUME DirectoryAssumption ==
  /\ Self \in Device
  /\ {TTL, MaxTime, MaxVersion} \subseteq Nat

VARIABLES
  pull,         \* the Owner's computer; a controlled node, if not
  hosting,      \* the Gateway runs here, on the same database
  listed,       \* the Devices of the directory
  gateway,      \* [dv, gv, status, binding]; dv = 0 if it is lost
  hostKeys,     \* the SSH host keys of this computer
  now,          \* its wall clock
  daemon,       \* [pc, snap, answer]
  changed,      \* the connection settings are new
  bundle        \* the recovery file: [gateway, snap]

outside == <<pull, hosting, listed, hostKeys>>
vars == <<storeVars, outside, gateway, now, daemon, changed, bundle>>

Step ==
  {"down", "bind", "publish", "pull", "apply", "confirm", "renew", "observe",
   "commit", "ready"}

Status == {"unknown", "active", "revoked"}

Gateway ==
  [dv : Nat, gv : Nat, status : [Device -> Status],
   binding : Bindings]

NoGateway ==
  [dv |-> 0, gv |-> 0, status |-> [d \in Device |-> "unknown"],
   binding |-> Unbound]

NoBundle == [gateway |-> NoGateway, snap |-> NoSnapshot]

Down == [pc |-> "down", snap |-> NoSnapshot, answer |-> NoGateway]

TypeOK ==
  /\ StoreTypeOK
  /\ {pull, hosting, changed} \subseteq BOOLEAN
  /\ listed \subseteq Device
  /\ gateway \in Gateway
  /\ hostKeys \in Key
  /\ now \in 0..MaxTime
  /\ daemon \in [pc : Step, snap : Snapshot \cup {NoSnapshot},
                 answer : Gateway]
  /\ daemon.pc \in Step \ {"down", "ready"} => daemon.snap # NoSnapshot
  /\ bundle \in [gateway : Gateway, snap : Snapshot \cup {NoSnapshot}]

\* SyntheticSnapshot, and what a controlled node is set up with.
First(time) ==
  [dv |-> 1, gv |-> 1, captured |-> time, revoked |-> {}, binding |-> Unbound]

Init ==
  /\ pull \in BOOLEAN
  /\ hosting \in IF pull THEN BOOLEAN ELSE {FALSE}
  /\ listed \in IF pull THEN {D \in SUBSET Device : Self \in D} ELSE {{Self}}
  /\ gateway = [NoGateway EXCEPT !.dv = 1, !.gv = 1, !.status[Self] = "active"]
  /\ hostKeys \in Key
  /\ now = 0
  /\ daemon = Down /\ changed = FALSE
  /\ bundle = NoBundle
  /\ IF pull THEN EmptyStore
     ELSE /\ snapshots = <<[snap |-> First(0), damaged |-> FALSE]>>
          /\ active = 1 /\ accepted = Unbound /\ clock = 0
          /\ versions = NoVersions /\ revocations = {}

-----------------------------------------------------------------------------
(* The Gateway.                                                            *)

Founded == gateway.dv # 0

\* The rows of Device d, if the database is the Gateway's.
SaveStatus(d) ==
  IF hosting THEN SaveDeviceStatus(d, gateway'.status[d],
                                   [dv |-> gateway'.dv, gv |-> gateway'.gv])
  ELSE UNCHANGED storeVars

Activate(d) ==
  /\ Founded /\ gateway.dv < MaxVersion
  /\ gateway.status[d] # "active"
  /\ gateway' = [gateway EXCEPT !.status[d] = "active", !.dv = @ + 1]
  /\ SaveStatus(d)
  /\ UNCHANGED <<outside, now, daemon, changed, bundle>>

Revoke(d) ==
  /\ Founded /\ gateway.dv < MaxVersion
  /\ gateway.status[d] = "active" /\ (pull => d # Self)
  /\ gateway' = [gateway EXCEPT !.status[d] = "revoked",
                                !.binding[d] = NoBinding,
                                !.dv = @ + 1, !.gv = @ + 1]
  /\ SaveStatus(d)
  /\ UNCHANGED <<outside, now, daemon, changed, bundle>>

Accepts(d, b) ==
  /\ gateway.status[d] = "active"
  /\ Newer(b, gateway.binding[d]) \/ b = gateway.binding[d]

\* PublishShellCapability: the version in the rows stays what it was.
Published(d, b) ==
  IF b = gateway.binding[d] THEN gateway
  ELSE [gateway EXCEPT !.binding[d] = b, !.dv = @ + 1]

PeerPublishes(d, b) ==
  /\ d # Self /\ Founded /\ gateway.dv < MaxVersion
  /\ Accepts(d, b) /\ b # gateway.binding[d]
  /\ gateway' = Published(d, b)
  /\ UNCHANGED <<storeVars, outside, now, daemon, changed, bundle>>

-----------------------------------------------------------------------------
(* The daemon.                                                             *)

Calm == UNCHANGED <<outside, gateway, now, bundle>>

GoTo(pc) == daemon' = [daemon EXCEPT !.pc = pc]

Work(pc, s) == daemon' = [pc |-> pc, snap |-> s, answer |-> NoGateway]

Rest == daemon' = [Down EXCEPT !.pc = "ready"]

\* The first snapshot is made up; without a valid one the daemon ends.
Start ==
  /\ daemon.pc = "down"
  /\ IF snapshots = <<>>
     THEN /\ CommitSnapshot(First(now))
          /\ Work("bind", Overlaid(First(now)))
     ELSE Load /\ Work("bind", View)
  /\ changed' = FALSE
  /\ Calm

\* The binding of this computer's Shell, if it has none.
WithBinding(s) ==
  IF s.binding[Self] # NoBinding THEN s
  ELSE [s EXCEPT !.binding[Self] = [version |-> 1, key |-> hostKeys],
                 !.dv = @ + 1]

\* BindLocalShellCapabilities; the daemon ends if the store refuses.
Bind ==
  /\ daemon.pc = "bind"
  /\ LET s == WithBinding(daemon.snap)
     IN  IF s = daemon.snap
         THEN Work("publish", s) /\ UNCHANGED storeVars
         ELSE IF Refused(s)
         THEN daemon' = Down /\ UNCHANGED storeVars
         ELSE CommitSnapshot(s) /\ Work("publish", s)
  /\ UNCHANGED changed
  /\ Calm

\* Faulty variant: a controlled node, too, only repeats the last part.
NextSyncRenewsOnly ==
  /\ daemon.pc = "ready"
  /\ Load
  /\ Work(IF changed THEN "publish" ELSE IF pull THEN "pull" ELSE "confirm",
          View)
  /\ UNCHANGED changed
  /\ Calm

\* A later synchronization; on the Owner's computer it publishes only if the
\* settings are new.
NextSync ==
  /\ daemon.pc = "ready"
  /\ Load
  /\ Work(IF changed \/ ~pull THEN "publish" ELSE "pull", View)
  /\ UNCHANGED changed
  /\ Calm

Then == IF pull THEN "pull" ELSE "confirm"

Publish ==
  /\ daemon.pc = "publish"
  /\ LET b == daemon.snap.binding[Self]
     IN  IF b = NoBinding THEN UNCHANGED gateway
         ELSE /\ Founded /\ Accepts(Self, b)
              /\ gateway' = Published(Self, b)
  /\ GoTo(Then)
  /\ UNCHANGED <<storeVars, outside, now, changed, bundle>>

\* The Gateway cannot be reached, refuses, or its answer is lost.
SyncFails ==
  /\ daemon.pc \in {"publish", "pull", "confirm"}
  /\ \/ UNCHANGED gateway
     \/ LET b == daemon.snap.binding[Self]
        IN  /\ daemon.pc = "publish" /\ b # NoBinding
            /\ Founded /\ Accepts(Self, b)
            /\ gateway' = Published(Self, b)
  /\ Rest
  /\ UNCHANGED <<storeVars, outside, now, changed, bundle>>

RefusedByGateway ==
  /\ \/ daemon.pc = "publish" /\ daemon.snap.binding[Self] # NoBinding
        /\ ~(Founded /\ Accepts(Self, daemon.snap.binding[Self]))
     \/ daemon.pc \in {"pull", "confirm"} /\ ~Founded
     \/ daemon.pc = "confirm" /\ gateway.status[Self] # "active"
  /\ Rest
  /\ UNCHANGED <<storeVars, changed>>
  /\ Calm

\* ListShellCapabilities, SyncVersions.
Ask ==
  /\ daemon.pc \in {"pull", "confirm"} /\ Founded
  /\ gateway.status[Self] = "active"
  /\ daemon' = [daemon EXCEPT !.pc = IF pull THEN "apply" ELSE "renew",
                              !.answer = gateway]
  /\ UNCHANGED <<storeVars, changed>>
  /\ Calm

Claims(a) ==
  {d \in Device : a.status[d] = "active" /\ a.binding[d] # NoBinding}

News(s, a) == {d \in Claims(a) : a.binding[d] # s.binding[d]}

\* One claim that does not fit spoils all; there is no news without a newer
\* directory version.
Conflicts(s, a) ==
  \/ a.dv < s.dv
  \/ a.dv = s.dv /\ News(s, a) # {}
  \/ ~(Claims(a) \subseteq listed)
  \/ \E d \in News(s, a) : ~Newer(a.binding[d], s.binding[d])

Applied(s, a) ==
  [s EXCEPT !.dv = a.dv,
            !.binding = [d \in Device |-> IF d \in News(s, a)
                                          THEN a.binding[d] ELSE @[d]]]

\* ApplyShellCapabilityClaims.
Apply ==
  /\ daemon.pc = "apply"
  /\ LET s == daemon.snap
         a == daemon.answer
     IN  IF Conflicts(s, a)
         THEN Rest /\ UNCHANGED changed
         ELSE /\ changed' = FALSE
              /\ IF News(s, a) = {} THEN Rest
                 ELSE Work("commit", Applied(s, a))
  /\ UNCHANGED storeVars
  /\ Calm

\* renewSelf.
Renew ==
  /\ daemon.pc = "renew"
  /\ LET s == daemon.snap
         a == daemon.answer
     IN  IF a.dv < s.dv \/ a.gv < s.gv \/ now < s.captured
         THEN Rest /\ UNCHANGED changed
         ELSE /\ changed' = FALSE
              /\ Work("observe", [s EXCEPT !.captured = now, !.dv = a.dv,
                                           !.gv = a.gv])
  /\ UNCHANGED storeVars
  /\ Calm

\* A renewed snapshot has to agree with the clock that was observed.
Observe ==
  /\ daemon.pc = "observe"
  /\ ObserveAuthorizationTime(now)
  /\ IF clock > now \/ daemon.snap.captured > now THEN Rest ELSE GoTo("commit")
  /\ UNCHANGED changed
  /\ Calm

\* Faulty variant: what was imported is not saved.
CommitIfRenewed ==
  /\ daemon.pc = "commit"
  /\ IF pull \/ Refused(daemon.snap) THEN UNCHANGED storeVars
     ELSE CommitSnapshot(daemon.snap)
  /\ Rest
  /\ UNCHANGED changed
  /\ Calm

\* commitSynchronizedSnapshot.
Commit ==
  /\ daemon.pc = "commit"
  /\ IF Refused(daemon.snap) THEN UNCHANGED storeVars
     ELSE CommitSnapshot(daemon.snap)
  /\ Rest
  /\ UNCHANGED changed
  /\ Calm

\* An action looks at the directory and at the clock.
UseCatalog ==
  /\ daemon.pc \notin {"down", "bind"}
  /\ Valid # {}
  /\ ObserveAuthorizationTime(now)
  /\ UNCHANGED <<daemon, changed>>
  /\ Calm

SettingsChange ==
  /\ ~changed
  /\ changed' = TRUE
  /\ UNCHANGED <<storeVars, daemon>>
  /\ Calm

-----------------------------------------------------------------------------
(* Recovery.                                                               *)

Goes(g) == {d \in Device : g.status[d] = "revoked"}

Pair(g, s) ==
  /\ g.dv = s.dv /\ g.gv = s.gv
  /\ Goes(g) \cap listed \subseteq s.revoked

Export ==
  /\ hosting /\ Founded
  /\ View # NoSnapshot /\ Pair(gateway, View)
  /\ Load
  /\ bundle' = [gateway |-> gateway, snap |-> View]
  /\ UNCHANGED <<outside, gateway, now, daemon, changed>>

\* The Gateway's disk is replaced, and with it this database.
Lost ==
  /\ hosting /\ Founded
  /\ gateway' = NoGateway
  /\ snapshots' = <<>> /\ active' = 0 /\ accepted' = Unbound /\ clock' = 0
  /\ versions' = NoVersions /\ revocations' = {}
  /\ daemon' = Down
  /\ UNCHANGED <<outside, now, changed, bundle>>

\* RestoreToNewDatabase: a Gateway that was founded is older than none.  The
\* daemon is assumed to be stopped: it would write back what it had loaded.
Restore ==
  /\ hosting /\ ~Founded /\ bundle # NoBundle /\ daemon.pc = "down"
  /\ gateway' = bundle.gateway
  /\ ReplaceFromDatabase(bundle.snap, Goes(bundle.gateway))
  /\ UNCHANGED <<outside, now, daemon, changed, bundle>>

-----------------------------------------------------------------------------
(* Failures.                                                               *)

Crash ==
  /\ daemon.pc # "down"
  /\ daemon' = Down
  /\ UNCHANGED <<storeVars, changed>>
  /\ Calm

\* Nothing is written; a daemon that starts ends.
WriteFails ==
  /\ daemon.pc \in {"bind", "observe", "commit"}
  /\ IF daemon.pc = "bind" THEN daemon' = Down ELSE Rest
  /\ UNCHANGED <<storeVars, changed>>
  /\ Calm

Spoil ==
  /\ \E i \in DOMAIN snapshots : ~snapshots[i].damaged /\ Damage(i)
  /\ UNCHANGED <<daemon, changed>>
  /\ Calm

RotateHostKeys(k) ==
  /\ hostKeys' = k
  /\ UNCHANGED <<storeVars, pull, hosting, listed, gateway, now, daemon,
                 changed, bundle>>

SetClock(t) ==
  /\ now' = t
  /\ UNCHANGED <<storeVars, outside, gateway, daemon, changed, bundle>>

-----------------------------------------------------------------------------
Administration ==
  \/ \E d \in Device : Activate(d) \/ Revoke(d)
  \/ \E d \in Device, b \in Binding : PeerPublishes(d, b)
  \/ SettingsChange \/ Export

Synchronization ==
  \/ Bind \/ NextSync \/ Publish \/ RefusedByGateway \/ Ask \/ Apply \/ Renew
  \/ Observe \/ Commit

Fault ==
  \/ SyncFails \/ Crash \/ WriteFails \/ Spoil \/ Lost
  \/ \E k \in Key \ {hostKeys} : RotateHostKeys(k)
  \/ \E t \in 0..MaxTime : t < now /\ SetClock(t)

TimePasses == now < MaxTime /\ SetClock(now + 1)

Next ==
  \/ Administration \/ Start \/ Synchronization \/ UseCatalog \/ Restore
  \/ TimePasses \/ Fault

Spec == Init /\ [][Next]_vars

-----------------------------------------------------------------------------
(* Properties.                                                             *)

(***************************************************************************)
(* On the Gateway's computer no directory that is loaded shows a revoked   *)
(* Device as active, whatever older snapshot it comes from or was          *)
(* committed again in the meantime, nor after a restore.                   *)
(***************************************************************************)
RevocationStands ==
  hosting /\ View # NoSnapshot => Goes(gateway) \subseteq View.revoked

Imported == Lost \/ Restore

(***************************************************************************)
(* The directory never goes back to an older binding of a Shell, nor to    *)
(* other host keys of the same version: not by falling back to an older    *)
(* snapshot, not by a synchronization that was overtaken (CommitSnapshot,  *)
(* validateSSHBindingVersions).                                            *)
(***************************************************************************)
BindingsNeverGoBack ==
  [][View # NoSnapshot /\ View' # NoSnapshot /\ ~Imported =>
       \A d \in Device :
         LET old == View.binding[d]
             new == View'.binding[d]
         IN  old # NoBinding /\ new # NoBinding =>
               old = new \/ Newer(new, old)]_vars

Expired == View # NoSnapshot /\ View.captured + TTL <= clock

Renewed == daemon.pc = "commit" /\ ~pull

\* A daemon that starts writes back the directory it has loaded, even if the
\* row it comes from was damaged since.
WrittenBack == Bind /\ clock < daemon.snap.captured + TTL

(***************************************************************************)
(* Authority that was seen to expire is not restored by a clock that is    *)
(* set back, a restart or an older snapshot, but by an answer of the       *)
(* Gateway only (ObserveAuthorizationTime, renewSelf), or by a directory   *)
(* in hand that has not expired itself.                                    *)
(***************************************************************************)
ExpiredStaysExpired ==
  [][Expired /\ View' # NoSnapshot /\ ~Expired'
       => Renewed \/ Imported \/ WrittenBack]_vars

(***************************************************************************)
(* A restored database loads, and shows the directory that was exported:   *)
(* its bindings are accepted ones again, no revocation and no version is   *)
(* missing (RestoreToNewDatabase, ReplaceFromDatabase).                    *)
(***************************************************************************)
RestoreIsExact == [][Restore => View' = bundle.snap]_vars

=============================================================================
