----------------------------- MODULE Enrollment -----------------------------
(***************************************************************************)
(* The Gateway's enrollment Manager (internal/enrollment) and the three    *)
(* SQLite rows it owns (internal/state).  Every handler holds the          *)
(* Manager's mutex from its first line to its last, so a handler is one    *)
(* action; what interleaves with it are the outcomes of each save, a crash *)
(* of the process, its restart, and time.                                  *)
(*                                                                         *)
(* Simplifications.                                                        *)
(*  - A request that is refused before anything is recorded (bad schema,   *)
(*    bad signature, unknown device, wrong identity) changes nothing and   *)
(*    is not an action.  Requests are drawn freely from the constants, so  *)
(*    a duplicated, delayed or replayed request is simply drawn again.     *)
(*  - A device code and its user code are one Code: both maps of the       *)
(*    Manager are always changed together, and a fresh random code never   *)
(*    equals an earlier one (issued).                                      *)
(*  - Instants are positive naturals; 0 is Go's zero time.Time.            *)
(***************************************************************************)
EXTENDS Integers, Sequences, FiniteSets, Functions

CONSTANTS
  Device,               \* device identities, the Owner's included
  NoDevice,             \* the empty ownerDeviceID of an uninitialised Fabric
  Code,                 \* activation codes the random source can still draw
  RequestId,            \* single-use IDs chosen by the clients
  Capability,           \* names of Shell capabilities of a device
  HostKeys,             \* host-key sets a device can sign into a binding
  MaxOwnerReplayIDs,    \* maxOwnerReplayIDs (4096)
  MaxDeviceReplayIDs,   \* maxDeviceReplayIDs (1024)
  MaxReplayBuckets,     \* maxDeviceReplayBuckets (4096)
  PendingLimit,         \* maxPendingActivations (256)
  MaxShellBindings,     \* maxPublishedShellBindings (4096)
  MaxFailedCodes,       \* wrong user codes tolerated per window (10)
  ActivationTTL,        \* DefaultActivationTTL (10 min)
  PollingInterval,      \* DefaultPollingInterval, also the SLOW_DOWN step (5 s)
  ReplayRetention,      \* deviceReplayRetention (24 h)
  FailedCodePeriod,     \* the rate-limit window (1 min)
  MaxTime,              \* bound: the clock stops here
  MaxVersion,           \* bound: directory and Grant versions (uint64 in Go)
  MaxInterval,          \* bound: the polling interval after SLOW_DOWN answers
  MaxBindingVersion     \* bound: binding versions a device signs

ASSUME EnrollmentAssumption ==
  /\ NoDevice \notin Device
  /\ IsFiniteSet(Device) /\ IsFiniteSet(Code)
  /\ {MaxOwnerReplayIDs, MaxDeviceReplayIDs, MaxReplayBuckets, PendingLimit,
      MaxShellBindings, MaxFailedCodes, MaxTime, MaxVersion, MaxInterval,
      MaxBindingVersion} \subseteq Nat
  /\ {ActivationTTL, PollingInterval, ReplayRetention, FailedCodePeriod}
       \subseteq Nat \ {0}

VARIABLES
  up,                   \* the Gateway process is running
  mem,                  \* the Manager fields persistenceSnapshot copies
  buckets,              \* DOMAIN of deviceRequestIDs
  deviceRequestSince,   \* when a bucket was opened; 0: no entry
  persistenceFailed,    \* the latch every handler checks first
  payload,              \* row control_state
  revocations,          \* rows of device_revocations
  versions,             \* row control_versions
  now,
  issued                \* codes drawn so far

volatile == <<up, mem, buckets, deviceRequestSince, persistenceFailed>>
durable  == <<payload, revocations, versions>>
vars     == <<volatile, durable, now, issued>>

-----------------------------------------------------------------------------
(* The persisted part of the Manager.                                      *)

Activation ==
  [code : Code, device : Device, status : {"pending", "approved"},
   expiresAt : Nat, interval : Nat, lastPoll : Nat]

Binding ==
  [device : Device, capability : Capability, version : Nat, keys : HostKeys]

ControlState ==
  [owner              : Device \cup {NoDevice},
   device             : [Device -> {"absent", "active", "revoked"}],
   directoryVersion   : Nat,
   grantVersion       : Nat,
   activations        : SUBSET Activation,
   shellBindings      : SUBSET Binding,
   ownerRequestOrder  : Seq(RequestId),
   deviceRequestOrder : [Device -> Seq(RequestId)],
   failedCodeWindow   : Nat,
   failedCodeAttempts : Nat]

\* newManager, and what an empty control_state row restores to.
Blank ==
  [owner              |-> NoDevice,
   device             |-> [d \in Device |-> "absent"],
   directoryVersion   |-> 0,
   grantVersion       |-> 0,
   activations        |-> {},
   shellBindings      |-> {},
   ownerRequestOrder  |-> <<>>,
   deviceRequestOrder |-> [d \in Device |-> <<>>],
   failedCodeWindow   |-> 0,
   failedCodeAttempts |-> 0]

TypeOK ==
  /\ up \in BOOLEAN
  /\ mem \in ControlState
  /\ buckets \subseteq Device
  /\ deviceRequestSince \in [Device -> Nat]
  /\ persistenceFailed \in BOOLEAN
  /\ payload \in ControlState
  /\ revocations \subseteq Device
  /\ versions \in [directory : Nat, grant : Nat]
  /\ now \in Nat \ {0}
  /\ issued \subseteq Code

Init ==
  /\ up = TRUE
  /\ mem = Blank
  /\ buckets = {}
  /\ deviceRequestSince = [d \in Device |-> 0]
  /\ persistenceFailed = FALSE
  /\ payload = Blank
  /\ revocations = {}
  /\ versions = [directory |-> 0, grant |-> 0]
  /\ now = 1
  /\ issued = {}

-----------------------------------------------------------------------------
(* Helpers on the persisted part.                                          *)

\* Faulty variant: keeps one ID more than restore accepts.
RememberOneMore(order, id, bound) ==
  LET longer == Append(order, id)
  IN  IF Len(longer) > bound + 1 THEN Tail(longer) ELSE longer

\* Append to a bounded FIFO, dropping the oldest ID beyond the bound.
Remember(order, id, bound) ==
  LET longer == Append(order, id)
  IN  IF Len(longer) > bound THEN Tail(longer) ELSE longer

\* Faulty variant: an Owner request leaves no trace.
RecordNoRequestID(s, id) == s

RecordOwnerRequestID(s, id) ==
  [s EXCEPT !.ownerRequestOrder = Remember(@, id, MaxOwnerReplayIDs)]

RecordDeviceRequestID(s, d, id) ==
  [s EXCEPT !.deviceRequestOrder[d] = Remember(@, id, MaxDeviceReplayIDs)]

Expired(a) == now >= a.expiresAt

HasActivation(s, d) == \E a \in s.activations : a.device = d

WithoutActivation(s, a) == [s EXCEPT !.activations = @ \ {a}]

WithActivation(s, a, b) == [s EXCEPT !.activations = (@ \ {a}) \cup {b}]

DropExpired(s) == [s EXCEPT !.activations = {a \in @ : ~Expired(a)}]

\* Buckets pruneExpiredState deletes once the expired activations are gone.
StaleBuckets ==
  {d \in Device :
     /\ deviceRequestSince[d] # 0
     /\ mem.device[d] = "absent"
     /\ ~HasActivation(DropExpired(mem), d)
     /\ now - deviceRequestSince[d] >= ReplayRetention}

PruneExpiredState ==
  [DropExpired(mem) EXCEPT
     !.deviceRequestOrder =
        [d \in Device |-> IF d \in StaleBuckets THEN <<>> ELSE @[d]]]

\* checkApprovalRateLimit: a new window forgets the failed attempts.
OpenCodeWindow(s) ==
  IF s.failedCodeWindow = 0 \/ now - s.failedCodeWindow >= FailedCodePeriod
  THEN [s EXCEPT !.failedCodeWindow = now, !.failedCodeAttempts = 0]
  ELSE s

\* Faulty variant: one attempt too many.
RateLimitedLate(s) == s.failedCodeAttempts > MaxFailedCodes

RateLimited(s) == s.failedCodeAttempts >= MaxFailedCodes

-----------------------------------------------------------------------------
(* Saving.  A handler hands over the payloads it saves in order; the last  *)
(* save may carry new overlay rows in the same transaction.  Either all    *)
(* saves succeed, or save j fails: the handler stops there, the latch is   *)
(* set, and the transaction may or may not have reached the disk.  A crash *)
(* between two saves, or before the answer leaves, is such a failure       *)
(* followed by Crash, for nothing but Crash and Tick follows a failure.    *)

\* Faulty variant: the changes after the first save are not saved.
SaveFirstOnly(saves, rows, row) ==
  /\ mem' = saves[Len(saves)]
  /\ payload' = saves[1]
  /\ revocations' = rows
  /\ versions' = row
  /\ persistenceFailed' = FALSE

SaveAll(saves, rows, row) ==
  /\ mem' = saves[Len(saves)]
  /\ payload' = saves[Len(saves)]
  /\ revocations' = rows
  /\ versions' = row
  /\ persistenceFailed' = FALSE

SaveFails(saves, rows, row) ==
  \E j \in 1..Len(saves), committed \in BOOLEAN :
    /\ mem' = saves[j]
    /\ payload' = IF committed THEN saves[j]
                  ELSE IF j = 1 THEN payload ELSE saves[j - 1]
    /\ LET last == committed /\ j = Len(saves)
       IN  /\ revocations' = IF last THEN rows ELSE revocations
           /\ versions' = IF last THEN row ELSE versions
    /\ persistenceFailed' = TRUE

\* persistLocked after each step.
Persist(saves) ==
  \/ SaveAll(saves, revocations, versions)
  \/ SaveFails(saves, revocations, versions)

\* Faulty variant: the row keeps its Grant version.
RaisedDirectoryOnly(s) ==
  [directory |-> IF s.directoryVersion > versions.directory
                 THEN s.directoryVersion ELSE versions.directory,
   grant     |-> versions.grant]

\* MAX of the row and the Manager's versions, as the upsert computes it.
RaisedVersions(s) ==
  [directory |-> IF s.directoryVersion > versions.directory
                 THEN s.directoryVersion ELSE versions.directory,
   grant     |-> IF s.grantVersion > versions.grant
                 THEN s.grantVersion ELSE versions.grant]

\* persistDeviceStatusLocked as the last save.
PersistDeviceStatus(saves, d, status) ==
  LET rows == IF status = "revoked" THEN revocations \cup {d}
                                    ELSE revocations \ {d}
      row  == RaisedVersions(saves[Len(saves)])
  IN  SaveAll(saves, rows, row) \/ SaveFails(saves, rows, row)

Healthy == up /\ ~persistenceFailed

\* requireHealthy and requireInitialized.
Ready == Healthy /\ mem.owner # NoDevice

-----------------------------------------------------------------------------
(* Handlers.                                                               *)

InitializeOwner(o) ==
  /\ Healthy
  /\ mem.owner = NoDevice
  /\ LET s == [mem EXCEPT !.owner = o, !.device[o] = "active",
                          !.directoryVersion = 1, !.grantVersion = 1]
     IN  PersistDeviceStatus(<<s>>, o, "active")
  /\ UNCHANGED <<up, buckets, deviceRequestSince, now, issued>>

\* Faulty variant: a second activation for the same device.
BeginRefusedUnlessFull(p, kept, d, id) ==
  \/ id \in Range(p.deviceRequestOrder[d])
  \/ Cardinality(p.activations) >= PendingLimit
  \/ d \notin kept /\ Cardinality(kept) >= MaxReplayBuckets

\* The refusals of BeginDeviceAuthorization that follow pruning.
BeginRefused(p, kept, d, id) ==
  \/ id \in Range(p.deviceRequestOrder[d])
  \/ HasActivation(p, d)
  \/ Cardinality(p.activations) >= PendingLimit
  \/ d \notin kept /\ Cardinality(kept) >= MaxReplayBuckets

\* Faulty variant: the lifetime is subtracted.
NewActivationBackdated(c, d) ==
  [code |-> c, device |-> d, status |-> "pending",
   expiresAt |-> now - ActivationTTL, interval |-> PollingInterval,
   lastPoll |-> 0]

NewActivation(c, d) ==
  [code |-> c, device |-> d, status |-> "pending",
   expiresAt |-> now + ActivationTTL, interval |-> PollingInterval,
   lastPoll |-> 0]

\* Pruning is saved, then the request ID, then the activation.  (The code
\* skips the first save when nothing was pruned; saving the same payload
\* once more has no other effect.)  The random source may fail after the ID
\* has been recorded.
BeginDeviceAuthorization(d, id) ==
  /\ Ready
  /\ mem.device[d] # "active"
  /\ LET p      == PruneExpiredState
         kept   == buckets \ StaleBuckets
         marked == RecordDeviceRequestID(p, d, id)
     IN  \/ /\ BeginRefused(p, kept, d, id)
            /\ p # mem \/ StaleBuckets # {}
            /\ Persist(<<p>>)
            /\ buckets' = kept
            /\ deviceRequestSince' =
                 [x \in Device |-> IF x \in StaleBuckets THEN 0
                                   ELSE deviceRequestSince[x]]
            /\ UNCHANGED issued
         \/ /\ ~BeginRefused(p, kept, d, id)
            /\ buckets' = kept \cup {d}
            /\ deviceRequestSince' =
                 [x \in Device |->
                    IF x = d /\ d \notin kept THEN now
                    ELSE IF x \in StaleBuckets THEN 0
                    ELSE deviceRequestSince[x]]
            /\ \/ /\ Persist(<<p, marked>>)        \* ENTROPY_UNAVAILABLE
                  /\ UNCHANGED issued
               \/ \E c \in Code \ issued :
                    /\ Persist(<<p, marked,
                                 [marked EXCEPT !.activations =
                                    @ \cup {NewActivation(c, d)}]>>)
                    /\ issued' = issued \cup {c}
  /\ UNCHANGED <<up, now>>

\* What verifyOwnerAction leaves behind for a request it lets through.
OwnerAction(id) ==
  /\ Ready
  /\ id \notin Range(mem.ownerRequestOrder)

\* ApproveDevice: the ID and the rate-limit window are saved first, then the
\* outcome for the user code c.
ApproveDevice(id, c) ==
  /\ OwnerAction(id)
  /\ LET s       == OpenCodeWindow(RecordOwnerRequestID(mem, id))
         matches == {a \in mem.activations : a.code = c}
     IN  \/ /\ RateLimited(s)
            /\ Persist(<<s>>)
         \/ /\ ~RateLimited(s)
            /\ matches = {}                        \* INVALID_USER_CODE
            /\ Persist(<<s, [s EXCEPT !.failedCodeAttempts = @ + 1]>>)
         \/ /\ ~RateLimited(s)
            /\ \E a \in matches :
                 \/ /\ Expired(a)                  \* ACTIVATION_EXPIRED
                    /\ Persist(<<s, WithoutActivation(s, a)>>)
                 \/ /\ ~Expired(a)
                    /\ a.status # "pending"        \* ACTIVATION_NOT_PENDING
                    /\ Persist(<<s>>)
                 \/ /\ ~Expired(a)
                    /\ a.status = "pending"
                    /\ Persist(<<s, WithActivation(s, a,
                                    [a EXCEPT !.status = "approved"])>>)
  /\ UNCHANGED <<up, buckets, deviceRequestSince, now, issued>>

\* PollDevice with the code of activation a; an unknown code changes nothing.
PollTooSoon(a) == a.lastPoll # 0 /\ now - a.lastPoll < a.interval

\* Faulty variant: the activation can be used again.
ActivatedAgain(a) ==
  [mem EXCEPT !.device[a.device] = "active", !.directoryVersion = @ + 1]

\* Faulty variant: the directory keeps its version.
ActivatedSilently(a) ==
  [WithoutActivation(mem, a) EXCEPT !.device[a.device] = "active"]

Activated(a) ==
  [WithoutActivation(mem, a) EXCEPT !.device[a.device] = "active",
                                    !.directoryVersion = @ + 1]

PollDevice(a) ==
  /\ Ready
  /\ a \in mem.activations
  /\ \/ /\ Expired(a)                              \* ACTIVATION_EXPIRED
        /\ Persist(<<WithoutActivation(mem, a)>>)
     \/ /\ ~Expired(a) /\ PollTooSoon(a)           \* SLOW_DOWN
        /\ a.interval + PollingInterval <= MaxInterval
        /\ Persist(<<WithActivation(mem, a,
              [a EXCEPT !.interval = @ + PollingInterval,
                        !.lastPoll = now])>>)
     \/ /\ ~Expired(a) /\ ~PollTooSoon(a)          \* AUTHORIZATION_PENDING
        /\ a.status = "pending"
        /\ Persist(<<WithActivation(mem, a, [a EXCEPT !.lastPoll = now])>>)
     \/ /\ ~Expired(a) /\ ~PollTooSoon(a)
        /\ a.status = "approved"
        /\ mem.directoryVersion < MaxVersion
        /\ PersistDeviceStatus(<<Activated(a)>>, a.device, "active")
  /\ UNCHANGED <<up, buckets, deviceRequestSince, now, issued>>

\* Faulty variant: the Grants of the revoked device keep their version.
RevokedSameGrant(s, d) ==
  [s EXCEPT !.device[d] = "revoked",
            !.shellBindings = {b \in @ : b.device # d},
            !.directoryVersion = @ + 1]

Revoked(s, d) ==
  [s EXCEPT !.device[d] = "revoked",
            !.shellBindings = {b \in @ : b.device # d},
            !.directoryVersion = @ + 1,
            !.grantVersion = @ + 1]

\* RevokeDevice records and saves the ID before it looks at the device.
RevokeDevice(d, id) ==
  /\ OwnerAction(id)
  /\ LET s == RecordOwnerRequestID(mem, id)
     IN  \/ /\ d = mem.owner \/ mem.device[d] # "active"
            /\ Persist(<<s>>)
         \/ /\ d # mem.owner /\ mem.device[d] = "active"
            /\ mem.directoryVersion < MaxVersion
            /\ PersistDeviceStatus(<<s, Revoked(s, d)>>, d, "revoked")
  /\ UNCHANGED <<up, buckets, deviceRequestSince, now, issued>>

\* SyncVersion opens the device's bucket itself, so that no opening time is
\* noted for it and MaxReplayBuckets is not consulted.
SyncVersion(d, id) ==
  /\ Ready
  /\ mem.device[d] = "active"
  /\ id \notin Range(mem.deviceRequestOrder[d])
  /\ buckets' = buckets \cup {d}
  /\ Persist(<<RecordDeviceRequestID(mem, d, id)>>)
  /\ UNCHANGED <<up, deviceRequestSince, now, issued>>

\* SyncUpdates: the ID is saved, then the row of the update coordination,
\* which is not modelled here but sets the latch when it cannot be saved.
SyncUpdates(d, id) ==
  /\ Healthy
  /\ mem.device[d] = "active"
  /\ id \notin Range(mem.deviceRequestOrder[d])
  /\ buckets' = buckets \cup {d}
  /\ deviceRequestSince' = IF d \in buckets THEN deviceRequestSince
                           ELSE [deviceRequestSince EXCEPT ![d] = now]
  /\ LET s == RecordDeviceRequestID(mem, d, id)
     IN  Persist(<<s, s>>)
  /\ UNCHANGED <<up, now, issued>>

Bound(s, d, cap) == {b \in s.shellBindings : b.device = d /\ b.capability = cap}

\* PublishShellCapability of a correctly signed binding b.  A stale,
\* conflicting or unaffordable binding is refused before the ID is recorded,
\* yet the bucket stays open.
PublishRefused(b) ==
  LET old == Bound(mem, b.device, b.capability)
  IN  \/ \E o \in old : \/ b.version < o.version
                        \/ b.version = o.version /\ b.keys # o.keys
      \/ /\ b \notin old
         /\ \/ old = {} /\ Cardinality(mem.shellBindings) >= MaxShellBindings
            \/ mem.directoryVersion = MaxVersion

PublishShellCapability(b, id) ==
  /\ Ready
  /\ mem.device[b.device] = "active"
  /\ buckets' = buckets \cup {b.device}
  /\ id \notin Range(mem.deviceRequestOrder[b.device])
  /\ LET s   == RecordDeviceRequestID(mem, b.device, id)
         old == Bound(mem, b.device, b.capability)
     IN  \/ /\ PublishRefused(b)
            /\ UNCHANGED <<mem, persistenceFailed, durable>>
         \/ /\ ~PublishRefused(b)
            /\ b \in old                           \* published before
            /\ Persist(<<s>>)
         \/ /\ ~PublishRefused(b)
            /\ b \notin old
            /\ Persist(<<[s EXCEPT !.shellBindings = (@ \ old) \cup {b},
                                   !.directoryVersion = @ + 1]>>)
  /\ UNCHANGED <<up, deviceRequestSince, now, issued>>

ListShellCapabilities(id) ==
  /\ OwnerAction(id)
  /\ Persist(<<RecordOwnerRequestID(mem, id)>>)
  /\ UNCHANGED <<up, buckets, deviceRequestSince, now, issued>>

-----------------------------------------------------------------------------
(* The process and time.                                                   *)

Crash ==
  /\ up
  /\ up' = FALSE
  /\ mem' = Blank
  /\ buckets' = {}
  /\ deviceRequestSince' = [d \in Device |-> 0]
  /\ persistenceFailed' = FALSE
  /\ UNCHANGED <<durable, now, issued>>

Injective(seq) == \A i, j \in DOMAIN seq : seq[i] = seq[j] => i = j

OpenBuckets(s) == {d \in Device : s.deviceRequestOrder[d] # <<>>}

\* What restore accepts, split into the replay-bucket limit and the rest.
RestorableContent(s) ==
  /\ s.owner = NoDevice => /\ s.device = Blank.device
                           /\ s.directoryVersion = 0 /\ s.grantVersion = 0
                           /\ s.activations = {} /\ s.shellBindings = {}
  /\ s.owner # NoDevice => /\ s.device[s.owner] = "active"
                           /\ s.directoryVersion > 0
                           /\ s.grantVersion > 0
  /\ Cardinality(s.activations) <= PendingLimit
  /\ \A a, b \in s.activations : a.code = b.code => a = b
  /\ \A a \in s.activations : a.interval > 0 /\ a.expiresAt > 0
  /\ Cardinality(s.shellBindings) <= MaxShellBindings
  /\ \A b \in s.shellBindings : /\ s.device[b.device] # "absent"
                                /\ Bound(s, b.device, b.capability) = {b}
  /\ Len(s.ownerRequestOrder) <= MaxOwnerReplayIDs
  /\ Injective(s.ownerRequestOrder)
  /\ \A d \in Device : /\ Len(s.deviceRequestOrder[d]) <= MaxDeviceReplayIDs
                       /\ Injective(s.deviceRequestOrder[d])

RestorableBuckets(s) == Cardinality(OpenBuckets(s)) <= MaxReplayBuckets

\* NewPersistentManager: load, restore, prune expired activations, and save
\* what was pruned; the Gateway does not start when that save fails.  Every
\* restored bucket counts as opened now.
Restart ==
  /\ ~up
  /\ RestorableContent(payload) /\ RestorableBuckets(payload)
  /\ LET p == DropExpired(payload)
     IN  \/ /\ up' = TRUE
            /\ mem' = p
            /\ payload' = p
            /\ buckets' = OpenBuckets(p)
            /\ deviceRequestSince' =
                 [d \in Device |-> IF d \in OpenBuckets(p) THEN now ELSE 0]
         \/ /\ p # payload
            /\ payload' = p                       \* saved, but reported failed
            /\ UNCHANGED <<up, mem, buckets, deviceRequestSince>>
  /\ UNCHANGED <<persistenceFailed, revocations, versions, now, issued>>

Tick ==
  /\ now < MaxTime
  /\ now' = now + 1
  /\ UNCHANGED <<volatile, durable, issued>>

Next ==
  \/ \E o \in Device : InitializeOwner(o)
  \/ \E d \in Device, id \in RequestId :
       \/ BeginDeviceAuthorization(d, id)
       \/ RevokeDevice(d, id)
       \/ SyncVersion(d, id)
       \/ SyncUpdates(d, id)
  \/ \E id \in RequestId, c \in Code : ApproveDevice(id, c)
  \/ \E a \in mem.activations : PollDevice(a)
  \/ \E d \in Device, cap \in Capability, v \in 1..MaxBindingVersion,
        k \in HostKeys, id \in RequestId :
       PublishShellCapability(
         [device |-> d, capability |-> cap, version |-> v, keys |-> k], id)
  \/ \E id \in RequestId : ListShellCapabilities(id)
  \/ Crash
  \/ Restart
  \/ Tick

Spec == Init /\ [][Next]_vars

-----------------------------------------------------------------------------
(* Properties.                                                             *)

\* While the Gateway answers requests, what it would save is exactly what is
\* on disk: no handler answers before everything it changed is saved, and a
\* failed save ends all answers (persistWithDeviceStatusLocked and the
\* persistenceFailed latch).  The failing counterpart is a handler that
\* forgets a save, or goes on after a failed one.
MemoryIsDurable == Healthy => mem = payload

\* In memory and on disk, an outstanding activation always belongs to a
\* device that is not active, and no device or code has two of them: this is
\* what makes a revocation of an active device leave nothing behind that
\* could bring it back (the guards of BeginDeviceAuthorization against the
\* effects of PollDevice and RevokeDevice, across restarts).
ActivationsAwaitInactiveDevices ==
  \A s \in {mem, payload} :
    /\ \A a \in s.activations : s.device[a.device] # "active"
    /\ \A a, b \in s.activations :
         a.device = b.device \/ a.code = b.code => a = b

\* The revocation overlay the daemon reads instead of the enrollment payload
\* says the same as the payload: the same revoked devices, the same Grant
\* version and a directory version that is not ahead of it
\* (SaveControlStateWithDeviceStatus keeps them in one transaction).
OverlayAgreesWithPayload ==
  /\ revocations = {d \in Device : payload.device[d] = "revoked"}
  /\ versions.grant = payload.grantVersion
  /\ versions.directory <= payload.directoryVersion

\* Whatever was saved, at any point of any handler, passes the consistency
\* checks of restore at the next start: owner, bindings, activations, bounds
\* and uniqueness of the request IDs.
SavedContentRestores == RestorableContent(payload)

\* Whatever was saved also fits restore's limit on request-ID buckets.  (It
\* does not: SyncVersion, SyncUpdates and PublishShellCapability open buckets
\* without consulting the limit.)
SavedBucketsRestore == RestorableBuckets(payload)

-----------------------------------------------------------------------------
(* The durable state implements DeviceAuthority.                           *)

Authority == INSTANCE DeviceAuthority WITH
  owner     <- payload.owner,
  status    <- payload.device,
  approvals <- {<<a.code, a.device>> :
                  a \in {x \in payload.activations : x.status = "approved"}},
  bindings  <- payload.shellBindings,
  directory <- payload.directoryVersion,
  grant     <- payload.grantVersion

\* Every write of the control-state row, the last of a handler, one in the
\* middle, or one whose outcome the Manager never learned, is one promised
\* step or none: no device becomes active on disk without an unused approval
\* of the Owner, and no directory or Grant change keeps its version.
ImplementsAuthority == Authority!Spec

=============================================================================
