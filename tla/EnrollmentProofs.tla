-------------------------- MODULE EnrollmentProofs --------------------------
(***************************************************************************)
(* Proofs about Enrollment, for every value of its constants.              *)
(*                                                                         *)
(* Two notions carry them.  Sound(s, codes) is what a control record must  *)
(* satisfy for the invariants to be inductive.  Quiet(s, t) says that t    *)
(* differs from s only in what DeviceAuthority does not promise anything   *)
(* about.  Every record a handler saves is Sound, and every one but the    *)
(* last is Quiet, so it does not matter which of its saves fails.          *)
(***************************************************************************)
EXTENDS Enrollment, SequenceTheorems, FiniteSetTheorems, TLAPS

Approvals(s) ==
  {<<a.code, a.device>> : a \in {x \in s.activations : x.status = "approved"}}

Sound(s, codes) ==
  /\ s \in ControlState
  /\ \A a \in s.activations : /\ s.device[a.device] # "active"
                              /\ a.code \in codes
  /\ \A a, b \in s.activations :
       a.device = b.device \/ a.code = b.code => a = b
  /\ s.owner = NoDevice => /\ s.activations = {}
                           /\ s.directoryVersion = 0
                           /\ s.grantVersion = 0

Quiet(s, t) ==
  /\ t.owner = s.owner
  /\ t.device = s.device
  /\ t.directoryVersion = s.directoryVersion
  /\ t.grantVersion = s.grantVersion
  /\ t.shellBindings = s.shellBindings
  /\ Approvals(t) \subseteq Approvals(s)

\* The steps of DeviceAuthority, as a relation on control records.
Founds(s, t, o) ==
  /\ s.owner = NoDevice
  /\ t.owner = o
  /\ t.device = [s.device EXCEPT ![o] = "active"]
  /\ t.directoryVersion = 1 /\ t.grantVersion = 1
  /\ t.shellBindings = s.shellBindings
  /\ Approvals(t) = Approvals(s)

Approves(s, t, a) ==
  /\ t.owner = s.owner /\ t.device = s.device
  /\ t.directoryVersion = s.directoryVersion
  /\ t.grantVersion = s.grantVersion
  /\ t.shellBindings = s.shellBindings
  /\ Approvals(t) = Approvals(s) \cup {<<a.code, a.device>>}

Activates(s, t, a) ==
  /\ a.status = "approved"
  /\ t.owner = s.owner
  /\ t.device = [s.device EXCEPT ![a.device] = "active"]
  /\ t.directoryVersion = s.directoryVersion + 1
  /\ t.grantVersion = s.grantVersion
  /\ t.shellBindings = s.shellBindings
  /\ Approvals(t) = Approvals(s) \ {<<a.code, a.device>>}

Revokes(s, t, d) ==
  /\ d # s.owner /\ s.device[d] = "active"
  /\ t.owner = s.owner
  /\ t.device = [s.device EXCEPT ![d] = "revoked"]
  /\ t.directoryVersion = s.directoryVersion + 1
  /\ t.grantVersion = s.grantVersion + 1
  /\ t.shellBindings = {b \in s.shellBindings : b.device # d}
  /\ Approvals(t) = Approvals(s)

Publishes(s, t, d) ==
  /\ s.device[d] = "active"
  /\ t.owner = s.owner /\ t.device = s.device
  /\ t.directoryVersion = s.directoryVersion + 1
  /\ t.grantVersion = s.grantVersion
  /\ {b \in t.shellBindings : b.device # d}
       = {b \in s.shellBindings : b.device # d}
  /\ Approvals(t) = Approvals(s)

Promised(s, t) ==
  \/ Quiet(s, t)
  \/ \E d \in Device : Founds(s, t, d) \/ Revokes(s, t, d) \/ Publishes(s, t, d)
  \/ \E a \in s.activations : Approves(s, t, a) \/ Activates(s, t, a)

IInv ==
  /\ TypeOK
  /\ MemoryIsDurable
  /\ OverlayAgreesWithPayload
  /\ Sound(mem, issued)
  /\ Sound(payload, issued)

-----------------------------------------------------------------------------
(* Control records.                                                        *)

\* The FIFO of request IDs stays a sequence of request IDs, whatever its bound.
LEMMA RememberType ==
  ASSUME NEW order \in Seq(RequestId), NEW id \in RequestId, NEW bound
  PROVE  Remember(order, id, bound) \in Seq(RequestId)
<1> DEFINE longer == Append(order, id)
<1>1. longer \in Seq(RequestId) /\ Len(longer) # 0
  OBVIOUS
<1>2. Tail(longer) \in Seq(RequestId)
  BY <1>1, HeadTailProperties, EmptySeq
<1> QED
  BY <1>1, <1>2 DEF Remember

\* The update of one field keeps a control record a control record.
LEMMA ControlStateFields ==
  ASSUME NEW s \in ControlState
  PROVE  /\ s.owner \in Device \cup {NoDevice}
         /\ s.device \in [Device -> {"absent", "active", "revoked"}]
         /\ s.directoryVersion \in Nat
         /\ s.grantVersion \in Nat
         /\ s.activations \subseteq Activation
         /\ s.shellBindings \subseteq Binding
         /\ s.ownerRequestOrder \in Seq(RequestId)
         /\ s.deviceRequestOrder \in [Device -> Seq(RequestId)]
         /\ s.failedCodeWindow \in Nat
         /\ s.failedCodeAttempts \in Nat
  BY DEF ControlState

\* Recording a request ID of the Owner.
LEMMA RecordOwnerSound ==
  ASSUME NEW codes, NEW s, Sound(s, codes), NEW id \in RequestId
  PROVE  LET t == RecordOwnerRequestID(s, id)
         IN  Sound(t, codes) /\ Quiet(s, t) /\ t.activations = s.activations
<1> DEFINE fifo == Remember(s.ownerRequestOrder, id, MaxOwnerReplayIDs)
<1> DEFINE t == RecordOwnerRequestID(s, id)
<1>1. fifo \in Seq(RequestId)
  BY RememberType, ControlStateFields DEF Sound
<1>2. t = [s EXCEPT !.ownerRequestOrder = fifo]
  BY DEF RecordOwnerRequestID
<1> HIDE DEF fifo
<1>3. /\ t \in ControlState
      /\ t.activations = s.activations
      /\ t.device = s.device /\ t.owner = s.owner
      /\ t.shellBindings = s.shellBindings
      /\ t.directoryVersion = s.directoryVersion
      /\ t.grantVersion = s.grantVersion
  BY <1>1, <1>2 DEF Sound, ControlState
<1> HIDE DEF t
<1>4. Sound(t, codes)
  BY <1>3 DEF Sound
<1>5. Quiet(s, t)
  BY <1>3 DEF Quiet, Approvals
<1> QED
  BY <1>3, <1>4, <1>5 DEF t

\* Recording a request ID of a device.
LEMMA RecordDeviceSound ==
  ASSUME NEW codes, NEW s, Sound(s, codes), NEW d \in Device,
         NEW id \in RequestId
  PROVE  LET t == RecordDeviceRequestID(s, d, id)
         IN  Sound(t, codes) /\ Quiet(s, t) /\ t.activations = s.activations
<1> DEFINE fifo == Remember(s.deviceRequestOrder[d], id, MaxDeviceReplayIDs)
<1> DEFINE t == RecordDeviceRequestID(s, d, id)
<1>1. fifo \in Seq(RequestId)
  BY RememberType, ControlStateFields DEF Sound
<1>2. t = [s EXCEPT !.deviceRequestOrder =
                      [s.deviceRequestOrder EXCEPT ![d] = fifo]]
  BY ControlStateFields DEF RecordDeviceRequestID, Sound, ControlState
<1> HIDE DEF fifo
<1>3. [s.deviceRequestOrder EXCEPT ![d] = fifo] \in [Device -> Seq(RequestId)]
  BY <1>1, ControlStateFields DEF Sound
<1>4. /\ t \in ControlState
      /\ t.activations = s.activations
      /\ t.device = s.device /\ t.owner = s.owner
      /\ t.shellBindings = s.shellBindings
      /\ t.directoryVersion = s.directoryVersion
      /\ t.grantVersion = s.grantVersion
  BY <1>2, <1>3 DEF Sound, ControlState
<1> HIDE DEF t
<1>5. Sound(t, codes)
  BY <1>4 DEF Sound
<1>6. Quiet(s, t)
  BY <1>4 DEF Quiet, Approvals
<1> QED
  BY <1>4, <1>5, <1>6 DEF t

\* Counting a wrong user code.
LEMMA WrongCodeSound ==
  ASSUME NEW codes, NEW s, Sound(s, codes)
  PROVE  LET t == [s EXCEPT !.failedCodeAttempts = @ + 1]
         IN  Sound(t, codes) /\ Quiet(s, t)
<1> DEFINE n == s.failedCodeAttempts + 1
<1> DEFINE t == [s EXCEPT !.failedCodeAttempts = n]
<1>0. n \in Nat
  BY ControlStateFields DEF Sound
<1> HIDE DEF n
<1>1. /\ t \in ControlState
      /\ t.activations = s.activations
      /\ t.device = s.device /\ t.owner = s.owner
      /\ t.shellBindings = s.shellBindings
      /\ t.directoryVersion = s.directoryVersion
      /\ t.grantVersion = s.grantVersion
  BY <1>0 DEF Sound, ControlState
<1> HIDE DEF t
<1>2. Sound(t, codes)
  BY <1>1 DEF Sound
<1>3. Quiet(s, t)
  BY <1>1 DEF Quiet, Approvals
<1> QED
  BY <1>2, <1>3 DEF t, n

\* Opening a rate-limit window.
LEMMA CodeWindowSound ==
  ASSUME NEW codes, NEW s, Sound(s, codes), now \in Nat
  PROVE  LET t == OpenCodeWindow(s)
         IN  Sound(t, codes) /\ Quiet(s, t) /\ t.activations = s.activations
<1> DEFINE t == OpenCodeWindow(s)
<1>1. /\ t \in ControlState
      /\ t.activations = s.activations
      /\ t.device = s.device /\ t.owner = s.owner
      /\ t.shellBindings = s.shellBindings
      /\ t.directoryVersion = s.directoryVersion
      /\ t.grantVersion = s.grantVersion
  BY DEF OpenCodeWindow, Sound, ControlState
<1> HIDE DEF t
<1>2. Sound(t, codes)
  BY <1>1 DEF Sound
<1>3. Quiet(s, t)
  BY <1>1 DEF Quiet, Approvals
<1> QED
  BY <1>1, <1>2, <1>3 DEF t

\* Dropping activations, expired or used up.
LEMMA FewerActivationsSound ==
  ASSUME NEW codes, NEW s, Sound(s, codes), NEW A \in SUBSET s.activations
  PROVE  LET t == [s EXCEPT !.activations = A]
         IN  Sound(t, codes) /\ Quiet(s, t) /\ t.activations = A
<1> DEFINE t == [s EXCEPT !.activations = A]
<1>1. /\ t \in ControlState
      /\ t.activations = A
      /\ t.device = s.device /\ t.owner = s.owner
      /\ t.shellBindings = s.shellBindings
      /\ t.directoryVersion = s.directoryVersion
      /\ t.grantVersion = s.grantVersion
  BY DEF Sound, ControlState
<1> HIDE DEF t
<1>2. Sound(t, codes)
  BY <1>1 DEF Sound
<1>3. Quiet(s, t)
  BY <1>1 DEF Quiet, Approvals
<1> QED
  BY <1>1, <1>2, <1>3 DEF t

\* Replacing an activation by one of the same device and code.
LEMMA ReplaceActivationSound ==
  ASSUME NEW codes, NEW s, Sound(s, codes), NEW a \in s.activations,
         NEW b \in Activation, b.device = a.device, b.code = a.code
  PROVE  LET t == WithActivation(s, a, b)
         IN  /\ Sound(t, codes)
             /\ (b.status = "approved" => a.status = "approved")
                  => Quiet(s, t)
<1> DEFINE t == WithActivation(s, a, b)
<1>1. /\ t \in ControlState
      /\ t.activations = (s.activations \ {a}) \cup {b}
      /\ t.device = s.device /\ t.owner = s.owner
      /\ t.shellBindings = s.shellBindings
      /\ t.directoryVersion = s.directoryVersion
      /\ t.grantVersion = s.grantVersion
  BY DEF Sound, ControlState, WithActivation
<1> HIDE DEF t
<1>2. Sound(t, codes)
  <2>1. \A x \in t.activations : /\ t.device[x.device] # "active"
                                 /\ x.code \in codes
    BY <1>1 DEF Sound
  <2>2. \A x, y \in t.activations :
          x.device = y.device \/ x.code = y.code => x = y
    BY <1>1 DEF Sound
  <2>3. s.owner # NoDevice
    BY DEF Sound
  <2> QED
    BY <1>1, <2>1, <2>2, <2>3 DEF Sound
<1>3. ASSUME b.status = "approved" => a.status = "approved"
      PROVE  Quiet(s, t)
  BY <1>1, <1>3 DEF Quiet, Approvals
<1> QED
  BY <1>2, <1>3 DEF t

\* Pruning in BeginDeviceAuthorization.
LEMMA PruneSound ==
  ASSUME NEW codes, Sound(mem, codes)
  PROVE  LET p == PruneExpiredState IN Sound(p, codes) /\ Quiet(mem, p)
<1> DEFINE q == DropExpired(mem)
<1> DEFINE order == [d \in Device |->
                       IF d \in StaleBuckets THEN <<>>
                       ELSE q.deviceRequestOrder[d]]
<1> DEFINE p == PruneExpiredState
<1>1. Sound(q, codes) /\ Quiet(mem, q)
  BY FewerActivationsSound DEF DropExpired
<1>2. p = [q EXCEPT !.deviceRequestOrder = order]
  BY <1>1 DEF PruneExpiredState, Sound, ControlState
<1>3. order \in [Device -> Seq(RequestId)]
  <2>1. <<>> \in Seq(RequestId)
    OBVIOUS
  <2>2. \A d \in Device : q.deviceRequestOrder[d] \in Seq(RequestId)
    BY <1>1, ControlStateFields DEF Sound
  <2> QED
    BY <2>1, <2>2
<1> HIDE DEF order, q
<1>4. /\ p \in ControlState
      /\ p.activations = q.activations
      /\ p.device = q.device /\ p.owner = q.owner
      /\ p.shellBindings = q.shellBindings
      /\ p.directoryVersion = q.directoryVersion
      /\ p.grantVersion = q.grantVersion
  BY <1>1, <1>2, <1>3 DEF Sound, ControlState
<1> HIDE DEF p
<1>5. Sound(p, codes)
  BY <1>1, <1>4 DEF Sound
<1>6. Quiet(mem, p)
  BY <1>1, <1>4 DEF Quiet, Approvals
<1> QED
  BY <1>5, <1>6 DEF p

\* Quiet is transitive.
LEMMA QuietTransitive ==
  ASSUME NEW s, NEW t, NEW u, Quiet(s, t), Quiet(t, u)
  PROVE  Quiet(s, u)
  BY DEF Quiet

\* More codes may have been drawn since a record was saved.
LEMMA SoundMonotonic ==
  ASSUME NEW s, NEW codes, NEW more, Sound(s, codes), codes \subseteq more
  PROVE  Sound(s, more)
  BY DEF Sound

-----------------------------------------------------------------------------
(* Saving.                                                                 *)

\* The overlay rows that go with a control record.
RevokedIn(s) == {d \in Device : s.device[d] = "revoked"}

Overlay(s, rows, row) ==
  /\ rows = RevokedIn(s)
  /\ row \in [directory : Nat, grant : Nat]
  /\ row.grant = s.grantVersion
  /\ row.directory <= s.directoryVersion

\* A record that may be saved next, with its overlay rows.
Fits(t, rows, row) == Overlay(t, rows, row) /\ Promised(mem, t)

\* What IInv says of saved state, after a step, and the step itself.
Kept ==
  /\ Sound(mem, issued)' /\ Sound(payload, issued)'
  /\ persistenceFailed' \in BOOLEAN
  /\ MemoryIsDurable'
  /\ Overlay(payload, revocations, versions)'
  /\ Promised(payload, payload')

\* Where a sequence of saves can end.
LEMMA SavesOutcome ==
  ASSUME NEW saves, Len(saves) \in Nat \ {0}, NEW rows, NEW row,
         SaveAll(saves, rows, row) \/ SaveFails(saves, rows, row)
  PROVE  /\ \E j \in 1..Len(saves) : mem' = saves[j]
         /\ persistenceFailed' \in BOOLEAN
         /\ persistenceFailed' = FALSE => mem' = payload'
         /\ \/ /\ payload' = saves[Len(saves)]
               /\ revocations' = rows /\ versions' = row
            \/ /\ \/ payload' = payload
                  \/ \E j \in 1..(Len(saves) - 1) : payload' = saves[j]
               /\ revocations' = revocations /\ versions' = versions
<1>1. CASE SaveAll(saves, rows, row)
  <2>1. Len(saves) \in 1..Len(saves)
    OBVIOUS
  <2> QED
    BY <1>1, <2>1 DEF SaveAll
<1>2. CASE SaveFails(saves, rows, row)
  <2> PICK j \in 1..Len(saves), committed \in BOOLEAN :
        /\ mem' = saves[j]
        /\ payload' = IF committed THEN saves[j]
                      ELSE IF j = 1 THEN payload ELSE saves[j - 1]
        /\ LET last == committed /\ j = Len(saves)
           IN  /\ revocations' = IF last THEN rows ELSE revocations
               /\ versions' = IF last THEN row ELSE versions
        /\ persistenceFailed' = TRUE
    BY <1>2 DEF SaveFails
  <2>1. CASE committed /\ j = Len(saves)
    BY <2>1
  <2>2. CASE committed /\ j # Len(saves)
    BY <2>2
  <2>3. CASE ~committed
    BY <2>3
  <2> QED
    BY <2>1, <2>2, <2>3
<1> QED
  BY <1>1, <1>2

\* A handler whose saves are Sound, all but the last Quiet, and whose last
\* one goes with its overlay rows, keeps what IInv says of saved state.
LEMMA HandlerSaves ==
  ASSUME IInv, Healthy, issued \subseteq issued',
         NEW saves, Len(saves) \in Nat \ {0}, NEW rows, NEW row,
         \A j \in 1..Len(saves) : Sound(saves[j], issued'),
         \A j \in 1..(Len(saves) - 1) : Quiet(mem, saves[j]),
         Fits(saves[Len(saves)], rows, row),
         SaveAll(saves, rows, row) \/ SaveFails(saves, rows, row)
  PROVE  Kept
<1>1. mem = payload
  BY DEF IInv, MemoryIsDurable
<1>2. Overlay(payload, revocations, versions)
  BY DEF IInv, TypeOK, OverlayAgreesWithPayload, Overlay,
             RevokedIn
<1>3. Sound(payload, issued')
  BY SoundMonotonic DEF IInv
<1>4. /\ \E j \in 1..Len(saves) : mem' = saves[j]
      /\ persistenceFailed' \in BOOLEAN
      /\ persistenceFailed' = FALSE => mem' = payload'
      /\ \/ /\ payload' = saves[Len(saves)]
            /\ revocations' = rows /\ versions' = row
         \/ /\ \/ payload' = payload
               \/ \E j \in 1..(Len(saves) - 1) : payload' = saves[j]
            /\ revocations' = revocations /\ versions' = versions
  BY SavesOutcome
<1>5. Sound(mem, issued)'
  BY <1>4
<1>6. Sound(payload, issued)'
  BY <1>3, <1>4
<1>7. MemoryIsDurable'
  BY <1>4 DEF MemoryIsDurable, Healthy
<1>8. Overlay(payload, revocations, versions)'
  <2>1. CASE payload' = saves[Len(saves)] /\ revocations' = rows /\ versions' = row
    BY <2>1 DEF Overlay, Fits
  <2>2. CASE payload' = payload /\ revocations' = revocations /\ versions' = versions
    BY <1>2, <2>2 DEF Overlay, RevokedIn
  <2>3. ASSUME NEW j \in 1..(Len(saves) - 1), payload' = saves[j],
               revocations' = revocations, versions' = versions
        PROVE  Overlay(payload, revocations, versions)'
    <3>1. Quiet(payload, saves[j])
      BY <1>1
    <3> QED
      BY <1>2, <2>3, <3>1 DEF Overlay, RevokedIn, Quiet
  <2> QED
    BY <1>4, <2>1, <2>2, <2>3
<1>9. Promised(payload, payload')
  BY <1>1, <1>4 DEF Promised, Quiet, Fits
<1> QED
  BY <1>4, <1>5, <1>6, <1>7, <1>8, <1>9 DEF Kept

\* A Quiet successor of the saved record fits the present overlay rows.
LEMMA QuietFits ==
  ASSUME IInv, Healthy, NEW t, Quiet(mem, t)
  PROVE  Fits(t, revocations, versions)
<1>1. Overlay(t, revocations, versions)
  BY DEF IInv, TypeOK, OverlayAgreesWithPayload, MemoryIsDurable, Overlay,
         RevokedIn, Quiet
<1> QED
  BY <1>1 DEF Fits, Promised

\* The overlay rows written with a new status of device d.
LEMMA RaisedOverlay ==
  ASSUME IInv, Healthy, NEW s \in ControlState,
         s.directoryVersion >= mem.directoryVersion,
         s.grantVersion >= mem.grantVersion
  PROVE  Overlay(s, RevokedIn(s), RaisedVersions(s))
<1>1. /\ mem \in ControlState
      /\ versions \in [directory : Nat, grant : Nat]
      /\ versions.grant = mem.grantVersion
      /\ versions.directory <= mem.directoryVersion
  BY DEF IInv, TypeOK, MemoryIsDurable, OverlayAgreesWithPayload
<1>2. /\ RaisedVersions(s) \in [directory : Nat, grant : Nat]
      /\ RaisedVersions(s).grant = s.grantVersion
      /\ RaisedVersions(s).directory <= s.directoryVersion
  BY <1>1, ControlStateFields DEF RaisedVersions
<1> QED
  BY <1>2 DEF Overlay

LEMMA NewStatusRows ==
  ASSUME IInv, Healthy, NEW d \in Device, NEW s
  PROVE  /\ s.device = [mem.device EXCEPT ![d] = "active"]
              => RevokedIn(s) = revocations \ {d}
         /\ s.device = [mem.device EXCEPT ![d] = "revoked"]
              => RevokedIn(s) = revocations \cup {d}
<1>1. /\ mem.device \in [Device -> {"absent", "active", "revoked"}]
      /\ revocations = {x \in Device : mem.device[x] = "revoked"}
  BY ControlStateFields
     DEF IInv, TypeOK, MemoryIsDurable, OverlayAgreesWithPayload
<1>2. ASSUME s.device = [mem.device EXCEPT ![d] = "active"]
      PROVE  RevokedIn(s) = revocations \ {d}
  BY <1>1, <1>2 DEF RevokedIn
<1>3. ASSUME s.device = [mem.device EXCEPT ![d] = "revoked"]
      PROVE  RevokedIn(s) = revocations \cup {d}
  BY <1>1, <1>3 DEF RevokedIn
<1> QED
  BY <1>2, <1>3

\* HandlerSaves for one, two and three saves.
LEMMA OneSave ==
  ASSUME IInv, Healthy, issued \subseteq issued', NEW t, NEW rows, NEW row,
         Sound(t, issued'), Fits(t, rows, row),
         SaveAll(<<t>>, rows, row) \/ SaveFails(<<t>>, rows, row)
  PROVE  Kept
<1> DEFINE saves == <<t>>
<1>1. Len(saves) = 1 /\ saves[1] = t
  OBVIOUS
<1> HIDE DEF saves
<1>2. SaveAll(saves, rows, row) \/ SaveFails(saves, rows, row)
  BY DEF saves
<1> QED
  BY <1>1, <1>2, HandlerSaves

LEMMA TwoSaves ==
  ASSUME IInv, Healthy, issued \subseteq issued', NEW s, NEW t,
         NEW rows, NEW row,
         Sound(s, issued'), Quiet(mem, s),
         Sound(t, issued'), Fits(t, rows, row),
         SaveAll(<<s, t>>, rows, row) \/ SaveFails(<<s, t>>, rows, row)
  PROVE  Kept
<1> DEFINE saves == <<s, t>>
<1>1. Len(saves) = 2 /\ saves[1] = s /\ saves[2] = t
  OBVIOUS
<1> HIDE DEF saves
<1>2. SaveAll(saves, rows, row) \/ SaveFails(saves, rows, row)
  BY DEF saves
<1>3. /\ Len(saves) \in Nat \ {0}
      /\ \A j \in 1..Len(saves) : Sound(saves[j], issued')
      /\ \A j \in 1..(Len(saves) - 1) : Quiet(mem, saves[j])
      /\ Fits(saves[Len(saves)], rows, row)
  BY <1>1
<1> QED
  BY <1>2, <1>3, HandlerSaves

LEMMA ThreeSaves ==
  ASSUME IInv, Healthy, issued \subseteq issued', NEW r, NEW s, NEW t,
         NEW rows, NEW row,
         Sound(r, issued'), Quiet(mem, r),
         Sound(s, issued'), Quiet(mem, s),
         Sound(t, issued'), Fits(t, rows, row),
         SaveAll(<<r, s, t>>, rows, row) \/ SaveFails(<<r, s, t>>, rows, row)
  PROVE  Kept
<1> DEFINE saves == <<r, s, t>>
<1>1. Len(saves) = 3 /\ saves[1] = r /\ saves[2] = s /\ saves[3] = t
  OBVIOUS
<1> HIDE DEF saves
<1>2. SaveAll(saves, rows, row) \/ SaveFails(saves, rows, row)
  BY DEF saves
<1>3. /\ Len(saves) \in Nat \ {0}
      /\ \A j \in 1..Len(saves) : Sound(saves[j], issued')
      /\ \A j \in 1..(Len(saves) - 1) : Quiet(mem, saves[j])
      /\ Fits(saves[Len(saves)], rows, row)
  BY <1>1
<1> QED
  BY <1>2, <1>3, HandlerSaves

\* A handler that keeps saved state keeps IInv.
LEMMA KeptIsEnough ==
  ASSUME IInv, Kept, up' = up, now' = now,
         buckets' \subseteq Device, deviceRequestSince' \in [Device -> Nat],
         issued' \subseteq Code
  PROVE  IInv' /\ Promised(payload, payload')
<1>1. TypeOK'
  BY DEF Kept, IInv, TypeOK, Overlay, RevokedIn, Sound
<1> QED
  BY <1>1 DEF Kept, IInv, Overlay, RevokedIn, OverlayAgreesWithPayload

-----------------------------------------------------------------------------
(* The handlers.                                                           *)

LEMMA InitializeOwnerKeeps ==
  ASSUME IInv, NEW o \in Device, InitializeOwner(o)
  PROVE  IInv' /\ Promised(payload, payload')
<1> DEFINE s == [mem EXCEPT !.owner = o, !.device[o] = "active",
                            !.directoryVersion = 1, !.grantVersion = 1]
<1>1. /\ Healthy /\ mem.owner = NoDevice
      /\ PersistDeviceStatus(<<s>>, o, "active")
      /\ UNCHANGED <<up, buckets, deviceRequestSince, now, issued>>
  BY DEF InitializeOwner
<1>2. /\ Sound(mem, issued) /\ mem \in ControlState
      /\ mem.activations = {}
      /\ mem.directoryVersion = 0 /\ mem.grantVersion = 0
  BY <1>1 DEF IInv, Sound
<1>3. /\ s \in ControlState /\ s.owner = o
      /\ s.device = [mem.device EXCEPT ![o] = "active"]
      /\ s.activations = {}
      /\ s.directoryVersion = 1 /\ s.grantVersion = 1
      /\ s.shellBindings = mem.shellBindings
  BY <1>2 DEF ControlState
<1> HIDE DEF s
<1>4. Len(<<s>>) = 1 /\ <<s>>[1] = s
  OBVIOUS
<1>5. Sound(s, issued')
  BY <1>3, EnrollmentAssumption DEF Sound
<1>6. Fits(s, revocations \ {o}, RaisedVersions(s))
  <2>1. RevokedIn(s) = revocations \ {o}
    BY <1>1, <1>3, NewStatusRows
  <2>2. Overlay(s, RevokedIn(s), RaisedVersions(s))
    BY <1>1, <1>2, <1>3, RaisedOverlay
  <2>3. Founds(mem, s, o)
    BY <1>1, <1>2, <1>3 DEF Founds, Approvals
  <2> QED
    BY <2>1, <2>2, <2>3 DEF Fits, Promised
<1>7. \/ SaveAll(<<s>>, revocations \ {o}, RaisedVersions(s))
      \/ SaveFails(<<s>>, revocations \ {o}, RaisedVersions(s))
  BY <1>1, <1>4 DEF PersistDeviceStatus
<1>8. Kept
  BY <1>1, <1>5, <1>6, <1>7, OneSave
<1> QED
  BY <1>1, <1>8, KeptIsEnough DEF IInv, TypeOK

\* A fresh activation of a device that is not active and has none.
LEMMA NewActivationSound ==
  ASSUME NEW codes, NEW s, Sound(s, codes), NEW d \in Device,
         NEW c \in Code \ codes, s.device[d] # "active",
         ~HasActivation(s, d), s.owner # NoDevice, now \in Nat
  PROVE  LET t == [s EXCEPT !.activations = @ \cup {NewActivation(c, d)}]
         IN  Sound(t, codes \cup {c}) /\ Quiet(s, t)
<1> DEFINE b == NewActivation(c, d)
<1> DEFINE t == [s EXCEPT !.activations = @ \cup {b}]
<1>1. /\ b \in Activation /\ b.device = d /\ b.code = c
      /\ b.status = "pending"
  BY EnrollmentAssumption DEF NewActivation, Activation
<1> HIDE DEF b
<1>2. /\ t \in ControlState
      /\ t.activations = s.activations \cup {b}
      /\ t.device = s.device /\ t.owner = s.owner
      /\ t.shellBindings = s.shellBindings
      /\ t.directoryVersion = s.directoryVersion
      /\ t.grantVersion = s.grantVersion
  BY <1>1 DEF Sound, ControlState
<1> HIDE DEF t
<1>3. Sound(t, codes \cup {c})
  <2>1. \A x \in t.activations : /\ t.device[x.device] # "active"
                                 /\ x.code \in codes \cup {c}
    BY <1>1, <1>2 DEF Sound
  <2>2. \A x \in s.activations : x.device # b.device /\ x.code # b.code
    BY <1>1 DEF Sound, HasActivation
  <2>3. \A x, y \in t.activations :
          x.device = y.device \/ x.code = y.code => x = y
    BY <1>2, <2>2 DEF Sound
  <2> QED
    BY <1>2, <2>1, <2>3 DEF Sound
<1>4. Quiet(s, t)
  BY <1>1, <1>2 DEF Quiet, Approvals
<1> QED
  BY <1>3, <1>4 DEF t, b

LEMMA BeginKeeps ==
  ASSUME IInv, NEW d \in Device, NEW id \in RequestId,
         BeginDeviceAuthorization(d, id)
  PROVE  IInv' /\ Promised(payload, payload')
<1> DEFINE p == PruneExpiredState
<1> DEFINE marked == RecordDeviceRequestID(p, d, id)
<1> DEFINE full(c) == [marked EXCEPT !.activations =
                         @ \cup {NewActivation(c, d)}]
<1>1. /\ Healthy /\ mem.owner # NoDevice /\ mem.device[d] # "active"
      /\ up' = up /\ now' = now
      /\ now \in Nat /\ issued \subseteq Code
  BY DEF BeginDeviceAuthorization, Ready, IInv, TypeOK
<1>2. /\ buckets' \subseteq Device
      /\ deviceRequestSince' \in [Device -> Nat]
  BY DEF BeginDeviceAuthorization, IInv, TypeOK
<1>3. Sound(p, issued) /\ Quiet(mem, p)
  BY PruneSound DEF IInv
<1>4. /\ Sound(marked, issued) /\ Quiet(p, marked)
      /\ marked.activations = p.activations
  BY <1>3, RecordDeviceSound
<1>5. Quiet(mem, marked)
  BY <1>3, <1>4, QuietTransitive
<1>6. \/ Persist(<<p>>) /\ issued' = issued
      \/ Persist(<<p, marked>>) /\ issued' = issued
      \/ \E c \in Code \ issued : /\ ~HasActivation(p, d)
                                  /\ Persist(<<p, marked, full(c)>>)
                                  /\ issued' = issued \cup {c}
  BY DEF BeginDeviceAuthorization, BeginRefused
<1> HIDE DEF p, marked
<1>7. CASE Persist(<<p>>) /\ issued' = issued
  <2>1. Fits(p, revocations, versions)
    BY <1>1, <1>3, QuietFits
  <2>2. Kept
    BY <1>1, <1>3, <1>7, <2>1, OneSave DEF Persist
  <2> QED
    BY <1>1, <1>2, <1>7, <2>2, KeptIsEnough
<1>8. CASE Persist(<<p, marked>>) /\ issued' = issued
  <2>1. Fits(marked, revocations, versions)
    BY <1>1, <1>5, QuietFits
  <2>2. Kept
    BY <1>1, <1>3, <1>4, <1>8, <2>1, TwoSaves DEF Persist
  <2> QED
    BY <1>1, <1>2, <1>8, <2>2, KeptIsEnough
<1>9. ASSUME NEW c \in Code \ issued, ~HasActivation(p, d),
             Persist(<<p, marked, full(c)>>), issued' = issued \cup {c}
      PROVE  IInv' /\ Promised(payload, payload')
  <2>1. /\ marked.device[d] # "active" /\ marked.owner # NoDevice
        /\ ~HasActivation(marked, d)
    BY <1>1, <1>4, <1>5, <1>9 DEF Quiet, HasActivation
  <2>2. Sound(full(c), issued') /\ Quiet(marked, full(c))
    BY <1>1, <1>4, <1>9, <2>1, NewActivationSound
  <2>3. Quiet(mem, full(c))
    BY <1>5, <2>2, QuietTransitive
  <2> HIDE DEF full
  <2>4. Sound(p, issued') /\ Sound(marked, issued')
    BY <1>3, <1>4, <1>9, SoundMonotonic
  <2>5. Fits(full(c), revocations, versions)
    BY <1>1, <2>3, QuietFits
  <2>6. Kept
    BY <1>1, <1>3, <1>5, <1>9, <2>2, <2>4, <2>5, ThreeSaves DEF Persist
  <2> QED
    BY <1>1, <1>2, <1>9, <2>6, KeptIsEnough
<1> QED
  BY <1>6, <1>7, <1>8, <1>9

LEMMA ApproveKeeps ==
  ASSUME IInv, NEW id \in RequestId, NEW c \in Code, ApproveDevice(id, c)
  PROVE  IInv' /\ Promised(payload, payload')
<1> DEFINE r == RecordOwnerRequestID(mem, id)
<1> DEFINE s == OpenCodeWindow(r)
<1> DEFINE wrong == [s EXCEPT !.failedCodeAttempts = @ + 1]
<1> DEFINE approved(a) == [a EXCEPT !.status = "approved"]
<1> DEFINE approval(a) == WithActivation(s, a, approved(a))
<1>1. /\ Healthy /\ mem.owner # NoDevice
      /\ UNCHANGED <<up, buckets, deviceRequestSince, now, issued>>
      /\ now \in Nat
  BY DEF ApproveDevice, OwnerAction, Ready, IInv, TypeOK
<1>2. Sound(r, issued) /\ Quiet(mem, r) /\ r.activations = mem.activations
  BY RecordOwnerSound DEF IInv
<1>3. Sound(s, issued) /\ Quiet(r, s) /\ s.activations = r.activations
  BY <1>1, <1>2, CodeWindowSound
<1>4. Sound(wrong, issued) /\ Quiet(s, wrong)
  BY <1>3, WrongCodeSound
<1>5. Quiet(mem, s) /\ Quiet(mem, wrong)
  BY <1>2, <1>3, <1>4, QuietTransitive
<1>6. \/ Persist(<<s>>)
      \/ Persist(<<s, wrong>>)
      \/ \E a \in mem.activations :
           \/ Persist(<<s, WithoutActivation(s, a)>>)
           \/ Persist(<<s, approval(a)>>)
  BY DEF ApproveDevice
<1> HIDE DEF r, s, wrong
<1>7. CASE Persist(<<s>>)
  <2>1. Fits(s, revocations, versions)
    BY <1>1, <1>5, QuietFits
  <2>2. Kept
    BY <1>1, <1>3, <1>7, <2>1, OneSave DEF Persist
  <2> QED
    BY <1>1, <2>2, KeptIsEnough DEF IInv, TypeOK
<1>8. CASE Persist(<<s, wrong>>)
  <2>1. Fits(wrong, revocations, versions)
    BY <1>1, <1>5, QuietFits
  <2>2. Kept
    BY <1>1, <1>3, <1>4, <1>5, <1>8, <2>1, TwoSaves DEF Persist
  <2> QED
    BY <1>1, <2>2, KeptIsEnough DEF IInv, TypeOK
<1>9. ASSUME NEW a \in mem.activations,
             Persist(<<s, WithoutActivation(s, a)>>)
      PROVE  IInv' /\ Promised(payload, payload')
  <2> DEFINE t == WithoutActivation(s, a)
  <2>1. Sound(t, issued) /\ Quiet(s, t)
    BY <1>3, FewerActivationsSound DEF WithoutActivation
  <2>2. Quiet(mem, t)
    BY <1>5, <2>1, QuietTransitive
  <2> HIDE DEF t
  <2>3. Fits(t, revocations, versions)
    BY <1>1, <2>2, QuietFits
  <2>4. Persist(<<s, t>>)
    BY <1>9 DEF t
  <2>5. Kept
    BY <1>1, <1>3, <1>5, <2>1, <2>3, <2>4, TwoSaves DEF Persist
  <2> QED
    BY <1>1, <2>5, KeptIsEnough DEF IInv, TypeOK
<1>10. ASSUME NEW a \in mem.activations, Persist(<<s, approval(a)>>)
       PROVE  IInv' /\ Promised(payload, payload')
  <2> DEFINE t == approval(a)
  <2>1. a \in s.activations /\ a \in Activation
    BY <1>2, <1>3, ControlStateFields DEF Sound
  <2>2. /\ approved(a) \in Activation
        /\ approved(a).device = a.device /\ approved(a).code = a.code
    BY <2>1 DEF Activation
  <2>3. Sound(t, issued)
    BY <1>3, <2>1, <2>2, ReplaceActivationSound
  <2>4. /\ t.owner = s.owner /\ t.device = s.device
        /\ t.grantVersion = s.grantVersion
        /\ t.directoryVersion = s.directoryVersion
        /\ t.shellBindings = s.shellBindings
        /\ t.activations = (s.activations \ {a}) \cup {approved(a)}
    BY <1>3 DEF Sound, ControlState, WithActivation
  <2>5. Fits(s, revocations, versions)
    BY <1>1, <1>5, QuietFits
  <2>6. Fits(t, revocations, versions)
    <3>1. Overlay(t, revocations, versions)
      BY <2>4, <2>5 DEF Fits, Overlay, RevokedIn
    <3>2. Approvals(t) = Approvals(mem) \cup {<<a.code, a.device>>}
      <4>1. approved(a).status = "approved"
        BY <2>1 DEF Activation
      <4>2. Approvals(t) = Approvals(s) \cup {<<a.code, a.device>>}
        <5> DEFINE pair == <<a.code, a.device>>
        <5>1. \A x \in Approvals(t) : x \in Approvals(s) \cup {pair}
          BY <2>2, <2>4, <4>1 DEF Approvals
        <5>2. pair \in Approvals(t)
          BY <2>2, <2>4, <4>1 DEF Approvals
        <5>3. ASSUME NEW x \in s.activations, x.status = "approved"
              PROVE  <<x.code, x.device>> \in Approvals(t)
          <6>1. CASE x = a
            BY <5>2, <6>1
          <6>2. CASE x # a
            BY <2>4, <5>3, <6>2 DEF Approvals
          <6> QED
            BY <6>1, <6>2
        <5>4. \A x \in Approvals(s) : x \in Approvals(t)
          BY <5>3 DEF Approvals
        <5> QED
          BY <5>1, <5>2, <5>4
      <4>3. Approvals(s) = Approvals(mem)
        BY <1>2, <1>3 DEF Approvals
      <4> QED
        BY <4>2, <4>3
    <3>3. Approves(mem, t, a)
      BY <1>5, <2>4, <3>2 DEF Approves, Quiet
    <3> QED
      BY <3>1, <3>3 DEF Fits, Promised
  <2> HIDE DEF t
  <2>7. Persist(<<s, t>>)
    BY <1>10 DEF t
  <2>8. Kept
    BY <1>1, <1>3, <1>5, <2>3, <2>6, <2>7, TwoSaves DEF Persist
  <2> QED
    BY <1>1, <2>8, KeptIsEnough DEF IInv, TypeOK
<1> QED
  BY <1>6, <1>7, <1>8, <1>9, <1>10

LEMMA PollKeeps ==
  ASSUME IInv, NEW a \in mem.activations, PollDevice(a)
  PROVE  IInv' /\ Promised(payload, payload')
<1> DEFINE without == WithoutActivation(mem, a)
<1> DEFINE slow == [a EXCEPT !.interval = @ + PollingInterval, !.lastPoll = now]
<1> DEFINE polled == [a EXCEPT !.lastPoll = now]
<1>1. /\ Healthy /\ mem.owner # NoDevice
      /\ UNCHANGED <<up, buckets, deviceRequestSince, now, issued>>
      /\ now \in Nat
  BY DEF PollDevice, Ready, IInv, TypeOK
<1>2. Sound(mem, issued) /\ mem \in ControlState /\ a \in Activation
  BY ControlStateFields DEF IInv, Sound
<1>3. Sound(without, issued) /\ Quiet(mem, without)
  BY <1>2, FewerActivationsSound DEF WithoutActivation
<1>4. /\ slow \in Activation
      /\ slow.device = a.device /\ slow.code = a.code /\ slow.status = a.status
  <2> DEFINE n == a.interval + PollingInterval
  <2>1. n \in Nat
    BY <1>2, EnrollmentAssumption DEF Activation
  <2>2. slow = [a EXCEPT !.interval = n, !.lastPoll = now]
    OBVIOUS
  <2> HIDE DEF n
  <2> QED
    BY <1>1, <1>2, <2>1, <2>2 DEF Activation
<1>5. /\ polled \in Activation
      /\ polled.device = a.device /\ polled.code = a.code
      /\ polled.status = a.status
  BY <1>1, <1>2 DEF Activation
<1> HIDE DEF slow, polled
<1>6. /\ Sound(WithActivation(mem, a, slow), issued)
      /\ Quiet(mem, WithActivation(mem, a, slow))
  BY <1>2, <1>4, ReplaceActivationSound
<1>7. /\ Sound(WithActivation(mem, a, polled), issued)
      /\ Quiet(mem, WithActivation(mem, a, polled))
  BY <1>2, <1>5, ReplaceActivationSound
<1>8. ASSUME NEW t, Sound(t, issued), Quiet(mem, t), Persist(<<t>>)
      PROVE  IInv' /\ Promised(payload, payload')
  <2>1. Fits(t, revocations, versions)
    BY <1>1, <1>8, QuietFits
  <2>2. Kept
    BY <1>1, <1>8, <2>1, OneSave DEF Persist
  <2> QED
    BY <1>1, <2>2, KeptIsEnough DEF IInv, TypeOK
<1>9. CASE /\ a.status = "approved"
           /\ PersistDeviceStatus(<<Activated(a)>>, a.device, "active")
  <2> DEFINE n == mem.directoryVersion + 1
  <2> DEFINE t == Activated(a)
  <2>1. n \in Nat /\ n >= mem.directoryVersion
    BY <1>2, ControlStateFields
  <2>2. a.device \in Device
    BY <1>2 DEF Activation
  <2>3. /\ t \in ControlState
        /\ t.owner = mem.owner
        /\ t.device = [mem.device EXCEPT ![a.device] = "active"]
        /\ t.directoryVersion = n
        /\ t.grantVersion = mem.grantVersion
        /\ t.shellBindings = mem.shellBindings
        /\ t.activations = mem.activations \ {a}
    <3>1. t = [without EXCEPT !.device[a.device] = "active",
                              !.directoryVersion = n]
      BY <1>3 DEF Activated, WithoutActivation, Sound, ControlState
    <3> HIDE DEF n, t
    <3> QED
      BY <1>2, <2>1, <2>2, <3>1 DEF WithoutActivation, ControlState
  <2> HIDE DEF t
  <2>4. Sound(t, issued)
    <3>1. \A x \in t.activations : t.device[x.device] # "active"
      BY <1>2, <2>3, ControlStateFields DEF Sound
    <3> QED
      BY <1>1, <1>2, <2>3, <3>1 DEF Sound
  <2>5. Fits(t, revocations \ {a.device}, RaisedVersions(t))
    <3>1. RevokedIn(t) = revocations \ {a.device}
      BY <1>1, <2>2, <2>3, NewStatusRows
    <3>2. Overlay(t, RevokedIn(t), RaisedVersions(t))
      BY <1>1, <1>2, <2>1, <2>3, ControlStateFields, RaisedOverlay
    <3>3. Approvals(t) = Approvals(mem) \ {<<a.code, a.device>>}
      <4>1. \A x \in mem.activations : x.code = a.code => x = a
        BY <1>2 DEF Sound
      <4> QED
        BY <1>9, <2>3, <4>1 DEF Approvals
    <3>4. Activates(mem, t, a)
      BY <1>9, <2>3, <3>3 DEF Activates
    <3> QED
      BY <3>1, <3>2, <3>4 DEF Fits, Promised
  <2>6. \/ SaveAll(<<t>>, revocations \ {a.device}, RaisedVersions(t))
        \/ SaveFails(<<t>>, revocations \ {a.device}, RaisedVersions(t))
    <3>1. Len(<<t>>) = 1 /\ <<t>>[1] = t
      OBVIOUS
    <3>2. PersistDeviceStatus(<<t>>, a.device, "active")
      BY <1>9 DEF t
    <3> QED
      BY <3>1, <3>2 DEF PersistDeviceStatus
  <2>7. Kept
    BY <1>1, <2>4, <2>5, <2>6, OneSave
  <2> QED
    BY <1>1, <2>7, KeptIsEnough DEF IInv, TypeOK
<1>10. \/ Persist(<<without>>)
       \/ Persist(<<WithActivation(mem, a, slow)>>)
       \/ Persist(<<WithActivation(mem, a, polled)>>)
       \/ /\ a.status = "approved"
          /\ PersistDeviceStatus(<<Activated(a)>>, a.device, "active")
  BY DEF PollDevice, slow, polled
<1> QED
  BY <1>3, <1>6, <1>7, <1>8, <1>9, <1>10

LEMMA RevokeKeeps ==
  ASSUME IInv, NEW d \in Device, NEW id \in RequestId, RevokeDevice(d, id)
  PROVE  IInv' /\ Promised(payload, payload')
<1> DEFINE s == RecordOwnerRequestID(mem, id)
<1> DEFINE t == Revoked(s, d)
<1>1. /\ Healthy /\ mem.owner # NoDevice
      /\ UNCHANGED <<up, buckets, deviceRequestSince, now, issued>>
  BY DEF RevokeDevice, OwnerAction, Ready
<1>2. Sound(s, issued) /\ Quiet(mem, s) /\ s.activations = mem.activations
  BY RecordOwnerSound DEF IInv
<1>3. \/ Persist(<<s>>)
      \/ /\ d # mem.owner /\ mem.device[d] = "active"
         /\ PersistDeviceStatus(<<s, t>>, d, "revoked")
  BY DEF RevokeDevice
<1> HIDE DEF s
<1>4. CASE Persist(<<s>>)
  <2>1. Fits(s, revocations, versions)
    BY <1>1, <1>2, QuietFits
  <2>2. Kept
    BY <1>1, <1>2, <1>4, <2>1, OneSave DEF Persist
  <2> QED
    BY <1>1, <2>2, KeptIsEnough DEF IInv, TypeOK
<1>5. CASE /\ d # mem.owner /\ mem.device[d] = "active"
           /\ PersistDeviceStatus(<<s, t>>, d, "revoked")
  <2> DEFINE kept == {b \in s.shellBindings : b.device # d}
  <2> DEFINE dir == s.directoryVersion + 1
  <2> DEFINE grant == s.grantVersion + 1
  <2>1. s \in ControlState
    BY <1>2 DEF Sound
  <2>2. /\ kept \subseteq Binding
        /\ dir \in Nat /\ dir >= s.directoryVersion
        /\ grant \in Nat /\ grant >= s.grantVersion
    BY <2>1, ControlStateFields
  <2>3. t = [s EXCEPT !.device[d] = "revoked", !.shellBindings = kept,
                      !.directoryVersion = dir, !.grantVersion = grant]
    BY DEF Revoked
  <2> HIDE DEF t, kept, dir, grant
  <2>4. /\ t \in ControlState
        /\ t.owner = s.owner
        /\ t.device = [s.device EXCEPT ![d] = "revoked"]
        /\ t.directoryVersion = dir /\ t.grantVersion = grant
        /\ t.shellBindings = kept
        /\ t.activations = s.activations
    BY <2>1, <2>2, <2>3 DEF ControlState
  <2>5. Sound(t, issued)
    <3>1. \A x \in t.activations : t.device[x.device] # "active"
      BY <1>2, <2>1, <2>4, ControlStateFields DEF Sound
    <3>2. s.owner # NoDevice
      BY <1>1, <1>2 DEF Quiet
    <3> QED
      BY <1>2, <2>4, <3>1, <3>2 DEF Sound
  <2>6. Fits(t, revocations \cup {d}, RaisedVersions(t))
    <3>1. t.device = [mem.device EXCEPT ![d] = "revoked"]
      BY <1>2, <2>4 DEF Quiet
    <3>2. RevokedIn(t) = revocations \cup {d}
      BY <1>1, <3>1, NewStatusRows
    <3>3. /\ t.directoryVersion >= mem.directoryVersion
          /\ t.grantVersion >= mem.grantVersion
      BY <1>2, <2>2, <2>4 DEF Quiet
    <3>4. Overlay(t, RevokedIn(t), RaisedVersions(t))
      BY <1>1, <2>4, <3>3, RaisedOverlay
    <3>5. Approvals(t) = Approvals(mem)
      BY <1>2, <2>4 DEF Approvals
    <3>6. Revokes(mem, t, d)
      BY <1>2, <1>5, <2>4, <3>1, <3>5 DEF Revokes, Quiet, kept, dir, grant
    <3> QED
      BY <3>2, <3>4, <3>6 DEF Fits, Promised
  <2>7. \/ SaveAll(<<s, t>>, revocations \cup {d}, RaisedVersions(t))
        \/ SaveFails(<<s, t>>, revocations \cup {d}, RaisedVersions(t))
    <3>1. Len(<<s, t>>) = 2 /\ <<s, t>>[2] = t
      OBVIOUS
    <3> QED
      BY <1>5, <3>1 DEF PersistDeviceStatus
  <2>8. Kept
    BY <1>1, <1>2, <2>5, <2>6, <2>7, TwoSaves
  <2> QED
    BY <1>1, <2>8, KeptIsEnough DEF IInv, TypeOK
<1> QED
  BY <1>3, <1>4, <1>5

LEMMA SyncVersionKeeps ==
  ASSUME IInv, NEW d \in Device, NEW id \in RequestId, SyncVersion(d, id)
  PROVE  IInv' /\ Promised(payload, payload')
<1> DEFINE s == RecordDeviceRequestID(mem, d, id)
<1>1. /\ Healthy /\ Persist(<<s>>)
      /\ buckets' = buckets \cup {d}
      /\ UNCHANGED <<up, deviceRequestSince, now, issued>>
  BY DEF SyncVersion, Ready
<1>2. Sound(s, issued) /\ Quiet(mem, s)
  BY RecordDeviceSound DEF IInv
<1> HIDE DEF s
<1>3. Fits(s, revocations, versions)
  BY <1>1, <1>2, QuietFits
<1>4. Kept
  BY <1>1, <1>2, <1>3, OneSave DEF Persist
<1> QED
  BY <1>1, <1>4, KeptIsEnough DEF IInv, TypeOK

LEMMA SyncUpdatesKeeps ==
  ASSUME IInv, NEW d \in Device, NEW id \in RequestId, SyncUpdates(d, id)
  PROVE  IInv' /\ Promised(payload, payload')
<1> DEFINE s == RecordDeviceRequestID(mem, d, id)
<1>1. /\ Healthy /\ Persist(<<s, s>>)
      /\ buckets' = buckets \cup {d}
      /\ \/ UNCHANGED deviceRequestSince
         \/ deviceRequestSince' = [deviceRequestSince EXCEPT ![d] = now]
      /\ UNCHANGED <<up, now, issued>>
  BY DEF SyncUpdates
<1>2. Sound(s, issued) /\ Quiet(mem, s)
  BY RecordDeviceSound DEF IInv
<1> HIDE DEF s
<1>3. Fits(s, revocations, versions)
  BY <1>1, <1>2, QuietFits
<1>4. Kept
  BY <1>1, <1>2, <1>3, TwoSaves DEF Persist
<1>5. deviceRequestSince' \in [Device -> Nat]
  BY <1>1 DEF IInv, TypeOK
<1> QED
  BY <1>1, <1>4, <1>5, KeptIsEnough DEF IInv, TypeOK

LEMMA PublishKeeps ==
  ASSUME IInv, NEW b \in Binding, NEW id \in RequestId,
         PublishShellCapability(b, id)
  PROVE  IInv' /\ Promised(payload, payload')
<1> DEFINE s == RecordDeviceRequestID(mem, b.device, id)
<1> DEFINE bound == (s.shellBindings \ Bound(mem, b.device, b.capability))
                      \cup {b}
<1> DEFINE dir == s.directoryVersion + 1
<1> DEFINE t == [s EXCEPT !.shellBindings = bound, !.directoryVersion = dir]
<1>1. /\ Healthy /\ mem.owner # NoDevice
      /\ b.device \in Device /\ mem.device[b.device] = "active"
      /\ buckets' = buckets \cup {b.device}
      /\ UNCHANGED <<up, deviceRequestSince, now, issued>>
  BY DEF PublishShellCapability, Ready, Binding
<1>2. \/ UNCHANGED <<mem, persistenceFailed, durable>>
      \/ Persist(<<s>>)
      \/ Persist(<<t>>)
  BY DEF PublishShellCapability
<1>3. Sound(s, issued) /\ Quiet(mem, s) /\ s.activations = mem.activations
  BY <1>1, RecordDeviceSound DEF IInv
<1>4. Fits(s, revocations, versions)
  BY <1>1, <1>3, QuietFits
<1> HIDE DEF s
<1>5. CASE UNCHANGED <<mem, persistenceFailed, durable>>
  <2>1. TypeOK'
    BY <1>1, <1>5 DEF IInv, TypeOK, durable
  <2>2. Promised(payload, payload')
    BY <1>5 DEF durable, Promised, Quiet
  <2> QED
    BY <1>1, <1>5, <2>1, <2>2
       DEF IInv, durable, MemoryIsDurable, Healthy, OverlayAgreesWithPayload
<1>6. CASE Persist(<<s>>)
  <2>1. Kept
    BY <1>1, <1>3, <1>4, <1>6, OneSave DEF Persist
  <2> QED
    BY <1>1, <2>1, KeptIsEnough DEF IInv, TypeOK
<1>7. CASE Persist(<<t>>)
  <2>1. /\ s \in ControlState
        /\ bound \subseteq Binding
        /\ dir \in Nat /\ dir >= s.directoryVersion
    BY <1>3, ControlStateFields DEF Sound
  <2> HIDE DEF bound, dir
  <2>2. /\ t \in ControlState
        /\ t.owner = s.owner /\ t.device = s.device
        /\ t.directoryVersion = dir /\ t.grantVersion = s.grantVersion
        /\ t.shellBindings = bound
        /\ t.activations = s.activations
    BY <2>1 DEF ControlState
  <2> HIDE DEF t
  <2>3. Sound(t, issued)
    BY <1>1, <1>3, <2>2 DEF Sound, Quiet
  <2>4. Fits(t, revocations, versions)
    <3>1. /\ versions \in [directory : Nat, grant : Nat]
          /\ versions.directory <= s.directoryVersion
          /\ s.directoryVersion \in Nat
      BY <1>4, <2>1, ControlStateFields DEF Fits, Overlay
    <3>2. versions.directory <= t.directoryVersion
      BY <2>1, <2>2, <3>1
    <3>3. Overlay(t, revocations, versions)
      BY <1>4, <2>2, <3>1, <3>2 DEF Fits, Overlay, RevokedIn
    <3>4. /\ {x \in bound : x.device # b.device}
               = {x \in mem.shellBindings : x.device # b.device}
          /\ dir = mem.directoryVersion + 1
      BY <1>3 DEF bound, dir, Bound, Quiet
    <3>5. Approvals(t) = Approvals(mem)
      BY <1>3, <2>2 DEF Approvals
    <3>6. Publishes(mem, t, b.device)
      BY <1>1, <1>3, <2>2, <3>4, <3>5 DEF Publishes, Quiet
    <3> QED
      BY <1>1, <3>3, <3>6 DEF Fits, Promised
  <2>5. Kept
    BY <1>1, <1>7, <2>3, <2>4, OneSave DEF Persist
  <2> QED
    BY <1>1, <2>5, KeptIsEnough DEF IInv, TypeOK
<1> QED
  BY <1>2, <1>5, <1>6, <1>7

LEMMA ListKeeps ==
  ASSUME IInv, NEW id \in RequestId, ListShellCapabilities(id)
  PROVE  IInv' /\ Promised(payload, payload')
<1> DEFINE s == RecordOwnerRequestID(mem, id)
<1>1. /\ Healthy /\ Persist(<<s>>)
      /\ UNCHANGED <<up, buckets, deviceRequestSince, now, issued>>
  BY DEF ListShellCapabilities, OwnerAction, Ready
<1>2. Sound(s, issued) /\ Quiet(mem, s)
  BY RecordOwnerSound DEF IInv
<1> HIDE DEF s
<1>3. Fits(s, revocations, versions)
  BY <1>1, <1>2, QuietFits
<1>4. Kept
  BY <1>1, <1>2, <1>3, OneSave DEF Persist
<1> QED
  BY <1>1, <1>4, KeptIsEnough DEF IInv, TypeOK

LEMMA BlankSound ==
  ASSUME NEW codes
  PROVE  Sound(Blank, codes)
<1>1. <<>> \in Seq(RequestId)
  OBVIOUS
<1>2. Blank \in ControlState
  BY <1>1 DEF Blank, ControlState
<1> QED
  BY <1>2 DEF Blank, Sound

LEMMA CrashKeeps ==
  ASSUME IInv, Crash
  PROVE  IInv' /\ Promised(payload, payload')
<1>1. Sound(mem, issued)' /\ Sound(payload, issued)'
  BY BlankSound DEF Crash, IInv, durable
<1>2. TypeOK'
  BY <1>1 DEF Crash, IInv, TypeOK, durable, Sound
<1>3. MemoryIsDurable' /\ OverlayAgreesWithPayload'
  BY DEF Crash, IInv, durable, MemoryIsDurable, Healthy,
         OverlayAgreesWithPayload
<1>4. Promised(payload, payload')
  BY DEF Crash, durable, Promised, Quiet
<1> QED
  BY <1>1, <1>2, <1>3, <1>4 DEF IInv

LEMMA RestartKeeps ==
  ASSUME IInv, Restart
  PROVE  IInv' /\ Promised(payload, payload')
<1> DEFINE p == DropExpired(payload)
<1>1. /\ payload' = p
      /\ \/ mem' = p
         \/ mem' = mem /\ up' = FALSE
      /\ up' \in BOOLEAN
      /\ buckets' \subseteq Device
      /\ deviceRequestSince' \in [Device -> Nat]
      /\ UNCHANGED <<persistenceFailed, revocations, versions, now, issued>>
  <2>1. OpenBuckets(p) \subseteq Device
    BY DEF OpenBuckets
  <2>2. [d \in Device |-> IF d \in OpenBuckets(p) THEN now ELSE 0]
          \in [Device -> Nat]
    BY DEF IInv, TypeOK
  <2> QED
    BY <2>1, <2>2 DEF Restart, IInv, TypeOK
<1>2. Sound(p, issued) /\ Quiet(payload, p)
  BY FewerActivationsSound DEF IInv, DropExpired
<1> HIDE DEF p
<1>3. Sound(mem, issued)' /\ Sound(payload, issued)'
  BY <1>1, <1>2 DEF IInv
<1>4. TypeOK'
  BY <1>1, <1>3 DEF IInv, TypeOK, Sound
<1>5. MemoryIsDurable'
  BY <1>1 DEF MemoryIsDurable, Healthy
<1>6. OverlayAgreesWithPayload'
  BY <1>1, <1>2 DEF IInv, OverlayAgreesWithPayload, Quiet
<1>7. Promised(payload, payload')
  BY <1>1, <1>2 DEF Promised
<1> QED
  BY <1>3, <1>4, <1>5, <1>6, <1>7 DEF IInv

LEMMA UnchangedKeeps ==
  ASSUME IInv, UNCHANGED <<volatile, durable, issued>>, now' \in Nat \ {0}
  PROVE  IInv' /\ Promised(payload, payload')
<1>1. TypeOK'
  BY DEF IInv, TypeOK, volatile, durable
<1>2. Sound(mem, issued)' /\ Sound(payload, issued)'
  BY DEF IInv, volatile, durable
<1>3. MemoryIsDurable' /\ OverlayAgreesWithPayload'
  BY DEF IInv, volatile, durable, MemoryIsDurable, Healthy,
         OverlayAgreesWithPayload
<1>4. Promised(payload, payload')
  BY DEF durable, Promised, Quiet
<1> QED
  BY <1>1, <1>2, <1>3, <1>4 DEF IInv

-----------------------------------------------------------------------------
(* The theorems.                                                           *)

LEMMA InitIInv == Init => IInv
<1> SUFFICES ASSUME Init PROVE IInv
  OBVIOUS
<1>1. Sound(mem, issued) /\ Sound(payload, issued)
  BY BlankSound DEF Init
<1>2. TypeOK
  <2>1. mem \in ControlState /\ payload \in ControlState
    BY <1>1 DEF Sound
  <2>2. /\ deviceRequestSince \in [Device -> Nat]
        /\ versions \in [directory : Nat, grant : Nat]
    BY DEF Init
  <2>3. up \in BOOLEAN /\ persistenceFailed \in BOOLEAN
    BY DEF Init
  <2>4. /\ buckets \subseteq Device /\ revocations \subseteq Device
        /\ issued \subseteq Code
        /\ now \in Nat \ {0}
    BY DEF Init
  <2> QED
    BY <2>1, <2>2, <2>3, <2>4 DEF TypeOK
<1>3. MemoryIsDurable /\ OverlayAgreesWithPayload
  BY DEF Init, MemoryIsDurable, OverlayAgreesWithPayload, Blank
<1> QED
  BY <1>1, <1>2, <1>3 DEF IInv

LEMMA NextIInv ==
  IInv /\ [Next]_vars => IInv' /\ Promised(payload, payload')
<1> SUFFICES ASSUME IInv, [Next]_vars
             PROVE  IInv' /\ Promised(payload, payload')
  OBVIOUS
<1>1. ASSUME NEW o \in Device, InitializeOwner(o)
      PROVE  IInv' /\ Promised(payload, payload')
  BY <1>1, InitializeOwnerKeeps
<1>2. ASSUME NEW d \in Device, NEW id \in RequestId,
             \/ BeginDeviceAuthorization(d, id)
             \/ RevokeDevice(d, id)
             \/ SyncVersion(d, id)
             \/ SyncUpdates(d, id)
      PROVE  IInv' /\ Promised(payload, payload')
  BY <1>2, BeginKeeps, RevokeKeeps, SyncVersionKeeps, SyncUpdatesKeeps
<1>3. ASSUME NEW id \in RequestId, NEW c \in Code, ApproveDevice(id, c)
      PROVE  IInv' /\ Promised(payload, payload')
  BY <1>3, ApproveKeeps
<1>4. ASSUME NEW a \in mem.activations, PollDevice(a)
      PROVE  IInv' /\ Promised(payload, payload')
  BY <1>4, PollKeeps
<1>5. ASSUME NEW d \in Device, NEW cap \in Capability,
             NEW v \in 1..MaxBindingVersion, NEW k \in HostKeys,
             NEW id \in RequestId,
             PublishShellCapability(
               [device |-> d, capability |-> cap, version |-> v, keys |-> k],
               id)
      PROVE  IInv' /\ Promised(payload, payload')
  <2> DEFINE b == [device |-> d, capability |-> cap, version |-> v, keys |-> k]
  <2>1. b \in Binding
    BY EnrollmentAssumption DEF Binding
  <2> HIDE DEF b
  <2>2. PublishShellCapability(b, id)
    BY <1>5 DEF b
  <2> QED
    BY <2>1, <2>2, PublishKeeps
<1>6. ASSUME NEW id \in RequestId, ListShellCapabilities(id)
      PROVE  IInv' /\ Promised(payload, payload')
  BY <1>6, ListKeeps
<1>7. CASE Crash
  BY <1>7, CrashKeeps
<1>8. CASE Restart
  BY <1>8, RestartKeeps
<1>9. CASE Tick
  BY <1>9, UnchangedKeeps DEF Tick, IInv, TypeOK
<1>10. CASE UNCHANGED vars
  BY <1>10, UnchangedKeeps DEF vars, IInv, TypeOK
<1> QED
  BY <1>1, <1>2, <1>3, <1>4, <1>5, <1>6, <1>7, <1>8, <1>9, <1>10 DEF Next

\* IInv, which strengthens the properties below so that it is inductive,
\* holds in every reachable state of the Gateway.
THEOREM Invariance == Spec => []IInv
<1>1. IInv /\ [Next]_vars => IInv'
  BY NextIInv
<1> QED
  BY InitIInv, <1>1, PTL DEF Spec

\* Every variable of the Gateway keeps its type.
THEOREM TypeCorrect == Spec => []TypeOK
<1>1. IInv => TypeOK
  BY DEF IInv
<1> QED
  BY Invariance, <1>1, PTL

\* While the Gateway answers, memory and disk agree, whichever save of
\* whichever handler failed and whether or not it reached the disk.
THEOREM DurableMemory == Spec => []MemoryIsDurable
<1>1. IInv => MemoryIsDurable
  BY DEF IInv
<1> QED
  BY Invariance, <1>1, PTL

\* The revocation overlay never disagrees with the enrollment payload.
THEOREM OverlayAgreement == Spec => []OverlayAgreesWithPayload
<1>1. IInv => OverlayAgreesWithPayload
  BY DEF IInv
<1> QED
  BY Invariance, <1>1, PTL

\* No outstanding activation belongs to an active device, in memory or on
\* disk, and no device or code has two.
THEOREM ActivationsInactive == Spec => []ActivationsAwaitInactiveDevices
<1>1. IInv => ActivationsAwaitInactiveDevices
  BY DEF IInv, Sound, ActivationsAwaitInactiveDevices
<1> QED
  BY Invariance, <1>1, PTL

-----------------------------------------------------------------------------
(* The refinement of DeviceAuthority.                                      *)

LEMMA InitAuthority == Init => Authority!Init
  BY DEF Init, Blank, Authority!Init

LEMMA PromisedIsAuthority ==
  ASSUME IInv, Promised(payload, payload')
  PROVE  [Authority!Next]_Authority!vars
<1>1. Sound(payload, issued) /\ payload \in ControlState
  BY DEF IInv, Sound
<1>2. CASE Quiet(payload, payload')
  BY <1>2 DEF Quiet, Approvals, Authority!Next, Authority!Lapse
<1>3. ASSUME NEW d \in Device, Founds(payload, payload', d)
      PROVE  Authority!Found(d)
  BY <1>3 DEF Founds, Approvals, Authority!Found
<1>4. ASSUME NEW d \in Device, Revokes(payload, payload', d)
      PROVE  Authority!Revoke(d)
  <2>1. \A c \in Code : <<c, d>> \notin Approvals(payload)
    BY <1>1, <1>4 DEF Sound, Approvals, Revokes
  <2> QED
    BY <1>4, <2>1 DEF Revokes, Approvals, Authority!Revoke
<1>5. ASSUME NEW d \in Device, Publishes(payload, payload', d)
      PROVE  Authority!Publish(d)
  BY <1>5 DEF Publishes, Approvals, Authority!Publish
<1>6. ASSUME NEW a \in payload.activations
      PROVE  a.code \in Code /\ a.device \in Device
               /\ payload.device[a.device] # "active"
  BY <1>1, <1>6, ControlStateFields DEF Activation, Sound
<1>7. ASSUME NEW a \in payload.activations, Approves(payload, payload', a)
      PROVE  Authority!Approve(a.code, a.device)
  BY <1>6, <1>7 DEF Approves, Approvals, Authority!Approve
<1>8. ASSUME NEW a \in payload.activations, Activates(payload, payload', a)
      PROVE  Authority!Activate(a.code, a.device)
  <2>1. <<a.code, a.device>> \in Approvals(payload)
    BY <1>8 DEF Activates, Approvals
  <2> QED
    BY <1>6, <1>8, <2>1 DEF Activates, Approvals, Authority!Activate
<1> QED
  BY <1>2, <1>3, <1>4, <1>5, <1>6, <1>7, <1>8 DEF Promised, Authority!Next

\* On disk, the Gateway implements DeviceAuthority: a device becomes active
\* only by using up an approval of the Owner, and no directory or Grant
\* change keeps its version, whatever the saves, crashes and restarts do.
THEOREM AuthorityRefinement == Spec => ImplementsAuthority
<1>1. IInv /\ [Next]_vars => [Authority!Next]_Authority!vars
  BY NextIInv, PromisedIsAuthority
<1>2. Spec => Authority!Spec
  BY InitAuthority, Invariance, <1>1, PTL DEF Spec, Authority!Spec
<1> QED
  BY <1>2 DEF ImplementsAuthority

-----------------------------------------------------------------------------
(* Where the saves of a handler end, for one, two and three of them.       *)

EndsIn(S, last) ==
  /\ mem' \in S
  /\ payload' \in S \cup {payload}
  /\ persistenceFailed' = FALSE => mem' = last /\ payload' = last

LEMMA OneEnds ==
  ASSUME NEW t, NEW rows, NEW row,
         SaveAll(<<t>>, rows, row) \/ SaveFails(<<t>>, rows, row)
  PROVE  EndsIn({t}, t)
<1> DEFINE saves == <<t>>
<1>1. Len(saves) = 1 /\ saves[1] = t
  OBVIOUS
<1> HIDE DEF saves
<1>2. SaveAll(saves, rows, row) \/ SaveFails(saves, rows, row)
  BY DEF saves
<1> QED
  BY <1>1, <1>2 DEF SaveAll, SaveFails, EndsIn

LEMMA TwoEnd ==
  ASSUME NEW s, NEW t, NEW rows, NEW row,
         SaveAll(<<s, t>>, rows, row) \/ SaveFails(<<s, t>>, rows, row)
  PROVE  EndsIn({s, t}, t)
<1> DEFINE saves == <<s, t>>
<1>1. Len(saves) = 2 /\ saves[1] = s /\ saves[2] = t
  OBVIOUS
<1> HIDE DEF saves
<1>2. SaveAll(saves, rows, row) \/ SaveFails(saves, rows, row)
  BY DEF saves
<1> QED
  BY <1>1, <1>2 DEF SaveAll, SaveFails, EndsIn

LEMMA ThreeEnd ==
  ASSUME NEW r, NEW s, NEW t, NEW rows, NEW row,
         SaveAll(<<r, s, t>>, rows, row) \/ SaveFails(<<r, s, t>>, rows, row)
  PROVE  EndsIn({r, s, t}, t)
<1> DEFINE saves == <<r, s, t>>
<1>1. Len(saves) = 3 /\ saves[1] = r /\ saves[2] = s /\ saves[3] = t
  OBVIOUS
<1> HIDE DEF saves
<1>2. SaveAll(saves, rows, row) \/ SaveFails(saves, rows, row)
  BY DEF saves
<1> QED
  BY <1>1, <1>2 DEF SaveAll, SaveFails, EndsIn

LEMMA StatusEnds ==
  ASSUME NEW s, NEW t, NEW d, NEW status
  PROVE  /\ PersistDeviceStatus(<<t>>, d, status) => EndsIn({t}, t)
         /\ PersistDeviceStatus(<<s, t>>, d, status) => EndsIn({s, t}, t)
  BY OneEnds, TwoEnd DEF PersistDeviceStatus

-----------------------------------------------------------------------------
(* What each change of a control record leaves alone.                      *)

SameDevices(s, t) ==
  /\ t.owner = s.owner /\ t.device = s.device
  /\ t.directoryVersion = s.directoryVersion
  /\ t.grantVersion = s.grantVersion

SameActivations(s, t) == t.activations = s.activations

SameBindings(s, t) == t.shellBindings = s.shellBindings

SameOrders(s, t) ==
  /\ t.ownerRequestOrder = s.ownerRequestOrder
  /\ t.deviceRequestOrder = s.deviceRequestOrder

SameCodeWindow(s, t) ==
  /\ t.failedCodeWindow = s.failedCodeWindow
  /\ t.failedCodeAttempts = s.failedCodeAttempts

SameButOrders(s, t) ==
  /\ SameDevices(s, t) /\ SameActivations(s, t) /\ SameBindings(s, t)
  /\ SameCodeWindow(s, t)

SameButActivations(s, t) ==
  /\ SameDevices(s, t) /\ SameBindings(s, t) /\ SameOrders(s, t)
  /\ SameCodeWindow(s, t)

SameButCodeWindow(s, t) ==
  /\ SameDevices(s, t) /\ SameActivations(s, t) /\ SameBindings(s, t)
  /\ SameOrders(s, t)

LEMMA OwnerIDFields ==
  ASSUME NEW s \in ControlState, NEW id \in RequestId
  PROVE  LET t == RecordOwnerRequestID(s, id)
         IN  /\ SameButOrders(s, t)
             /\ t.ownerRequestOrder =
                  Remember(s.ownerRequestOrder, id, MaxOwnerReplayIDs)
             /\ t.deviceRequestOrder = s.deviceRequestOrder
<1> DEFINE fifo == Remember(s.ownerRequestOrder, id, MaxOwnerReplayIDs)
<1>1. RecordOwnerRequestID(s, id) = [s EXCEPT !.ownerRequestOrder = fifo]
  BY DEF RecordOwnerRequestID
<1> HIDE DEF fifo
<1>2. LET t == RecordOwnerRequestID(s, id)
      IN  /\ SameButOrders(s, t)
          /\ t.ownerRequestOrder = fifo
          /\ t.deviceRequestOrder = s.deviceRequestOrder
  BY <1>1 DEF ControlState, SameButOrders, SameDevices, SameActivations,
              SameBindings, SameCodeWindow
<1> QED
  BY <1>2 DEF fifo

LEMMA DeviceIDFields ==
  ASSUME NEW s \in ControlState, NEW d \in Device, NEW id \in RequestId
  PROVE  LET t == RecordDeviceRequestID(s, d, id)
         IN  /\ SameButOrders(s, t)
             /\ t.ownerRequestOrder = s.ownerRequestOrder
             /\ \A x \in Device :
                  t.deviceRequestOrder[x] =
                    IF x = d THEN Remember(s.deviceRequestOrder[d], id,
                                           MaxDeviceReplayIDs)
                    ELSE s.deviceRequestOrder[x]
<1> DEFINE fifo == Remember(s.deviceRequestOrder[d], id, MaxDeviceReplayIDs)
<1> DEFINE order == [s.deviceRequestOrder EXCEPT ![d] = fifo]
<1>1. RecordDeviceRequestID(s, d, id) = [s EXCEPT !.deviceRequestOrder = order]
  BY ControlStateFields DEF RecordDeviceRequestID, ControlState
<1>2. \A x \in Device :
        order[x] = IF x = d THEN fifo ELSE s.deviceRequestOrder[x]
  BY ControlStateFields
<1> HIDE DEF fifo, order
<1>3. LET t == RecordDeviceRequestID(s, d, id)
      IN  /\ SameButOrders(s, t)
          /\ t.ownerRequestOrder = s.ownerRequestOrder
          /\ t.deviceRequestOrder = order
  BY <1>1 DEF ControlState, SameButOrders, SameDevices, SameActivations,
              SameBindings, SameCodeWindow
<1> QED
  BY <1>2, <1>3 DEF fifo

LEMMA ActivationsFields ==
  ASSUME NEW s \in ControlState, NEW A
  PROVE  LET t == [s EXCEPT !.activations = A]
         IN  SameButActivations(s, t) /\ t.activations = A
  BY DEF ControlState, SameButActivations, SameDevices, SameBindings,
         SameOrders, SameCodeWindow

LEMMA PruneFields ==
  ASSUME mem \in ControlState
  PROVE  LET p == PruneExpiredState
         IN  /\ SameDevices(mem, p) /\ SameBindings(mem, p)
             /\ SameCodeWindow(mem, p)
             /\ p.activations \subseteq mem.activations
             /\ p.ownerRequestOrder = mem.ownerRequestOrder
             /\ \A d \in Device :
                  p.deviceRequestOrder[d] =
                    IF d \in StaleBuckets THEN <<>>
                    ELSE mem.deviceRequestOrder[d]
<1> DEFINE q == DropExpired(mem)
<1> DEFINE order == [d \in Device |-> IF d \in StaleBuckets THEN <<>>
                                      ELSE q.deviceRequestOrder[d]]
<1>1. /\ SameButActivations(mem, q) /\ q \in ControlState
      /\ q.activations \subseteq mem.activations
  BY ActivationsFields DEF DropExpired, ControlState
<1>2. PruneExpiredState = [q EXCEPT !.deviceRequestOrder = order]
  BY <1>1 DEF PruneExpiredState, ControlState
<1>3. \A d \in Device :
        order[d] = IF d \in StaleBuckets THEN <<>>
                   ELSE mem.deviceRequestOrder[d]
  BY <1>1 DEF SameButActivations, SameOrders
<1> HIDE DEF q, order
<1>4. LET p == PruneExpiredState
      IN  /\ SameButOrders(q, p)
          /\ p.ownerRequestOrder = q.ownerRequestOrder
          /\ p.deviceRequestOrder = order
  BY <1>1, <1>2 DEF ControlState, SameButOrders, SameDevices,
                    SameActivations, SameBindings, SameCodeWindow
<1> QED
  BY <1>1, <1>3, <1>4 DEF SameButActivations, SameButOrders, SameDevices,
                          SameActivations, SameBindings, SameOrders,
                          SameCodeWindow

LEMMA CodeWindowFields ==
  ASSUME NEW s \in ControlState
  PROVE  /\ SameButCodeWindow(s, OpenCodeWindow(s))
         /\ SameButCodeWindow(s, [s EXCEPT !.failedCodeAttempts = @ + 1])
  BY DEF OpenCodeWindow, ControlState, SameButCodeWindow, SameDevices,
         SameActivations, SameBindings, SameOrders


-----------------------------------------------------------------------------
(* What is saved restores.                                                 *)

\* The parts of RestorableContent for a Fabric that has an Owner.
OwnerWhole(s) ==
  /\ s.owner # NoDevice /\ s.device[s.owner] = "active"
  /\ s.directoryVersion > 0 /\ s.grantVersion > 0

ActivationsWhole(s) ==
  /\ IsFiniteSet(s.activations)
  /\ Cardinality(s.activations) <= PendingLimit
  /\ \A a \in s.activations : a.interval > 0 /\ a.expiresAt > 0

BindingsWhole(s) ==
  /\ IsFiniteSet(s.shellBindings)
  /\ Cardinality(s.shellBindings) <= MaxShellBindings
  /\ \A b \in s.shellBindings : /\ s.device[b.device] # "absent"
                                /\ Bound(s, b.device, b.capability) = {b}

OrdersWhole(s) ==
  /\ Len(s.ownerRequestOrder) <= MaxOwnerReplayIDs
  /\ Injective(s.ownerRequestOrder)
  /\ \A d \in Device : /\ Len(s.deviceRequestOrder[d]) <= MaxDeviceReplayIDs
                       /\ Injective(s.deviceRequestOrder[d])

FoundedWhole(s) ==
  OwnerWhole(s) /\ ActivationsWhole(s) /\ BindingsWhole(s) /\ OrdersWhole(s)

\* SavedContentRestores, with what makes it inductive.
Whole(s) ==
  /\ RestorableContent(s)
  /\ IsFiniteSet(s.activations) /\ IsFiniteSet(s.shellBindings)

LEMMA WholeParts ==
  ASSUME NEW s, NEW codes, Sound(s, codes)
  PROVE  /\ Whole(s) => \/ FoundedWhole(s)
                        \/ s.owner = NoDevice /\ s.device = Blank.device
                             /\ ActivationsWhole(s) /\ BindingsWhole(s)
                             /\ OrdersWhole(s)
         /\ FoundedWhole(s) => Whole(s)
  BY DEF Whole, RestorableContent, FoundedWhole, OwnerWhole, ActivationsWhole,
         BindingsWhole, OrdersWhole, Sound

\* The FIFO keeps its bound, and holds no ID twice.
LEMMA RememberWhole ==
  ASSUME NEW order \in Seq(RequestId), NEW id \in RequestId, NEW bound \in Nat,
         Len(order) <= bound, Injective(order), id \notin Range(order)
  PROVE  LET fifo == Remember(order, id, bound)
         IN  Len(fifo) <= bound /\ Injective(fifo)
<1> DEFINE longer == Append(order, id)
<1>1. /\ longer \in Seq(RequestId) /\ longer # <<>>
      /\ Len(longer) = Len(order) + 1 /\ Len(order) \in Nat
      /\ \A i \in 1..Len(order) : longer[i] = order[i]
      /\ longer[Len(order) + 1] = id
  BY AppendProperties, LenProperties
<1>2. Injective(longer)
  <2>1. \A i \in 1..Len(order) : order[i] # id
    BY LenProperties DEF Range
  <2>2. DOMAIN longer = 1..(Len(order) + 1) /\ DOMAIN order = 1..Len(order)
    BY <1>1, LenProperties
  <2> QED
    BY <1>1, <2>1, <2>2 DEF Injective
<1>3. /\ Tail(longer) \in Seq(RequestId) /\ Len(Tail(longer)) = Len(order)
      /\ \A i \in 1..Len(order) : Tail(longer)[i] = longer[i + 1]
  BY <1>1, HeadTailProperties
<1> HIDE DEF longer
<1>4. Injective(Tail(longer))
  <2> DEFINE rest == Tail(longer)
             n == Len(order)
  <2>1. DOMAIN longer = 1..(n + 1) /\ DOMAIN rest = 1..n /\ n \in Nat
    BY <1>1, <1>3, LenProperties
  <2>2. \A i \in 1..n : rest[i] = longer[i + 1] /\ i + 1 \in 1..(n + 1)
    BY <1>3, <2>1
  <2> HIDE DEF rest, n
  <2>3. ASSUME NEW i \in 1..n, NEW j \in 1..n, rest[i] = rest[j]
        PROVE  i = j
    <3>1. longer[i + 1] = longer[j + 1]
      BY <2>2, <2>3
    <3>2. i + 1 \in DOMAIN longer /\ j + 1 \in DOMAIN longer
      BY <2>1, <2>2
    <3>3. i + 1 = j + 1
      BY <1>2, <3>1, <3>2 DEF Injective
    <3> QED
      BY <2>1, <3>3
  <2>4. Injective(rest)
    BY <2>1, <2>3 DEF Injective
  <2> QED
    BY <2>4 DEF rest
<1>5. Remember(order, id, bound)
        = IF Len(longer) > bound THEN Tail(longer) ELSE longer
  BY DEF Remember, longer
<1> QED
  BY <1>1, <1>2, <1>3, <1>4, <1>5

LEMMA OwnerIDWhole ==
  ASSUME NEW s \in ControlState, NEW id \in RequestId, FoundedWhole(s),
         id \notin Range(s.ownerRequestOrder)
  PROVE  FoundedWhole(RecordOwnerRequestID(s, id))
<1> DEFINE t == RecordOwnerRequestID(s, id)
<1> DEFINE fifo == Remember(s.ownerRequestOrder, id, MaxOwnerReplayIDs)
<1>1. /\ SameButOrders(s, t) /\ t.ownerRequestOrder = fifo
      /\ t.deviceRequestOrder = s.deviceRequestOrder
  BY OwnerIDFields
<1>2. Len(fifo) <= MaxOwnerReplayIDs /\ Injective(fifo)
  BY RememberWhole, ControlStateFields, EnrollmentAssumption
     DEF FoundedWhole, OrdersWhole
<1> HIDE DEF t, fifo
<1>3. OrdersWhole(t)
  BY <1>1, <1>2 DEF FoundedWhole, OrdersWhole
<1>4. OwnerWhole(t) /\ ActivationsWhole(t) /\ BindingsWhole(t)
  BY <1>1 DEF FoundedWhole, OwnerWhole, ActivationsWhole, BindingsWhole, Bound,
              SameButOrders, SameDevices, SameActivations, SameBindings
<1> QED
  BY <1>3, <1>4 DEF FoundedWhole, t

LEMMA DeviceIDWhole ==
  ASSUME NEW s \in ControlState, NEW d \in Device, NEW id \in RequestId,
         FoundedWhole(s), id \notin Range(s.deviceRequestOrder[d])
  PROVE  FoundedWhole(RecordDeviceRequestID(s, d, id))
<1> DEFINE t == RecordDeviceRequestID(s, d, id)
<1> DEFINE fifo == Remember(s.deviceRequestOrder[d], id, MaxDeviceReplayIDs)
<1>1. /\ SameButOrders(s, t) /\ t.ownerRequestOrder = s.ownerRequestOrder
      /\ \A x \in Device : t.deviceRequestOrder[x] =
           IF x = d THEN fifo ELSE s.deviceRequestOrder[x]
  BY DeviceIDFields
<1>2. Len(fifo) <= MaxDeviceReplayIDs /\ Injective(fifo)
  BY RememberWhole, ControlStateFields, EnrollmentAssumption
     DEF FoundedWhole, OrdersWhole
<1> HIDE DEF t, fifo
<1>3. OrdersWhole(t)
  BY <1>1, <1>2 DEF FoundedWhole, OrdersWhole
<1>4. OwnerWhole(t) /\ ActivationsWhole(t) /\ BindingsWhole(t)
  BY <1>1 DEF FoundedWhole, OwnerWhole, ActivationsWhole, BindingsWhole, Bound,
              SameButOrders, SameDevices, SameActivations, SameBindings
<1> QED
  BY <1>3, <1>4 DEF FoundedWhole, t

\* Changing the activations.
LEMMA ActivationsChangeWhole ==
  ASSUME NEW s, NEW t, FoundedWhole(s), ActivationsWhole(t),
         SameButActivations(s, t)
  PROVE  FoundedWhole(t)
  BY DEF FoundedWhole, OwnerWhole, BindingsWhole, OrdersWhole, Bound,
         SameButActivations, SameDevices, SameBindings, SameOrders

LEMMA FewerActivationsWhole ==
  ASSUME NEW s, NEW t, ActivationsWhole(s), t.activations \subseteq s.activations
  PROVE  ActivationsWhole(t)
<1>1. /\ IsFiniteSet(t.activations)
      /\ Cardinality(t.activations) <= Cardinality(s.activations)
      /\ Cardinality(t.activations) \in Nat /\ Cardinality(s.activations) \in Nat
  BY FS_Subset, FS_CardinalityType DEF ActivationsWhole
<1> QED
  BY <1>1, EnrollmentAssumption DEF ActivationsWhole

LEMMA WithoutActivationWhole ==
  ASSUME NEW s \in ControlState, NEW a, FoundedWhole(s)
  PROVE  /\ FoundedWhole(WithoutActivation(s, a))
         /\ SameButActivations(s, WithoutActivation(s, a))
<1>1. /\ SameButActivations(s, WithoutActivation(s, a))
      /\ WithoutActivation(s, a).activations = s.activations \ {a}
  BY ActivationsFields DEF WithoutActivation
<1>2. ActivationsWhole(WithoutActivation(s, a))
  BY <1>1, FewerActivationsWhole DEF FoundedWhole
<1> QED
  BY <1>1, <1>2, ActivationsChangeWhole

LEMMA WithActivationWhole ==
  ASSUME NEW s \in ControlState, NEW a \in s.activations, NEW b,
         FoundedWhole(s), b.interval > 0, b.expiresAt > 0
  PROVE  FoundedWhole(WithActivation(s, a, b))
<1> DEFINE t == WithActivation(s, a, b)
<1> DEFINE rest == s.activations \ {a}
<1>1. SameButActivations(s, t) /\ t.activations = rest \cup {b}
  BY ActivationsFields DEF WithActivation
<1>2. /\ IsFiniteSet(s.activations) /\ Cardinality(s.activations) \in Nat
      /\ Cardinality(s.activations) <= PendingLimit
  BY FS_CardinalityType DEF FoundedWhole, ActivationsWhole
<1>3. /\ IsFiniteSet(rest)
      /\ Cardinality(rest) = Cardinality(s.activations) - 1
  BY <1>2, FS_RemoveElement
<1>4. /\ IsFiniteSet(rest \cup {b})
      /\ \/ Cardinality(rest \cup {b}) = Cardinality(rest)
         \/ Cardinality(rest \cup {b}) = Cardinality(rest) + 1
  BY <1>3, FS_AddElement
<1>5. Cardinality(rest \cup {b}) <= PendingLimit
  BY <1>2, <1>3, <1>4, EnrollmentAssumption
<1>6. ActivationsWhole(t)
  BY <1>1, <1>4, <1>5 DEF FoundedWhole, ActivationsWhole
<1> QED
  BY <1>1, <1>6, ActivationsChangeWhole

LEMMA NewActivationWhole ==
  ASSUME NEW s \in ControlState, NEW c, NEW d, now \in Nat, FoundedWhole(s),
         Cardinality(s.activations) < PendingLimit
  PROVE  FoundedWhole([s EXCEPT !.activations = @ \cup {NewActivation(c, d)}])
<1> DEFINE b == NewActivation(c, d)
<1> DEFINE t == [s EXCEPT !.activations = @ \cup {b}]
<1>1. SameButActivations(s, t) /\ t.activations = s.activations \cup {b}
  BY ActivationsFields
<1>2. b.interval > 0 /\ b.expiresAt > 0
  BY EnrollmentAssumption DEF NewActivation
<1> HIDE DEF b
<1>3. /\ IsFiniteSet(s.activations) /\ Cardinality(s.activations) \in Nat
  BY FS_CardinalityType DEF FoundedWhole, ActivationsWhole
<1>4. /\ IsFiniteSet(s.activations \cup {b})
      /\ \/ Cardinality(s.activations \cup {b}) = Cardinality(s.activations)
         \/ Cardinality(s.activations \cup {b}) = Cardinality(s.activations) + 1
  BY <1>3, FS_AddElement
<1>5. ActivationsWhole(t)
  BY <1>1, <1>2, <1>3, <1>4, EnrollmentAssumption
     DEF FoundedWhole, ActivationsWhole
<1>6. FoundedWhole(t)
  BY <1>1, <1>5, ActivationsChangeWhole
<1> QED
  BY <1>6 DEF b

LEMMA CodeWindowWhole ==
  ASSUME NEW s, NEW t, FoundedWhole(s), SameButCodeWindow(s, t)
  PROVE  FoundedWhole(t)
  BY DEF FoundedWhole, OwnerWhole, ActivationsWhole, BindingsWhole, OrdersWhole,
         Bound, SameButCodeWindow, SameDevices, SameActivations, SameBindings,
         SameOrders

\* Pruning: fewer activations, and empty windows for some devices.
LEMMA PruneWhole ==
  ASSUME mem \in ControlState, FoundedWhole(mem)
  PROVE  FoundedWhole(PruneExpiredState)
<1> DEFINE p == PruneExpiredState
<1>1. /\ SameDevices(mem, p) /\ SameBindings(mem, p)
      /\ p.activations \subseteq mem.activations
      /\ p.ownerRequestOrder = mem.ownerRequestOrder
      /\ \A d \in Device : p.deviceRequestOrder[d] =
           IF d \in StaleBuckets THEN <<>> ELSE mem.deviceRequestOrder[d]
  BY PruneFields
<1> HIDE DEF p
<1>2. ActivationsWhole(p)
  BY <1>1, FewerActivationsWhole DEF FoundedWhole
<1>3. OwnerWhole(p) /\ BindingsWhole(p)
  BY <1>1 DEF FoundedWhole, OwnerWhole, BindingsWhole, Bound, SameDevices,
              SameBindings
<1>4. Len(<<>>) <= MaxDeviceReplayIDs /\ Injective(<<>>)
  BY EnrollmentAssumption DEF Injective
<1>5. OrdersWhole(p)
  BY <1>1, <1>4 DEF FoundedWhole, OrdersWhole
<1> QED
  BY <1>2, <1>3, <1>5 DEF FoundedWhole, p

\* A device becomes active, its activation is used up.
LEMMA ActivatedWhole ==
  ASSUME mem \in ControlState, FoundedWhole(mem), NEW a \in mem.activations
  PROVE  FoundedWhole(Activated(a))
<1> DEFINE w == WithoutActivation(mem, a)
<1> DEFINE t == Activated(a)
<1>1. FoundedWhole(w) /\ SameButActivations(mem, w) /\ w \in ControlState
  BY WithoutActivationWhole DEF WithoutActivation, ControlState
<1>2. a.device \in Device /\ w.directoryVersion \in Nat
  BY <1>1, ControlStateFields DEF Activation
<1>3. t = [w EXCEPT !.device[a.device] = "active",
                    !.directoryVersion = w.directoryVersion + 1]
  BY DEF Activated
<1> HIDE DEF w, t
<1>4. /\ t.device = [w.device EXCEPT ![a.device] = "active"]
      /\ t.owner = w.owner
      /\ t.directoryVersion = w.directoryVersion + 1
      /\ t.grantVersion = w.grantVersion
      /\ SameActivations(w, t) /\ SameBindings(w, t) /\ SameOrders(w, t)
  BY <1>1, <1>3 DEF ControlState, SameActivations, SameBindings, SameOrders
<1>5. \A d \in Device : w.device[d] # "absent" => t.device[d] # "absent"
  BY <1>1, <1>4, ControlStateFields
<1>6. OwnerWhole(t)
  BY <1>1, <1>2, <1>4, ControlStateFields DEF FoundedWhole, OwnerWhole
<1>7. BindingsWhole(t)
  <2>1. \A b \in t.shellBindings : b.device \in Device
    BY <1>1, <1>4, ControlStateFields DEF SameBindings, Binding
  <2> QED
    BY <1>1, <1>4, <1>5, <2>1
       DEF FoundedWhole, BindingsWhole, Bound, SameBindings
<1>8. ActivationsWhole(t) /\ OrdersWhole(t)
  BY <1>1, <1>4 DEF FoundedWhole, ActivationsWhole, OrdersWhole,
                    SameActivations, SameOrders
<1> QED
  BY <1>6, <1>7, <1>8 DEF FoundedWhole, t

LEMMA FewerBindingsWhole ==
  ASSUME NEW s, NEW t, BindingsWhole(s), t.shellBindings \subseteq s.shellBindings,
         \A b \in t.shellBindings : t.device[b.device] # "absent"
  PROVE  BindingsWhole(t)
<1>1. /\ IsFiniteSet(t.shellBindings)
      /\ Cardinality(t.shellBindings) <= Cardinality(s.shellBindings)
      /\ Cardinality(t.shellBindings) \in Nat
      /\ Cardinality(s.shellBindings) \in Nat
  BY FS_Subset, FS_CardinalityType DEF BindingsWhole
<1>2. Cardinality(t.shellBindings) <= MaxShellBindings
  BY <1>1, EnrollmentAssumption DEF BindingsWhole
<1>3. \A b \in t.shellBindings : Bound(t, b.device, b.capability) = {b}
  BY DEF BindingsWhole, Bound
<1> QED
  BY <1>1, <1>2, <1>3 DEF BindingsWhole

\* A device is revoked, its bindings go.
LEMMA RevokedWhole ==
  ASSUME NEW s \in ControlState, NEW d \in Device, FoundedWhole(s), d # s.owner
  PROVE  FoundedWhole(Revoked(s, d))
<1> DEFINE t == Revoked(s, d)
<1> DEFINE kept == {b \in s.shellBindings : b.device # d}
<1>1. s.directoryVersion \in Nat /\ s.grantVersion \in Nat
  BY ControlStateFields
<1>2. t = [s EXCEPT !.device[d] = "revoked", !.shellBindings = kept,
                    !.directoryVersion = s.directoryVersion + 1,
                    !.grantVersion = s.grantVersion + 1]
  BY DEF Revoked
<1>3. kept \subseteq s.shellBindings
  OBVIOUS
<1> HIDE DEF t, kept
<1>4. /\ t.device = [s.device EXCEPT ![d] = "revoked"]
      /\ t.owner = s.owner /\ t.shellBindings = kept
      /\ t.directoryVersion = s.directoryVersion + 1
      /\ t.grantVersion = s.grantVersion + 1
      /\ SameActivations(s, t) /\ SameOrders(s, t)
  BY <1>2 DEF ControlState, SameActivations, SameOrders
<1>5. OwnerWhole(t)
  BY <1>1, <1>4, ControlStateFields DEF FoundedWhole, OwnerWhole
<1>6. BindingsWhole(t)
  <2>1. \A b \in t.shellBindings : b.device \in Device
    BY <1>3, <1>4, ControlStateFields DEF Binding
  <2>2. \A b \in t.shellBindings : t.device[b.device] # "absent"
    BY <1>3, <1>4, <2>1, ControlStateFields DEF FoundedWhole, BindingsWhole
  <2> QED
    BY <1>3, <1>4, <2>2, FewerBindingsWhole DEF FoundedWhole
<1>7. ActivationsWhole(t) /\ OrdersWhole(t)
  BY <1>4 DEF FoundedWhole, ActivationsWhole, OrdersWhole, SameActivations,
              SameOrders
<1> QED
  BY <1>5, <1>6, <1>7 DEF FoundedWhole, t

\* A new binding takes the place of the one of its Capability, or a free one.
LEMMA PublishedWhole ==
  ASSUME NEW s \in ControlState, FoundedWhole(s), SameBindings(mem, s),
         NEW b \in Binding, s.device[b.device] = "active", ~PublishRefused(b),
         b \notin Bound(mem, b.device, b.capability)
  PROVE  LET old == Bound(mem, b.device, b.capability)
         IN  FoundedWhole([s EXCEPT !.shellBindings = (@ \ old) \cup {b},
                                    !.directoryVersion = @ + 1])
<1> DEFINE old == Bound(mem, b.device, b.capability)
<1> DEFINE rest == s.shellBindings \ old
<1> DEFINE bound == rest \cup {b}
<1> DEFINE t == [s EXCEPT !.shellBindings = bound,
                          !.directoryVersion = s.directoryVersion + 1]
<1>1. s.directoryVersion \in Nat /\ s.shellBindings \subseteq Binding
  BY ControlStateFields
<1>2. /\ IsFiniteSet(s.shellBindings) /\ Cardinality(s.shellBindings) \in Nat
      /\ Cardinality(s.shellBindings) <= MaxShellBindings
  BY FS_CardinalityType DEF FoundedWhole, BindingsWhole
<1>3. IsFiniteSet(rest)
  BY <1>2, FS_Difference
<1>4. /\ IsFiniteSet(bound) /\ Cardinality(rest) \in Nat
      /\ \/ Cardinality(bound) = Cardinality(rest)
         \/ Cardinality(bound) = Cardinality(rest) + 1
  BY <1>3, FS_AddElement, FS_CardinalityType
<1>5. Cardinality(rest) + 1 <= MaxShellBindings
  <2>1. CASE old = {}
    <3>1. rest = s.shellBindings
      BY <2>1
    <3>2. Cardinality(s.shellBindings) < MaxShellBindings
      BY <1>2, <2>1, EnrollmentAssumption DEF PublishRefused, SameBindings
    <3> QED
      BY <1>2, <3>1, <3>2, EnrollmentAssumption
  <2>2. ASSUME NEW o \in old
        PROVE  Cardinality(rest) + 1 <= MaxShellBindings
    <3>1. o \in s.shellBindings /\ rest \subseteq s.shellBindings \ {o}
      BY DEF Bound, SameBindings
    <3>2. /\ IsFiniteSet(s.shellBindings \ {o})
          /\ Cardinality(s.shellBindings \ {o})
               = Cardinality(s.shellBindings) - 1
      BY <1>2, <3>1, FS_RemoveElement
    <3>3. Cardinality(rest) <= Cardinality(s.shellBindings \ {o})
      BY <3>1, <3>2, FS_Subset
    <3> QED
      BY <1>2, <1>4, <3>2, <3>3, EnrollmentAssumption
  <2> QED
    BY <2>1, <2>2
<1>6. Cardinality(bound) <= MaxShellBindings
  BY <1>4, <1>5, EnrollmentAssumption
<1>7. /\ \A x \in bound : s.device[x.device] # "absent"
      /\ \A x \in bound : {y \in bound : y.device = x.device
                                         /\ y.capability = x.capability} = {x}
  <2>1. \A x \in rest : {y \in s.shellBindings :
                           y.device = x.device /\ y.capability = x.capability}
                          = {x}
    BY DEF FoundedWhole, BindingsWhole, Bound
  <2>2. \A x \in rest : x.device # b.device \/ x.capability # b.capability
    BY DEF Bound, SameBindings
  <2>3. ASSUME NEW x \in rest
        PROVE  {y \in bound : y.device = x.device
                              /\ y.capability = x.capability} = {x}
    BY <2>1, <2>2
  <2>4. {y \in bound : y.device = b.device /\ y.capability = b.capability} = {b}
    BY <2>2
  <2>5. \A x \in rest : s.device[x.device] # "absent"
    BY DEF FoundedWhole, BindingsWhole
  <2> QED
    BY <2>3, <2>4, <2>5
<1>8. [s EXCEPT !.shellBindings = (@ \ old) \cup {b},
                !.directoryVersion = @ + 1] = t
  OBVIOUS
<1> HIDE DEF bound, rest, old
<1>9. /\ t.device = s.device /\ t.owner = s.owner
      /\ t.directoryVersion = s.directoryVersion + 1
      /\ t.grantVersion = s.grantVersion
      /\ t.shellBindings = bound
      /\ SameActivations(s, t) /\ SameOrders(s, t)
  BY DEF ControlState, SameActivations, SameOrders
<1> HIDE DEF t
<1>10. BindingsWhole(t)
  BY <1>4, <1>6, <1>7, <1>9 DEF BindingsWhole, Bound
<1>11. OwnerWhole(t) /\ ActivationsWhole(t) /\ OrdersWhole(t)
  BY <1>1, <1>9 DEF FoundedWhole, OwnerWhole, ActivationsWhole, OrdersWhole,
                    SameActivations, SameOrders
<1> QED
  BY <1>8, <1>10, <1>11 DEF FoundedWhole, old

LEMMA ReadyWhole ==
  ASSUME IInv, Whole(payload), Healthy, mem.owner # NoDevice
  PROVE  /\ FoundedWhole(mem) /\ mem \in ControlState
         /\ Sound(mem, issued) /\ now \in Nat
<1>1. mem = payload /\ Sound(mem, issued) /\ now \in Nat
  BY DEF IInv, TypeOK, MemoryIsDurable
<1> QED
  BY <1>1, WholeParts DEF Sound

LEMMA EndsWhole ==
  ASSUME IInv', Whole(payload), NEW S, NEW last, EndsIn(S, last),
         \A t \in S : FoundedWhole(t)
  PROVE  Whole(payload)'
<1>1. CASE payload' = payload
  BY <1>1 DEF Whole, RestorableContent, Bound, Blank
<1>2. CASE payload' \in S
  <2>1. Sound(payload', issued')
    BY DEF IInv
  <2>2. Whole(payload')
    BY <1>2, <2>1, WholeParts
  <2> QED
    BY <2>2
<1> QED
  BY <1>1, <1>2 DEF EndsIn

LEMMA PersistWhole ==
  ASSUME IInv', Whole(payload), NEW r, NEW s, NEW t, FoundedWhole(t)
  PROVE  /\ Persist(<<t>>) => Whole(payload)'
         /\ FoundedWhole(s) /\ Persist(<<s, t>>) => Whole(payload)'
         /\ FoundedWhole(r) /\ FoundedWhole(s) /\ Persist(<<r, s, t>>)
              => Whole(payload)'
<1>1. ASSUME Persist(<<t>>)
      PROVE  Whole(payload)'
  <2>1. EndsIn({t}, t)
    BY <1>1, OneEnds DEF Persist
  <2> QED
    BY <2>1, EndsWhole
<1>2. ASSUME FoundedWhole(s), Persist(<<s, t>>)
      PROVE  Whole(payload)'
  <2>1. EndsIn({s, t}, t)
    BY <1>2, TwoEnd DEF Persist
  <2>2. \A x \in {s, t} : FoundedWhole(x)
    BY <1>2
  <2> QED
    BY <2>1, <2>2, EndsWhole
<1>3. ASSUME FoundedWhole(r), FoundedWhole(s), Persist(<<r, s, t>>)
      PROVE  Whole(payload)'
  <2>1. EndsIn({r, s, t}, t)
    BY <1>3, ThreeEnd DEF Persist
  <2>2. \A x \in {r, s, t} : FoundedWhole(x)
    BY <1>3
  <2> QED
    BY <2>1, <2>2, EndsWhole
<1> QED
  BY <1>1, <1>2, <1>3

LEMMA StatusWhole ==
  ASSUME IInv', Whole(payload), NEW s, NEW t, FoundedWhole(t), NEW d, NEW status
  PROVE  /\ PersistDeviceStatus(<<t>>, d, status) => Whole(payload)'
         /\ FoundedWhole(s) /\ PersistDeviceStatus(<<s, t>>, d, status)
              => Whole(payload)'
<1>1. ASSUME PersistDeviceStatus(<<t>>, d, status)
      PROVE  Whole(payload)'
  <2>1. EndsIn({t}, t)
    BY <1>1, StatusEnds
  <2> QED
    BY <2>1, EndsWhole
<1>2. ASSUME FoundedWhole(s), PersistDeviceStatus(<<s, t>>, d, status)
      PROVE  Whole(payload)'
  <2>1. EndsIn({s, t}, t)
    BY <1>2, StatusEnds
  <2>2. \A x \in {s, t} : FoundedWhole(x)
    BY <1>2
  <2> QED
    BY <2>1, <2>2, EndsWhole
<1> QED
  BY <1>1, <1>2

LEMMA InitializeOwnerWhole ==
  ASSUME IInv, IInv', Whole(payload), NEW o \in Device, InitializeOwner(o)
  PROVE  Whole(payload)'
<1> DEFINE s == [mem EXCEPT !.owner = o, !.device[o] = "active",
                            !.directoryVersion = 1, !.grantVersion = 1]
<1>1. /\ Healthy /\ mem.owner = NoDevice /\ mem = payload
      /\ PersistDeviceStatus(<<s>>, o, "active")
      /\ mem \in ControlState
  BY DEF InitializeOwner, IInv, MemoryIsDurable, TypeOK
<1>2. /\ ActivationsWhole(mem) /\ OrdersWhole(mem)
      /\ mem.device = Blank.device /\ mem.shellBindings = {}
  BY <1>1 DEF Whole, RestorableContent, ActivationsWhole, OrdersWhole, Injective
<1>3. /\ s.owner = o /\ s.device = [mem.device EXCEPT ![o] = "active"]
      /\ s.directoryVersion = 1 /\ s.grantVersion = 1
      /\ SameActivations(mem, s) /\ SameBindings(mem, s) /\ SameOrders(mem, s)
  BY <1>1 DEF ControlState, SameActivations, SameBindings, SameOrders
<1> HIDE DEF s
<1>4. OwnerWhole(s)
  BY <1>1, <1>3, ControlStateFields, EnrollmentAssumption DEF OwnerWhole
<1>5. BindingsWhole(s)
  BY <1>2, <1>3, FS_EmptySet, EnrollmentAssumption
     DEF BindingsWhole, SameBindings
<1>6. ActivationsWhole(s) /\ OrdersWhole(s)
  BY <1>2, <1>3 DEF ActivationsWhole, OrdersWhole, SameActivations, SameOrders
<1>7. FoundedWhole(s)
  BY <1>4, <1>5, <1>6 DEF FoundedWhole
<1> QED
  BY <1>1, <1>7, StatusWhole

LEMMA BeginWhole ==
  ASSUME IInv, IInv', Whole(payload), NEW d \in Device, NEW id \in RequestId,
         BeginDeviceAuthorization(d, id)
  PROVE  Whole(payload)'
<1> DEFINE p == PruneExpiredState
<1> DEFINE marked == RecordDeviceRequestID(p, d, id)
<1> DEFINE full(c) == [marked EXCEPT !.activations =
                         @ \cup {NewActivation(c, d)}]
<1>1. /\ FoundedWhole(mem) /\ mem \in ControlState /\ now \in Nat
      /\ Sound(mem, issued)
  BY ReadyWhole DEF BeginDeviceAuthorization, Ready
<1>2. FoundedWhole(p) /\ Sound(p, issued)
  BY <1>1, PruneWhole, PruneSound
<1>3. \/ Persist(<<p>>)
      \/ /\ id \notin Range(p.deviceRequestOrder[d])
         /\ ~(Cardinality(p.activations) >= PendingLimit)
         /\ \/ Persist(<<p, marked>>)
            \/ \E c \in Code \ issued : Persist(<<p, marked, full(c)>>)
  BY DEF BeginDeviceAuthorization, BeginRefused
<1> HIDE DEF p
<1>4. CASE Persist(<<p>>)
  BY <1>2, <1>4, PersistWhole
<1>5. ASSUME id \notin Range(p.deviceRequestOrder[d])
      PROVE  /\ FoundedWhole(marked) /\ Sound(marked, issued)
             /\ marked.activations = p.activations
  BY <1>2, <1>5, DeviceIDWhole, RecordDeviceSound DEF Sound
<1>6. CASE /\ id \notin Range(p.deviceRequestOrder[d])
           /\ Persist(<<p, marked>>)
  <2>1. FoundedWhole(marked)
    BY <1>5, <1>6
  <2> HIDE DEF marked
  <2> QED
    BY <1>2, <1>6, <2>1, PersistWhole
<1>7. ASSUME NEW c \in Code \ issued,
             id \notin Range(p.deviceRequestOrder[d]),
             ~(Cardinality(p.activations) >= PendingLimit),
             Persist(<<p, marked, full(c)>>)
      PROVE  Whole(payload)'
  <2>2. Cardinality(p.activations) \in Nat
    BY <1>2, FS_CardinalityType DEF FoundedWhole, ActivationsWhole
  <2>3. Cardinality(p.activations) < PendingLimit
    BY <1>7, <2>2, EnrollmentAssumption
  <2> HIDE DEF marked
  <2>4. FoundedWhole(full(c))
    BY <1>1, <1>5, <1>7, <2>3, NewActivationWhole DEF Sound
  <2>5. FoundedWhole(marked)
    BY <1>5, <1>7
  <2> HIDE DEF full
  <2> QED
    BY <1>2, <1>7, <2>4, <2>5, PersistWhole
<1> QED
  BY <1>3, <1>4, <1>6, <1>7

LEMMA ApproveWhole ==
  ASSUME IInv, IInv', Whole(payload), NEW id \in RequestId, NEW c \in Code,
         ApproveDevice(id, c)
  PROVE  Whole(payload)'
<1> DEFINE r == RecordOwnerRequestID(mem, id)
<1> DEFINE s == OpenCodeWindow(r)
<1> DEFINE wrong == [s EXCEPT !.failedCodeAttempts = @ + 1]
<1> DEFINE approved(a) == [a EXCEPT !.status = "approved"]
<1> DEFINE approval(a) == WithActivation(s, a, approved(a))
<1>1. /\ FoundedWhole(mem) /\ mem \in ControlState /\ now \in Nat
      /\ Sound(mem, issued) /\ id \notin Range(mem.ownerRequestOrder)
  BY ReadyWhole DEF ApproveDevice, OwnerAction, Ready
<1>2. /\ FoundedWhole(r) /\ Sound(r, issued)
      /\ r.activations = mem.activations
  BY <1>1, OwnerIDWhole, RecordOwnerSound
<1> HIDE DEF r
<1>3. /\ FoundedWhole(s) /\ Sound(s, issued)
      /\ s.activations = mem.activations
  <2>1. r \in ControlState
    BY <1>2 DEF Sound
  <2>2. Sound(s, issued) /\ s.activations = r.activations
    BY <1>1, <1>2, CodeWindowSound
  <2>3. SameButCodeWindow(r, s)
    BY <2>1, CodeWindowFields
  <2> HIDE DEF s
  <2>4. FoundedWhole(s)
    BY <1>2, <2>3, CodeWindowWhole
  <2> QED
    BY <1>2, <2>2, <2>4
<1>4. FoundedWhole(wrong)
  BY <1>3, CodeWindowFields, CodeWindowWhole DEF Sound
<1>5. \/ Persist(<<s>>)
      \/ Persist(<<s, wrong>>)
      \/ \E a \in mem.activations :
           \/ Persist(<<s, WithoutActivation(s, a)>>)
           \/ Persist(<<s, approval(a)>>)
  BY DEF ApproveDevice, r
<1> HIDE DEF s, wrong
<1>6. CASE Persist(<<s>>)
  BY <1>3, <1>6, PersistWhole
<1>7. CASE Persist(<<s, wrong>>)
  BY <1>3, <1>4, <1>7, PersistWhole
<1>8. ASSUME NEW a \in mem.activations,
             Persist(<<s, WithoutActivation(s, a)>>)
      PROVE  Whole(payload)'
  <2>1. FoundedWhole(WithoutActivation(s, a))
    BY <1>3, WithoutActivationWhole DEF Sound
  <2> QED
    BY <1>3, <1>8, <2>1, PersistWhole
<1>9. ASSUME NEW a \in mem.activations, Persist(<<s, approval(a)>>)
      PROVE  Whole(payload)'
  <2>1. /\ a \in Activation /\ a \in s.activations
        /\ a.interval > 0 /\ a.expiresAt > 0
    BY <1>1, <1>3, ControlStateFields DEF FoundedWhole, ActivationsWhole
  <2>2. approved(a).interval > 0 /\ approved(a).expiresAt > 0
    BY <2>1 DEF Activation
  <2>3. FoundedWhole(approval(a))
    BY <1>3, <2>1, <2>2, WithActivationWhole DEF Sound
  <2> HIDE DEF approval
  <2> QED
    BY <1>3, <1>9, <2>3, PersistWhole
<1> QED
  BY <1>5, <1>6, <1>7, <1>8, <1>9

LEMMA PollWhole ==
  ASSUME IInv, IInv', Whole(payload), NEW a \in mem.activations, PollDevice(a)
  PROVE  Whole(payload)'
<1> DEFINE slow == [a EXCEPT !.interval = @ + PollingInterval, !.lastPoll = now]
<1> DEFINE polled == [a EXCEPT !.lastPoll = now]
<1>1. FoundedWhole(mem) /\ mem \in ControlState
  BY ReadyWhole DEF PollDevice, Ready
<1>2. a \in Activation /\ a.interval > 0 /\ a.expiresAt > 0
  BY <1>1, ControlStateFields DEF FoundedWhole, ActivationsWhole
<1>3. /\ slow.interval > 0 /\ slow.expiresAt > 0
      /\ polled.interval > 0 /\ polled.expiresAt > 0
  BY <1>2, EnrollmentAssumption DEF Activation
<1> HIDE DEF slow, polled
<1>4. /\ FoundedWhole(WithoutActivation(mem, a))
      /\ FoundedWhole(WithActivation(mem, a, slow))
      /\ FoundedWhole(WithActivation(mem, a, polled))
      /\ FoundedWhole(Activated(a))
  BY <1>1, <1>3, WithoutActivationWhole, WithActivationWhole, ActivatedWhole
<1>5. \/ Persist(<<WithoutActivation(mem, a)>>)
      \/ Persist(<<WithActivation(mem, a, slow)>>)
      \/ Persist(<<WithActivation(mem, a, polled)>>)
      \/ PersistDeviceStatus(<<Activated(a)>>, a.device, "active")
  BY DEF PollDevice, slow, polled
<1> QED
  BY <1>4, <1>5, PersistWhole, StatusWhole

LEMMA RevokeWhole ==
  ASSUME IInv, IInv', Whole(payload), NEW d \in Device, NEW id \in RequestId,
         RevokeDevice(d, id)
  PROVE  Whole(payload)'
<1> DEFINE s == RecordOwnerRequestID(mem, id)
<1>1. /\ FoundedWhole(mem) /\ mem \in ControlState /\ Sound(mem, issued)
      /\ id \notin Range(mem.ownerRequestOrder)
  BY ReadyWhole DEF RevokeDevice, OwnerAction, Ready
<1>2. FoundedWhole(s) /\ SameDevices(mem, s) /\ s \in ControlState
  BY <1>1, OwnerIDWhole, OwnerIDFields, RecordOwnerSound
     DEF SameButOrders, Sound
<1>3. \/ Persist(<<s>>)
      \/ /\ d # mem.owner
         /\ PersistDeviceStatus(<<s, Revoked(s, d)>>, d, "revoked")
  BY DEF RevokeDevice
<1> HIDE DEF s
<1>4. CASE Persist(<<s>>)
  BY <1>2, <1>4, PersistWhole
<1>5. CASE /\ d # mem.owner
           /\ PersistDeviceStatus(<<s, Revoked(s, d)>>, d, "revoked")
  <2>1. FoundedWhole(Revoked(s, d))
    BY <1>2, <1>5, RevokedWhole DEF SameDevices
  <2> QED
    BY <1>2, <1>5, <2>1, StatusWhole
<1> QED
  BY <1>3, <1>4, <1>5

\* A device whose request only records its ID.
LEMMA DeviceRecordWhole ==
  ASSUME IInv, IInv', Whole(payload), Healthy, NEW d \in Device,
         NEW id \in RequestId, mem.device[d] = "active",
         id \notin Range(mem.deviceRequestOrder[d])
  PROVE  LET s == RecordDeviceRequestID(mem, d, id)
         IN  /\ FoundedWhole(s) /\ s \in ControlState
             /\ SameDevices(mem, s) /\ SameBindings(mem, s)
             /\ Persist(<<s>>) \/ Persist(<<s, s>>) => Whole(payload)'
<1> DEFINE s == RecordDeviceRequestID(mem, d, id)
<1>1. mem.owner # NoDevice
  BY DEF IInv, MemoryIsDurable, Whole, RestorableContent, Blank
<1>2. FoundedWhole(mem) /\ mem \in ControlState /\ Sound(mem, issued)
  BY <1>1, ReadyWhole
<1>3. /\ FoundedWhole(s) /\ s \in ControlState
      /\ SameDevices(mem, s) /\ SameBindings(mem, s)
  BY <1>2, DeviceIDWhole, DeviceIDFields, RecordDeviceSound
     DEF SameButOrders, Sound
<1> HIDE DEF s
<1>4. ASSUME Persist(<<s>>) \/ Persist(<<s, s>>)
      PROVE  Whole(payload)'
  BY <1>3, <1>4, PersistWhole
<1> QED
  BY <1>3, <1>4 DEF s

LEMMA PublishWhole ==
  ASSUME IInv, IInv', Whole(payload), NEW b \in Binding, NEW id \in RequestId,
         PublishShellCapability(b, id)
  PROVE  Whole(payload)'
<1> DEFINE s == RecordDeviceRequestID(mem, b.device, id)
<1> DEFINE old == Bound(mem, b.device, b.capability)
<1> DEFINE t == [s EXCEPT !.shellBindings = (@ \ old) \cup {b},
                          !.directoryVersion = @ + 1]
<1>1. /\ Healthy /\ b.device \in Device /\ mem.device[b.device] = "active"
      /\ id \notin Range(mem.deviceRequestOrder[b.device])
  BY DEF PublishShellCapability, Ready, Binding
<1>2. /\ FoundedWhole(s) /\ s \in ControlState
      /\ SameDevices(mem, s) /\ SameBindings(mem, s)
      /\ Persist(<<s>>) => Whole(payload)'
  BY <1>1, DeviceRecordWhole
<1>3. \/ UNCHANGED payload
      \/ Persist(<<s>>)
      \/ ~PublishRefused(b) /\ b \notin old /\ Persist(<<t>>)
  BY DEF PublishShellCapability, durable
<1> HIDE DEF s
<1>4. CASE UNCHANGED payload
  BY <1>4 DEF Whole, RestorableContent, Bound, Blank
<1>5. CASE ~PublishRefused(b) /\ b \notin old /\ Persist(<<t>>)
  <2>1. FoundedWhole(t)
    BY <1>1, <1>2, <1>5, PublishedWhole DEF SameDevices
  <2> HIDE DEF t
  <2> QED
    BY <1>5, <2>1, PersistWhole
<1> QED
  BY <1>2, <1>3, <1>4, <1>5

LEMMA ListWhole ==
  ASSUME IInv, IInv', Whole(payload), NEW id \in RequestId,
         ListShellCapabilities(id)
  PROVE  Whole(payload)'
<1> DEFINE s == RecordOwnerRequestID(mem, id)
<1>1. /\ FoundedWhole(mem) /\ mem \in ControlState
      /\ id \notin Range(mem.ownerRequestOrder) /\ Persist(<<s>>)
  BY ReadyWhole DEF ListShellCapabilities, OwnerAction, Ready
<1>2. FoundedWhole(s)
  BY <1>1, OwnerIDWhole
<1> HIDE DEF s
<1> QED
  BY <1>1, <1>2, PersistWhole

LEMMA RestartWhole ==
  ASSUME IInv, IInv', Whole(payload), Restart
  PROVE  Whole(payload)'
<1> DEFINE p == DropExpired(payload)
<1>1. payload' = p /\ payload \in ControlState
  BY DEF Restart, IInv, TypeOK
<1>2. /\ SameButActivations(payload, p)
      /\ p.activations \subseteq payload.activations
  BY <1>1, ActivationsFields DEF DropExpired
<1> HIDE DEF p
<1>3. ActivationsWhole(payload)
  BY DEF Whole, RestorableContent, ActivationsWhole
<1>4. ActivationsWhole(p)
  BY <1>2, <1>3, FewerActivationsWhole
<1>5. RestorableContent(p)
  BY <1>2, <1>4
     DEF Whole, RestorableContent, ActivationsWhole, Bound, Blank,
         SameButActivations, SameDevices, SameBindings, SameOrders
<1>6. Whole(p)
  BY <1>2, <1>4, <1>5
     DEF Whole, ActivationsWhole, SameButActivations, SameBindings
<1> QED
  BY <1>1, <1>6

LEMMA InitWhole == Init => Whole(payload)
<1> SUFFICES ASSUME Init PROVE Whole(payload)
  OBVIOUS
<1>1. payload = Blank
  BY DEF Init
<1>2. Len(<<>>) = 0 /\ Injective(<<>>)
  BY DEF Injective
<1>3. IsFiniteSet({}) /\ Cardinality({}) = 0
  BY FS_EmptySet
<1> QED
  BY <1>1, <1>2, <1>3, EnrollmentAssumption DEF Whole, RestorableContent, Blank

LEMMA NextWhole ==
  IInv /\ IInv' /\ Whole(payload) /\ [Next]_vars => Whole(payload)'
<1> SUFFICES ASSUME IInv, IInv', Whole(payload), [Next]_vars
             PROVE  Whole(payload)'
  OBVIOUS
<1>1. ASSUME NEW d \in Device, NEW id \in RequestId,
             SyncVersion(d, id) \/ SyncUpdates(d, id)
      PROVE  Whole(payload)'
  <2> DEFINE s == RecordDeviceRequestID(mem, d, id)
  <2>1. /\ Healthy /\ mem.device[d] = "active"
        /\ id \notin Range(mem.deviceRequestOrder[d])
        /\ Persist(<<s>>) \/ Persist(<<s, s>>)
    BY <1>1 DEF SyncVersion, SyncUpdates, Ready
  <2> QED
    BY <2>1, DeviceRecordWhole
<1>2. ASSUME NEW d \in Device, NEW cap \in Capability,
             NEW v \in 1..MaxBindingVersion, NEW k \in HostKeys,
             NEW id \in RequestId,
             PublishShellCapability(
               [device |-> d, capability |-> cap, version |-> v, keys |-> k],
               id)
      PROVE  Whole(payload)'
  <2> DEFINE b == [device |-> d, capability |-> cap, version |-> v, keys |-> k]
  <2>1. b \in Binding
    BY EnrollmentAssumption DEF Binding
  <2> HIDE DEF b
  <2>2. PublishShellCapability(b, id)
    BY <1>2 DEF b
  <2> QED
    BY <2>1, <2>2, PublishWhole
<1>3. CASE Crash \/ Tick \/ UNCHANGED vars
  <2>1. UNCHANGED payload
    BY <1>3 DEF Crash, Tick, durable, vars
  <2> QED
    BY <2>1 DEF Whole, RestorableContent, Bound, Blank
<1> QED
  BY <1>1, <1>2, <1>3, InitializeOwnerWhole, BeginWhole, ApproveWhole,
     PollWhole, RevokeWhole, ListWhole, RestartWhole DEF Next

\* Whatever was saved passes the checks of restore, except its limit on
\* request-ID buckets, at the next start, for every value of the limits.
THEOREM SavedRestores == Spec => []SavedContentRestores
<1>1. Init => IInv /\ Whole(payload)
  BY InitIInv, InitWhole
<1>2. IInv /\ Whole(payload) /\ [Next]_vars => (IInv /\ Whole(payload))'
  BY NextIInv, NextWhole
<1>3. IInv /\ Whole(payload) => SavedContentRestores
  BY DEF Whole, SavedContentRestores
<1> QED
  BY <1>1, <1>2, <1>3, PTL DEF Spec

=============================================================================
