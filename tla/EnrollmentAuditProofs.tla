------------------------ MODULE EnrollmentAuditProofs ------------------------
(***************************************************************************)
(* What clients of the Gateway were told stays true: proofs of the         *)
(* properties of EnrollmentAudit, for every value of the constants, the    *)
(* sizes of the windows of request IDs included.                           *)
(*                                                                         *)
(* Each property has an invariant that relates the answers to the saved    *)
(* payload.  A handler that has answered has saved its last record; one    *)
(* that has not left memory and payload at some record it saved, or the    *)
(* payload as it was (EndsIn).  So it is enough to know what each of the   *)
(* records that a handler saves has to do with the one it started from.    *)
(***************************************************************************)
EXTENDS EnrollmentAudit, EnrollmentProofs

\* Versions that were told are not ahead of the payload; the payload's own
\* version stands for its directory.
ToldInv ==
  /\ ToldVersionsStand
  /\ \A x \in told : /\ x[1] \in Nat
                     /\ x[1] = payload.directoryVersion
                          => x = <<x[1], Directory(payload)>>

\* Nothing in s can make d active without the Owner's approval.
Clean(s, d) ==
  /\ s.device[d] # "active"
  /\ \A x \in Approvals(s) : x[2] # d

RevokedInv ==
  /\ revokedFor \subseteq Device
  /\ payload.owner = NoDevice => revokedFor = {}
  /\ \A d \in revokedFor : Clean(mem, d) /\ Clean(payload, d)

\* Wrong codes are counted in the payload before they are answered.
CodesInv ==
  /\ wrongCodes \in [1..MaxTime -> Nat]
  /\ payload.failedCodeWindow <= now
  /\ \A t \in 1..MaxTime :
       /\ wrongCodes[t] <= MaxFailedCodes
       /\ t > payload.failedCodeWindow => wrongCodes[t] = 0
       /\ t = payload.failedCodeWindow
            => wrongCodes[t] <= payload.failedCodeAttempts

\* Each answered ID is remembered, no further from the end than its age.
InWindow(answers, order) ==
  \A x \in answers : \E i \in 1..Len(order) : /\ order[i] = x[1]
                                              /\ Len(order) - i <= x[2]

WindowsInv ==
  /\ ~repeated
  /\ ownerAnswered \subseteq RequestId \X Nat
  /\ deviceAnswered \in [Device -> SUBSET (RequestId \X Nat)]
  /\ InWindow(ownerAnswered, payload.ownerRequestOrder)
  /\ \A d \in Device :
       InWindow(deviceAnswered[d], payload.deviceRequestOrder[d])

AuditInv == ToldInv /\ RevokedInv /\ CodesInv /\ WindowsInv

-----------------------------------------------------------------------------
(* A step of EnrollmentAudit is one of Enrollment.                         *)

LEMMA AuditIsEnrollment ==
  ASSUME [AuditNext]_<<vars, history>>
  PROVE  [Next]_vars
  BY DEF AuditNext, Next, AuditInitialize, AuditBegin, AuditApprove, AuditPoll,
         AuditRevoke, AuditSync, AuditUpdates, AuditPublish, AuditList

\* A handler that has answered has saved what it has in memory.
LEMMA AnsweredIsSaved ==
  ASSUME IInv', up', Answered
  PROVE  mem' = payload'
  BY DEF Answered, IInv, MemoryIsDurable, Healthy

\* Memory is what was saved, when a handler begins.
LEMMA HealthyMemory ==
  ASSUME IInv, Healthy
  PROVE  mem = payload /\ Sound(mem, issued) /\ mem \in ControlState /\ now \in Nat
  BY DEF IInv, TypeOK, MemoryIsDurable, Sound

-----------------------------------------------------------------------------
(* Versions that were told.                                                *)

LEMMA PromisedVersion ==
  ASSUME IInv, IInv', Promised(payload, payload')
  PROVE  /\ payload.directoryVersion \in Nat /\ payload'.directoryVersion \in Nat
         /\ \/ payload'.directoryVersion > payload.directoryVersion
            \/ /\ payload'.directoryVersion = payload.directoryVersion
               /\ Directory(payload') = Directory(payload)
<1>1. /\ payload.directoryVersion \in Nat /\ payload'.directoryVersion \in Nat
      /\ payload.owner = NoDevice => payload.directoryVersion = 0
  BY ControlStateFields DEF IInv, Sound
<1>2. CASE Quiet(payload, payload')
  BY <1>1, <1>2 DEF Quiet, Directory
<1>3. CASE \E d \in Device : \/ Founds(payload, payload', d)
                             \/ Revokes(payload, payload', d)
                             \/ Publishes(payload, payload', d)
  BY <1>1, <1>3 DEF Founds, Revokes, Publishes
<1>4. CASE \E a \in payload.activations : \/ Approves(payload, payload', a)
                                          \/ Activates(payload, payload', a)
  BY <1>1, <1>4 DEF Approves, Activates, Directory
<1> QED
  BY <1>2, <1>3, <1>4 DEF Promised

\* A handler leaves the process up.
LEMMA OwnerStaysUp ==
  ASSUME NEW id
  PROVE  /\ \A c : ApproveDevice(id, c) => Healthy /\ up'
         /\ \A d : RevokeDevice(d, id) => Healthy /\ up'
         /\ ListShellCapabilities(id) => Healthy /\ up'
<1>1. \A c : ApproveDevice(id, c) => OwnerAction(id) /\ up' = up
  BY DEF ApproveDevice
<1>2. \A d : RevokeDevice(d, id) => OwnerAction(id) /\ up' = up
  BY DEF RevokeDevice
<1>3. ListShellCapabilities(id) => OwnerAction(id) /\ up' = up
  BY DEF ListShellCapabilities
<1> QED
  BY <1>1, <1>2, <1>3 DEF OwnerAction, Ready, Healthy

LEMMA DeviceStaysUp ==
  ASSUME NEW d, NEW id
  PROVE  /\ BeginDeviceAuthorization(d, id) => Healthy /\ up'
         /\ SyncVersion(d, id) => Healthy /\ up'
         /\ SyncUpdates(d, id) => Healthy /\ up'
         /\ PublishShellCapability(d, id) => Healthy /\ up'
<1>1. BeginDeviceAuthorization(d, id) => Ready /\ up' = up
  BY DEF BeginDeviceAuthorization
<1>2. SyncVersion(d, id) => Ready /\ up' = up
  BY DEF SyncVersion
<1>3. SyncUpdates(d, id) => Healthy /\ up' = up
  BY DEF SyncUpdates
<1>4. PublishShellCapability(d, id) => Ready /\ up' = up
  BY DEF PublishShellCapability
<1> QED
  BY <1>1, <1>2, <1>3, <1>4 DEF Ready, Healthy

LEMMA UnsignedStaysUp ==
  ASSUME NEW o
  PROVE  /\ InitializeOwner(o) => Healthy /\ up'
         /\ PollDevice(o) => Healthy /\ up'
<1>1. InitializeOwner(o) => Healthy /\ up' = up
  BY DEF InitializeOwner
<1>2. PollDevice(o) => Ready /\ up' = up
  BY DEF PollDevice
<1> QED
  BY <1>1, <1>2 DEF Ready, Healthy

\* Only what is in memory is told, when everything has been saved.
MayTell ==
  \/ told' = told
  \/ /\ Answered /\ up'
     /\ told' = told \cup {<<mem'.directoryVersion, Directory(mem')>>}

LEMMA TellStep ==
  ASSUME AuditNext
  PROVE  MayTell
<1>1. ASSUME NEW o \in Device, AuditInitialize(o)
      PROVE  MayTell
  BY <1>1, UnsignedStaysUp DEF AuditInitialize, Tells, MayTell
<1>2. ASSUME NEW d \in Device, NEW id \in RequestId,
             AuditBegin(d, id) \/ AuditUpdates(d, id)
      PROVE  MayTell
  BY <1>2 DEF AuditBegin, AuditUpdates, MayTell
<1>3. ASSUME NEW d \in Device, NEW id \in RequestId, AuditRevoke(d, id)
      PROVE  MayTell
  BY <1>3, OwnerStaysUp DEF AuditRevoke, Tells, MayTell
<1>4. ASSUME NEW d \in Device, NEW id \in RequestId, AuditSync(d, id)
      PROVE  MayTell
  BY <1>4, DeviceStaysUp DEF AuditSync, Tells, MayTell
<1>5. ASSUME NEW id \in RequestId, NEW c \in Code, AuditApprove(id, c)
      PROVE  MayTell
  BY <1>5 DEF AuditApprove, MayTell
<1>6. ASSUME NEW a \in mem.activations, AuditPoll(a)
      PROVE  MayTell
  BY <1>6, UnsignedStaysUp DEF AuditPoll, Tells, MayTell
<1>7. ASSUME NEW b, NEW id \in RequestId, AuditPublish(b, id)
      PROVE  MayTell
  BY <1>7, DeviceStaysUp DEF AuditPublish, Tells, MayTell
<1>8. ASSUME NEW id \in RequestId, AuditList(id)
      PROVE  MayTell
  BY <1>8, OwnerStaysUp DEF AuditList, Tells, MayTell
<1>9. CASE UNCHANGED history
  BY <1>9 DEF history, MayTell
<1>10. CASE \E d \in Device, cap \in Capability, v \in 1..MaxBindingVersion,
               k \in HostKeys, id \in RequestId :
              AuditPublish(
                [device |-> d, capability |-> cap, version |-> v, keys |-> k],
                id)
  BY <1>7, <1>10
<1> QED
  BY <1>1, <1>2, <1>3, <1>4, <1>5, <1>6, <1>8, <1>9, <1>10 DEF AuditNext

LEMMA ToldStep ==
  ASSUME IInv', [AuditNext]_<<vars, history>>
  PROVE  told' \subseteq
           told \cup {<<payload'.directoryVersion, Directory(payload')>>}
<1>1. MayTell
  BY TellStep DEF history, MayTell
<1> QED
  BY <1>1, AnsweredIsSaved DEF MayTell

LEMMA ToldKept ==
  ASSUME IInv, IInv', Promised(payload, payload'), ToldInv,
         [AuditNext]_<<vars, history>>
  PROVE  ToldInv'
<1>1. /\ payload.directoryVersion \in Nat /\ payload'.directoryVersion \in Nat
      /\ \/ payload'.directoryVersion > payload.directoryVersion
         \/ /\ payload'.directoryVersion = payload.directoryVersion
            /\ Directory(payload') = Directory(payload)
  BY PromisedVersion
<1> DEFINE new == <<payload'.directoryVersion, Directory(payload')>>
<1>2. told' \subseteq told \cup {new}
  BY ToldStep
<1>3. new[1] = payload'.directoryVersion /\ new[2] = Directory(payload')
  OBVIOUS
<1>4. Directory(payload)' = Directory(payload')
  BY DEF Directory
<1>5. ASSUME NEW x \in told
      PROVE  /\ x[1] \in Nat /\ x[1] <= payload'.directoryVersion
             /\ x[1] = payload'.directoryVersion => x = new
  BY <1>1 DEF ToldInv, ToldVersionsStand
<1> HIDE DEF new
<1>6. \A x \in told' : /\ x[1] \in Nat /\ x[1] <= payload'.directoryVersion
                       /\ x[1] = payload'.directoryVersion => x = new
  BY <1>1, <1>2, <1>3, <1>5
<1>7. \A x, y \in told' : x[1] = y[1] => x = y
  BY <1>2, <1>3, <1>6 DEF ToldInv, ToldVersionsStand
<1> QED
  BY <1>4, <1>6, <1>7 DEF ToldInv, ToldVersionsStand, new

-----------------------------------------------------------------------------
(* Windows of request IDs.                                                 *)

\* The signer's window takes one more ID: what is not too old is still in it.
LEMMA RememberWindow ==
  ASSUME NEW order \in Seq(RequestId), NEW id \in RequestId, NEW bound \in Nat,
         NEW answers \in SUBSET (RequestId \X Nat), InWindow(answers, order)
  PROVE  InWindow(Aged(answers, id, bound), Remember(order, id, bound))
<1> DEFINE longer == Append(order, id)
<1>1. /\ longer \in Seq(RequestId) /\ longer # <<>>
      /\ Len(longer) = Len(order) + 1 /\ Len(order) \in Nat
      /\ \A i \in 1..Len(order) : longer[i] = order[i]
      /\ longer[Len(order) + 1] = id
  BY AppendProperties, LenProperties
<1>2. /\ Tail(longer) \in Seq(RequestId) /\ Len(Tail(longer)) = Len(order)
      /\ \A i \in 1..Len(order) : Tail(longer)[i] = longer[i + 1]
  BY <1>1, HeadTailProperties
<1> HIDE DEF longer
<1>3. SUFFICES ASSUME NEW x \in Aged(answers, id, bound)
               PROVE  LET fifo == Remember(order, id, bound)
                      IN  \E i \in 1..Len(fifo) : /\ fifo[i] = x[1]
                                                  /\ Len(fifo) - i <= x[2]
  BY DEF InWindow
<1>4. /\ x[2] < bound
      /\ \/ \E y \in answers : x = <<y[1], y[2] + 1>>
         \/ x = <<id, 0>>
  BY <1>3 DEF Aged
<1>5. PICK j \in 1..(Len(order) + 1) :
        longer[j] = x[1] /\ Len(order) + 1 - j <= x[2]
  <2>1. CASE x = <<id, 0>>
    BY <1>1, <2>1
  <2>2. ASSUME NEW y \in answers, x = <<y[1], y[2] + 1>>
        PROVE  \E j \in 1..(Len(order) + 1) :
                 longer[j] = x[1] /\ Len(order) + 1 - j <= x[2]
    <3>1. PICK i \in 1..Len(order) : order[i] = y[1] /\ Len(order) - i <= y[2]
      BY <2>2 DEF InWindow
    <3>2. y[2] \in Nat
      BY <2>2
    <3>3. x[1] = y[1] /\ x[2] = y[2] + 1
      BY <2>2
    <3> QED
      BY <1>1, <3>1, <3>2, <3>3
  <2> QED
    BY <1>4, <2>1, <2>2
<1>6. x[2] \in Nat
  <2>1. \A y \in answers : y[2] \in Nat
    OBVIOUS
  <2> QED
    BY <1>4, <2>1
<1>7. CASE Len(longer) > bound
  <2>1. Remember(order, id, bound) = Tail(longer)
    BY <1>7 DEF Remember, longer
  <2>2. j - 1 \in 1..Len(order) /\ Tail(longer)[j - 1] = longer[j]
    BY <1>1, <1>2, <1>4, <1>5, <1>6, <1>7
  <2>3. Len(order) - (j - 1) <= x[2]
    BY <1>1, <1>5, <1>6
  <2> QED
    BY <1>2, <1>5, <2>1, <2>2, <2>3
<1>8. CASE ~(Len(longer) > bound)
  <2>1. Remember(order, id, bound) = longer
    BY <1>8 DEF Remember, longer
  <2> QED
    BY <1>1, <1>5, <2>1
<1> QED
  BY <1>7, <1>8

\* The request left no trace, because its save failed: the window is the old.
LEMMA SameWindow ==
  ASSUME NEW order \in Seq(RequestId), NEW id, NEW bound, ~Answered,
         NEW answers \in SUBSET (RequestId \X Nat), InWindow(answers, order)
  PROVE  InWindow(Aged(answers, id, bound), order)
<1>1. Len(order) \in Nat
  BY LenProperties
<1>2. ASSUME NEW x \in Aged(answers, id, bound)
      PROVE  \E i \in 1..Len(order) : order[i] = x[1] /\ Len(order) - i <= x[2]
  <2>1. PICK y \in answers : x = <<y[1], y[2] + 1>>
    BY <1>2 DEF Aged
  <2>2. PICK i \in 1..Len(order) : order[i] = y[1] /\ Len(order) - i <= y[2]
    BY <2>1 DEF InWindow
  <2>3. x[1] = y[1] /\ x[2] = y[2] + 1 /\ y[2] \in Nat
    BY <2>1
  <2> QED
    BY <1>1, <2>2, <2>3
<1> QED
  BY <1>2 DEF InWindow

LEMMA AgedType ==
  ASSUME NEW id \in RequestId, NEW bound,
         NEW answers \in SUBSET (RequestId \X Nat)
  PROVE  Aged(answers, id, bound) \in SUBSET (RequestId \X Nat)
<1>1. \A y \in answers : y[1] \in RequestId /\ y[2] + 1 \in Nat
  OBVIOUS
<1> QED
  BY <1>1 DEF Aged

\* What is in the window is not accepted again.
LEMMA NotAgain ==
  ASSUME NEW order \in Seq(RequestId), NEW id, NEW answers,
         InWindow(answers, order), id \notin Range(order)
  PROVE  ~Again(answers, id)
<1>1. \A i \in 1..Len(order) : order[i] # id
  BY LenProperties DEF Range
<1> QED
  BY <1>1 DEF InWindow, Again

LEMMA WindowTypes ==
  ASSUME NEW s \in ControlState
  PROVE  /\ s.ownerRequestOrder \in Seq(RequestId)
         /\ \A d \in Device : s.deviceRequestOrder[d] \in Seq(RequestId)
  BY ControlStateFields

-----------------------------------------------------------------------------
(* The records that each handler saves, against the one it started from.   *)

KeepsClean(t, asked) ==
  \A d \in Device \ asked : Clean(mem, d) => Clean(t, d)

\* A request ID of the Owner, or of device d, has been recorded in t.
OwnerTurned(t, id) ==
  /\ t.ownerRequestOrder =
       Remember(mem.ownerRequestOrder, id, MaxOwnerReplayIDs)
  /\ t.deviceRequestOrder = mem.deviceRequestOrder

DeviceTurned(t, order, d, id) ==
  /\ t.ownerRequestOrder = mem.ownerRequestOrder
  /\ \A x \in Device :
       t.deviceRequestOrder[x] = IF x = d
         THEN Remember(order[d], id, MaxDeviceReplayIDs) ELSE order[x]

\* The FIFOs of the devices, without the buckets pruneExpiredState deletes.
PrunedOrder ==
  [d \in Device |-> IF d \in StaleBuckets THEN <<>>
                    ELSE mem.deviceRequestOrder[d]]

Pruned(t) ==
  /\ t.ownerRequestOrder = mem.ownerRequestOrder
  /\ \A x \in Device : t.deviceRequestOrder[x] = PrunedOrder[x]

\* The rate-limit window is open in t, with one wrong code more or not.
CodesTurned(t) ==
  LET o == OpenCodeWindow(mem)
  IN  /\ t.failedCodeWindow = o.failedCodeWindow
      /\ t.failedCodeAttempts \in {o.failedCodeAttempts,
                                   o.failedCodeAttempts + 1}

LEMMA QuietClean ==
  ASSUME NEW t, NEW asked, Quiet(mem, t)
  PROVE  KeepsClean(t, asked)
  BY DEF Quiet, KeepsClean, Clean

\* Where the saves of a handler end, by whether it answers.
Turns(S, last) ==
  /\ mem' \in S
  /\ payload' \in S \/ (payload' = payload /\ ~Answered)
  /\ Answered => payload' = last

LEMMA EndsTurn ==
  ASSUME IInv', NEW S, NEW last \in S, EndsIn(S, last)
  PROVE  Turns(S, last)
  BY DEF IInv, TypeOK, EndsIn, Answered, Turns

LEMMA PersistTurns ==
  ASSUME IInv', NEW s, NEW t
  PROVE  /\ Persist(<<t>>) => Turns({t}, t)
         /\ Persist(<<s, t>>) => Turns({s, t}, t)
         /\ \A r : Persist(<<r, s, t>>) => Turns({r, s, t}, t)
<1>1. /\ Persist(<<t>>) => EndsIn({t}, t)
      /\ Persist(<<s, t>>) => EndsIn({s, t}, t)
      /\ \A r : Persist(<<r, s, t>>) => EndsIn({r, s, t}, t)
  BY OneEnds, TwoEnd, ThreeEnd DEF Persist
<1>2. t \in {t} /\ t \in {s, t} /\ \A r : t \in {r, s, t}
  OBVIOUS
<1> QED
  BY <1>1, <1>2, EndsTurn

LEMMA StatusTurns ==
  ASSUME IInv', NEW s, NEW t, NEW d, NEW status
  PROVE  /\ PersistDeviceStatus(<<t>>, d, status) => Turns({t}, t)
         /\ PersistDeviceStatus(<<s, t>>, d, status) => Turns({s, t}, t)
<1>1. t \in {t} /\ t \in {s, t}
  OBVIOUS
<1> QED
  BY <1>1, StatusEnds, EndsTurn

LEMMA InitializeOwnerTurns ==
  ASSUME IInv, NEW o \in Device, InitializeOwner(o)
  PROVE  /\ mem.owner = NoDevice /\ mem = payload
         /\ \/ payload' = payload
            \/ SameOrders(mem, payload') /\ SameCodeWindow(mem, payload')
<1> DEFINE s == [mem EXCEPT !.owner = o, !.device[o] = "active",
                            !.directoryVersion = 1, !.grantVersion = 1]
<1>1. /\ Healthy /\ mem.owner = NoDevice
      /\ PersistDeviceStatus(<<s>>, o, "active")
  BY DEF InitializeOwner
<1>2. mem = payload /\ mem \in ControlState
  BY <1>1, HealthyMemory
<1>3. SameOrders(mem, s) /\ SameCodeWindow(mem, s)
  BY <1>2 DEF ControlState, SameOrders, SameCodeWindow
<1> HIDE DEF s
<1>4. EndsIn({s}, s)
  BY <1>1, StatusEnds
<1> QED
  BY <1>1, <1>2, <1>3, <1>4 DEF EndsIn

\* What the records of ApproveDevice have in common.
ApproveTurned(t, id, c) ==
  /\ OwnerTurned(t, id) /\ CodesTurned(t)
  /\ KeepsClean(t, {a.device : a \in {x \in mem.activations : x.code = c}})

LEMMA ApproveTurns ==
  ASSUME IInv, IInv', NEW id \in RequestId, NEW c \in Code,
         ApproveDevice(id, c)
  PROVE  /\ mem = payload /\ id \notin Range(mem.ownerRequestOrder)
         /\ ApproveTurned(mem', id, c)
         /\ \/ ApproveTurned(payload', id, c)
            \/ payload' = payload /\ ~Answered
         /\ /\ Answered /\ ~RateLimited(OpenCodeWindow(mem))
            /\ \A a \in mem.activations : a.code # c
            => payload'.failedCodeAttempts =
                 OpenCodeWindow(mem).failedCodeAttempts + 1
<1> DEFINE r == RecordOwnerRequestID(mem, id)
<1> DEFINE s == OpenCodeWindow(r)
<1> DEFINE wrong == [s EXCEPT !.failedCodeAttempts = @ + 1]
<1> DEFINE approval(a) == WithActivation(s, a, [a EXCEPT !.status = "approved"])
<1> DEFINE missed == \A a \in mem.activations : a.code # c
<1>1. Healthy /\ id \notin Range(mem.ownerRequestOrder)
  BY DEF ApproveDevice, OwnerAction, Ready
<1>2. mem = payload /\ Sound(mem, issued) /\ mem \in ControlState /\ now \in Nat
  BY <1>1, HealthyMemory
<1>3. \/ Persist(<<s>>) /\ (missed => RateLimited(s))
      \/ Persist(<<s, wrong>>)
      \/ \E a \in mem.activations :
           /\ a.code = c
           /\ \/ Persist(<<s, WithoutActivation(s, a)>>)
              \/ Persist(<<s>>)
              \/ Persist(<<s, approval(a)>>)
  BY DEF ApproveDevice
<1>4. /\ Sound(r, issued) /\ Quiet(mem, r) /\ r \in ControlState
      /\ SameButOrders(mem, r) /\ OwnerTurned(r, id)
  <2>1. Sound(r, issued) /\ Quiet(mem, r)
    BY <1>2, RecordOwnerSound
  <2>2. SameButOrders(mem, r) /\ OwnerTurned(r, id)
    BY <1>2, OwnerIDFields DEF OwnerTurned
  <2> HIDE DEF r
  <2> QED
    BY <2>1, <2>2 DEF Sound
<1> HIDE DEF r
<1>5. /\ Sound(s, issued) /\ Quiet(r, s) /\ s \in ControlState
      /\ SameButCodeWindow(r, s)
  <2>1. Sound(s, issued) /\ Quiet(r, s)
    BY <1>2, <1>4, CodeWindowSound
  <2>2. SameButCodeWindow(r, s)
    BY <1>4, CodeWindowFields
  <2> QED
    BY <2>1, <2>2 DEF Sound
<1>6. LET o == OpenCodeWindow(mem)
      IN  /\ s.failedCodeWindow = o.failedCodeWindow
          /\ s.failedCodeAttempts = o.failedCodeAttempts
  BY <1>2, <1>4 DEF OpenCodeWindow, SameButOrders, SameCodeWindow, ControlState
<1>7. /\ Sound(wrong, issued) /\ Quiet(s, wrong) /\ SameButCodeWindow(s, wrong)
      /\ wrong.failedCodeWindow = s.failedCodeWindow
      /\ wrong.failedCodeAttempts = s.failedCodeAttempts + 1
  BY <1>5, WrongCodeSound, CodeWindowFields DEF ControlState
<1> HIDE DEF s, wrong
<1>8. Quiet(mem, s) /\ Quiet(mem, wrong)
  BY <1>4, <1>5, <1>7, QuietTransitive
<1>9. ApproveTurned(s, id, c) /\ ApproveTurned(wrong, id, c)
  <2>1. OwnerTurned(s, id) /\ OwnerTurned(wrong, id)
    BY <1>4, <1>5, <1>7 DEF OwnerTurned, SameButCodeWindow, SameOrders
  <2>2. CodesTurned(s) /\ CodesTurned(wrong)
    BY <1>6, <1>7 DEF CodesTurned
  <2> QED
    BY <1>8, <2>1, <2>2, QuietClean DEF ApproveTurned
<1>10. ASSUME NEW A, NEW t, t = [s EXCEPT !.activations = A],
              KeepsClean(t, {a.device : a \in {x \in mem.activations :
                                                 x.code = c}})
       PROVE  ApproveTurned(t, id, c)
  <2>1. SameButActivations(s, t)
    BY <1>5, <1>10, ActivationsFields
  <2> QED
    BY <1>9, <1>10, <2>1
       DEF ApproveTurned, OwnerTurned, CodesTurned, SameButActivations,
           SameOrders, SameCodeWindow
<1>11. RateLimited(s) <=> RateLimited(OpenCodeWindow(mem))
  BY <1>6 DEF RateLimited
<1>12. CASE Persist(<<s>>) /\ (missed => RateLimited(s))
  BY <1>1, <1>2, <1>9, <1>11, <1>12, PersistTurns DEF Turns
<1>13. CASE Persist(<<s, wrong>>)
  <2>1. Turns({s, wrong}, wrong)
    BY <1>13, PersistTurns
  <2>2. wrong.failedCodeAttempts = OpenCodeWindow(mem).failedCodeAttempts + 1
    BY <1>6, <1>7
  <2> QED
    BY <1>1, <1>2, <1>9, <2>1, <2>2 DEF Turns
<1>14. ASSUME NEW a \in mem.activations, a.code = c, Persist(<<s>>)
       PROVE  /\ ApproveTurned(mem', id, c)
              /\ \/ ApproveTurned(payload', id, c)
                 \/ payload' = payload /\ ~Answered
  BY <1>9, <1>14, PersistTurns DEF Turns
<1>15. ASSUME NEW a \in mem.activations, a.code = c,
              Persist(<<s, WithoutActivation(s, a)>>)
       PROVE  /\ ApproveTurned(mem', id, c)
              /\ \/ ApproveTurned(payload', id, c)
                 \/ payload' = payload /\ ~Answered
  <2> DEFINE t == WithoutActivation(s, a)
  <2>1. t = [s EXCEPT !.activations = s.activations \ {a}]
    BY DEF WithoutActivation
  <2>2. Quiet(s, t)
    BY <1>5, <2>1, FewerActivationsSound
  <2> HIDE DEF t
  <2>3. Quiet(mem, t)
    BY <1>8, <2>2, QuietTransitive
  <2>4. ApproveTurned(t, id, c)
    BY <1>10, <2>1, <2>3, QuietClean
  <2>5. Turns({s, t}, t)
    BY <1>15, PersistTurns DEF t
  <2> QED
    BY <1>9, <2>4, <2>5 DEF Turns
<1>16. ASSUME NEW a \in mem.activations, a.code = c,
              Persist(<<s, approval(a)>>)
       PROVE  /\ ApproveTurned(mem', id, c)
              /\ \/ ApproveTurned(payload', id, c)
                 \/ payload' = payload /\ ~Answered
  <2> DEFINE t == approval(a)
  <2> DEFINE b == [a EXCEPT !.status = "approved"]
  <2>1. t = [s EXCEPT !.activations = (s.activations \ {a}) \cup {b}]
    BY DEF WithActivation
  <2>2. b.device = a.device
    BY <1>2, ControlStateFields DEF Activation
  <2> HIDE DEF b
  <2> HIDE DEF t
  <2>3. /\ t.device = s.device
        /\ t.activations \subseteq s.activations \cup {b}
    BY <1>5, <2>1, ActivationsFields DEF SameButActivations, SameDevices
  <2>4. \A x \in Approvals(t) : x \in Approvals(s) \/ x[2] = a.device
    BY <2>2, <2>3 DEF Approvals
  <2>5. KeepsClean(t, {y.device : y \in {x \in mem.activations : x.code = c}})
    BY <1>8, <1>16, <2>3, <2>4 DEF KeepsClean, Clean, Quiet
  <2>6. ApproveTurned(t, id, c)
    BY <1>10, <2>1, <2>5
  <2>7. Turns({s, t}, t)
    BY <1>16, PersistTurns DEF t, b
  <2> QED
    BY <1>9, <2>6, <2>7 DEF Turns
<1> QED
  BY <1>1, <1>2, <1>3, <1>12, <1>13, <1>14, <1>15, <1>16

\* What the records of the Owner's other requests have in common.
RecordTurned(t, id) ==
  OwnerTurned(t, id) /\ SameCodeWindow(mem, t) /\ KeepsClean(t, {})

LEMMA OwnerRecord ==
  ASSUME IInv, Healthy, NEW id \in RequestId
  PROVE  LET s == RecordOwnerRequestID(mem, id)
         IN  /\ RecordTurned(s, id) /\ s \in ControlState
             /\ s.device = mem.device /\ s.activations = mem.activations
<1> DEFINE s == RecordOwnerRequestID(mem, id)
<1>1. Sound(mem, issued) /\ mem \in ControlState
  BY HealthyMemory
<1>2. /\ Sound(s, issued) /\ Quiet(mem, s) /\ s.activations = mem.activations
      /\ SameButOrders(mem, s) /\ OwnerTurned(s, id)
  BY <1>1, RecordOwnerSound, OwnerIDFields DEF OwnerTurned
<1> HIDE DEF s
<1>3. KeepsClean(s, {})
  BY <1>2, QuietClean
<1> QED
  BY <1>2, <1>3 DEF RecordTurned, SameButOrders, SameDevices, Sound, s

\* Revoking a device makes it clean, and none of the others unclean.
LEMMA RevokedFields ==
  ASSUME NEW s \in ControlState, NEW d \in Device
  PROVE  LET t == Revoked(s, d)
         IN  /\ t.device = [s.device EXCEPT ![d] = "revoked"]
             /\ t.activations = s.activations
             /\ SameOrders(s, t) /\ SameCodeWindow(s, t)
  BY DEF Revoked, ControlState, SameOrders, SameCodeWindow

LEMMA RevokeTurns ==
  ASSUME IInv, IInv', NEW d \in Device, NEW id \in RequestId,
         RevokeDevice(d, id)
  PROVE  /\ mem = payload /\ id \notin Range(mem.ownerRequestOrder)
         /\ RecordTurned(mem', id)
         /\ RecordTurned(payload', id) \/ (payload' = payload /\ ~Answered)
         /\ Answered /\ d # mem.owner /\ mem.device[d] = "active"
              => Clean(payload', d)
<1> DEFINE s == RecordOwnerRequestID(mem, id)
<1> DEFINE t == Revoked(s, d)
<1>1. /\ Healthy /\ id \notin Range(mem.ownerRequestOrder)
      /\ \/ /\ d = mem.owner \/ mem.device[d] # "active"
            /\ Persist(<<s>>)
         \/ /\ d # mem.owner /\ mem.device[d] = "active"
            /\ PersistDeviceStatus(<<s, t>>, d, "revoked")
  BY DEF RevokeDevice, OwnerAction, Ready
<1>2. mem = payload /\ Sound(mem, issued) /\ mem \in ControlState
  BY <1>1, HealthyMemory
<1>3. /\ RecordTurned(s, id) /\ s \in ControlState
      /\ s.device = mem.device /\ s.activations = mem.activations
  BY <1>1, OwnerRecord
<1> HIDE DEF s
<1>4. CASE d = mem.owner \/ mem.device[d] # "active"
  <2>1. Persist(<<s>>)
    BY <1>1, <1>4
  <2>2. Turns({s}, s)
    BY <2>1, PersistTurns
  <2> QED
    BY <1>1, <1>2, <1>3, <1>4, <2>2 DEF Turns
<1>5. CASE /\ mem.device[d] = "active"
           /\ PersistDeviceStatus(<<s, t>>, d, "revoked")
  <2>1. /\ t.device = [s.device EXCEPT ![d] = "revoked"]
        /\ t.activations = s.activations
        /\ SameOrders(s, t) /\ SameCodeWindow(s, t)
    BY <1>3, RevokedFields
  <2> HIDE DEF t
  <2>2. Approvals(t) = Approvals(mem)
    BY <1>3, <2>1 DEF Approvals
  <2>3. KeepsClean(t, {})
    BY <1>2, <1>3, <2>1, <2>2, ControlStateFields DEF KeepsClean, Clean
  <2>4. RecordTurned(t, id)
    BY <1>3, <2>1, <2>3
       DEF RecordTurned, OwnerTurned, SameOrders, SameCodeWindow
  <2>5. Clean(t, d)
    <3>1. \A a \in mem.activations : a.device # d
      BY <1>2, <1>5 DEF Sound
    <3>2. t.device[d] # "active"
      BY <1>2, <1>3, <2>1, ControlStateFields
    <3> QED
      BY <2>2, <3>1, <3>2 DEF Clean, Approvals
  <2>6. Turns({s, t}, t)
    BY <1>5, StatusTurns
  <2> QED
    BY <1>1, <1>2, <1>3, <2>4, <2>5, <2>6 DEF Turns
<1> QED
  BY <1>1, <1>4, <1>5

LEMMA ListTurns ==
  ASSUME IInv, IInv', NEW id \in RequestId, ListShellCapabilities(id)
  PROVE  /\ mem = payload /\ id \notin Range(mem.ownerRequestOrder)
         /\ RecordTurned(mem', id)
         /\ RecordTurned(payload', id) \/ (payload' = payload /\ ~Answered)
<1> DEFINE s == RecordOwnerRequestID(mem, id)
<1>1. /\ Healthy /\ id \notin Range(mem.ownerRequestOrder)
      /\ Persist(<<s>>)
  BY DEF ListShellCapabilities, OwnerAction, Ready
<1>2. mem = payload /\ RecordTurned(s, id)
  BY <1>1, HealthyMemory, OwnerRecord
<1> HIDE DEF s
<1>3. Turns({s}, s)
  BY <1>1, PersistTurns
<1> QED
  BY <1>1, <1>2, <1>3 DEF Turns

\* What the records of a request of device d have in common.
DeviceRecorded(t, order, d, id) ==
  DeviceTurned(t, order, d, id) /\ SameCodeWindow(mem, t) /\ KeepsClean(t, {})

LEMMA DeviceRecord ==
  ASSUME IInv, Healthy, NEW d \in Device, NEW id \in RequestId
  PROVE  LET s == RecordDeviceRequestID(mem, d, id)
         IN  /\ DeviceRecorded(s, mem.deviceRequestOrder, d, id)
             /\ s \in ControlState
             /\ s.device = mem.device /\ s.activations = mem.activations
<1> DEFINE s == RecordDeviceRequestID(mem, d, id)
<1>1. Sound(mem, issued) /\ mem \in ControlState
  BY HealthyMemory
<1>2. /\ Sound(s, issued) /\ Quiet(mem, s) /\ s.activations = mem.activations
      /\ SameButOrders(mem, s)
      /\ DeviceTurned(s, mem.deviceRequestOrder, d, id)
  BY <1>1, RecordDeviceSound, DeviceIDFields DEF DeviceTurned
<1> HIDE DEF s
<1>3. KeepsClean(s, {})
  BY <1>2, QuietClean
<1> QED
  BY <1>2, <1>3 DEF DeviceRecorded, SameButOrders, SameDevices, Sound, s

LEMMA SyncTurns ==
  ASSUME IInv, IInv', NEW d \in Device, NEW id \in RequestId,
         SyncVersion(d, id) \/ SyncUpdates(d, id)
  PROVE  /\ mem = payload /\ id \notin Range(mem.deviceRequestOrder[d])
         /\ DeviceRecorded(mem', mem.deviceRequestOrder, d, id)
         /\ \/ DeviceRecorded(payload', mem.deviceRequestOrder, d, id)
            \/ payload' = payload /\ ~Answered
<1> DEFINE s == RecordDeviceRequestID(mem, d, id)
<1>1. /\ Healthy /\ id \notin Range(mem.deviceRequestOrder[d])
      /\ Persist(<<s>>) \/ Persist(<<s, s>>)
  BY DEF SyncVersion, SyncUpdates, Ready
<1>2. mem = payload /\ DeviceRecorded(s, mem.deviceRequestOrder, d, id)
  BY <1>1, HealthyMemory, DeviceRecord
<1> HIDE DEF s
<1>3. Turns({s}, s) \/ Turns({s, s}, s)
  BY <1>1, PersistTurns
<1> QED
  BY <1>1, <1>2, <1>3 DEF Turns

LEMMA PublishTurns ==
  ASSUME IInv, IInv', NEW b \in Binding, NEW id \in RequestId,
         PublishShellCapability(b, id)
  PROVE  LET order == mem.deviceRequestOrder
             d     == b.device
         IN  /\ mem = payload /\ id \notin Range(order[d])
             /\ PublishRefused(b) => UNCHANGED <<mem, payload>>
             /\ ~PublishRefused(b) =>
                  /\ DeviceRecorded(mem', order, d, id)
                  /\ \/ DeviceRecorded(payload', order, d, id)
                     \/ payload' = payload /\ ~Answered
<1> DEFINE s == RecordDeviceRequestID(mem, b.device, id)
<1> DEFINE old == Bound(mem, b.device, b.capability)
<1> DEFINE t == [s EXCEPT !.shellBindings = (@ \ old) \cup {b},
                          !.directoryVersion = @ + 1]
<1>1. /\ Healthy /\ b.device \in Device
      /\ id \notin Range(mem.deviceRequestOrder[b.device])
      /\ \/ PublishRefused(b) /\ UNCHANGED <<mem, payload>>
         \/ ~PublishRefused(b) /\ (Persist(<<s>>) \/ Persist(<<t>>))
  BY DEF PublishShellCapability, Ready, Binding, durable
<1>2. /\ mem = payload /\ s \in ControlState
      /\ DeviceRecorded(s, mem.deviceRequestOrder, b.device, id)
      /\ s.device = mem.device /\ s.activations = mem.activations
  BY <1>1, HealthyMemory, DeviceRecord
<1> HIDE DEF s
<1>3. /\ t.device = s.device /\ t.activations = s.activations
      /\ SameOrders(s, t) /\ SameCodeWindow(s, t)
  BY <1>2 DEF ControlState, SameOrders, SameCodeWindow
<1> HIDE DEF t
<1>4. DeviceRecorded(t, mem.deviceRequestOrder, b.device, id)
  <2>1. Approvals(t) = Approvals(mem) /\ t.device = mem.device
    BY <1>2, <1>3 DEF Approvals
  <2>2. KeepsClean(t, {})
    BY <2>1 DEF KeepsClean, Clean
  <2> QED
    BY <1>2, <1>3, <2>2
       DEF DeviceRecorded, DeviceTurned, SameOrders, SameCodeWindow
<1>5. /\ Persist(<<s>>) => Turns({s}, s)
      /\ Persist(<<t>>) => Turns({t}, t)
  BY PersistTurns
<1> QED
  BY <1>1, <1>2, <1>4, <1>5 DEF Turns

LEMMA PollTurns ==
  ASSUME IInv, IInv', NEW a \in mem.activations, PollDevice(a)
  PROVE  /\ mem = payload
         /\ \A t \in {mem', payload'} :
              \/ t = payload
              \/ SameOrders(mem, t) /\ SameCodeWindow(mem, t)
                   /\ KeepsClean(t, {})
<1> DEFINE Good(t) ==
      SameOrders(mem, t) /\ SameCodeWindow(mem, t) /\ KeepsClean(t, {})
<1> DEFINE slow == [a EXCEPT !.interval = @ + PollingInterval, !.lastPoll = now]
<1> DEFINE polled == [a EXCEPT !.lastPoll = now]
<1>1. Healthy
  BY DEF PollDevice, Ready
<1>2. /\ mem = payload /\ Sound(mem, issued) /\ mem \in ControlState
      /\ a \in Activation
  BY <1>1, HealthyMemory, ControlStateFields
<1>3. \/ Persist(<<WithoutActivation(mem, a)>>)
      \/ Persist(<<WithActivation(mem, a, slow)>>)
      \/ Persist(<<WithActivation(mem, a, polled)>>)
      \/ /\ a.status = "approved"
         /\ PersistDeviceStatus(<<Activated(a)>>, a.device, "active")
  BY DEF PollDevice
<1>4. /\ slow.device = a.device /\ slow.code = a.code /\ slow.status = a.status
      /\ polled.device = a.device /\ polled.code = a.code
      /\ polled.status = a.status
  BY <1>2 DEF Activation
<1> HIDE DEF slow, polled
<1>5. ASSUME NEW b, b.device = a.device, b.code = a.code, b.status = a.status
      PROVE  Good(WithActivation(mem, a, b)) /\ Good(WithoutActivation(mem, a))
  <2>1. ASSUME NEW A, \A x \in A : x \in mem.activations \/ x = b
        PROVE  Good([mem EXCEPT !.activations = A])
    <3> DEFINE t == [mem EXCEPT !.activations = A]
    <3>1. SameButActivations(mem, t) /\ t.activations = A
      BY <1>2, ActivationsFields
    <3> HIDE DEF t
    <3>2. Approvals(t) \subseteq Approvals(mem)
      BY <1>5, <2>1, <3>1 DEF Approvals
    <3>3. KeepsClean(t, {})
      BY <3>1, <3>2
         DEF KeepsClean, Clean, SameButActivations, SameDevices
    <3> QED
      BY <3>1, <3>3 DEF SameButActivations, t
  <2>2. /\ WithoutActivation(mem, a)
             = [mem EXCEPT !.activations = mem.activations \ {a}]
        /\ WithActivation(mem, a, b)
             = [mem EXCEPT !.activations = (mem.activations \ {a}) \cup {b}]
    BY DEF WithoutActivation, WithActivation
  <2> HIDE DEF Good
  <2> QED
    BY <2>1, <2>2
<1>6. ASSUME a.status = "approved"
      PROVE  Good(Activated(a))
  <2> DEFINE t == Activated(a)
  <2> DEFINE dir == mem.directoryVersion + 1
  <2> DEFINE w == [mem EXCEPT !.activations = mem.activations \ {a}]
  <2>1. t = [w EXCEPT !.device[a.device] = "active", !.directoryVersion = dir]
    BY <1>2 DEF Activated, WithoutActivation, ControlState
  <2>2. /\ w.device = mem.device /\ w.activations = mem.activations \ {a}
        /\ SameOrders(mem, w) /\ SameCodeWindow(mem, w)
        /\ w \in ControlState
    BY <1>2 DEF ControlState, SameOrders, SameCodeWindow
  <2> HIDE DEF w, dir, t
  <2>3. /\ t.device = [mem.device EXCEPT ![a.device] = "active"]
        /\ t.activations = mem.activations \ {a}
        /\ SameOrders(mem, t) /\ SameCodeWindow(mem, t)
    BY <2>1, <2>2 DEF ControlState, SameOrders, SameCodeWindow
  <2>4. /\ Approvals(t) \subseteq Approvals(mem)
        /\ <<a.code, a.device>> \in Approvals(mem)
    BY <1>6, <2>3 DEF Approvals
  <2>5. mem.device \in [Device -> {"absent", "active", "revoked"}]
    BY <1>2, ControlStateFields
  <2>6. ASSUME NEW d \in Device, Clean(mem, d)
        PROVE  Clean(t, d)
    <3>1. d # a.device
      BY <2>4, <2>6 DEF Clean
    <3> QED
      BY <2>3, <2>4, <2>5, <2>6, <3>1 DEF Clean
  <2> QED
    BY <2>3, <2>6 DEF KeepsClean, t
<1> HIDE DEF Good
<1>7. /\ Good(WithoutActivation(mem, a)) /\ Good(WithActivation(mem, a, slow))
      /\ Good(WithActivation(mem, a, polled))
  BY <1>4, <1>5
<1>8. \E t : Good(t) /\ Turns({t}, t)
  BY <1>3, <1>6, <1>7, PersistTurns, StatusTurns
<1> QED
  BY <1>2, <1>8 DEF Turns, Good

\* What the records have in common that BeginDeviceAuthorization saves.
BeginTurned(t) ==
  /\ SameCodeWindow(mem, t) /\ KeepsClean(t, {})

LEMMA BeginTurns ==
  ASSUME IInv, IInv', NEW d \in Device, NEW id \in RequestId,
         BeginDeviceAuthorization(d, id)
  PROVE  /\ mem = payload
         /\ \A t \in {mem', payload'} : t = payload \/ BeginTurned(t)
         /\ BeginRefused(PruneExpiredState, buckets \ StaleBuckets, d, id)
              => Pruned(payload') \/ payload' = payload
         /\ ~BeginRefused(PruneExpiredState, buckets \ StaleBuckets, d, id)
              => /\ id \notin Range(PrunedOrder[d])
                 /\ \/ DeviceTurned(payload', PrunedOrder, d, id)
                    \/ (Pruned(payload') \/ payload' = payload) /\ ~Answered
<1> DEFINE p == PruneExpiredState
<1> DEFINE kept == buckets \ StaleBuckets
<1> DEFINE marked == RecordDeviceRequestID(p, d, id)
<1> DEFINE full(c) == [marked EXCEPT !.activations =
                         @ \cup {NewActivation(c, d)}]
<1>1. Healthy /\ mem.owner # NoDevice /\ mem.device[d] # "active"
  BY DEF BeginDeviceAuthorization, Ready
<1>2. mem = payload /\ Sound(mem, issued) /\ mem \in ControlState /\ now \in Nat
  BY <1>1, HealthyMemory
<1>3. /\ Sound(p, issued) /\ Quiet(mem, p) /\ p \in ControlState
      /\ SameCodeWindow(mem, p) /\ Pruned(p)
  BY <1>2, PruneSound, PruneFields DEF Sound, Pruned, PrunedOrder
<1>4. BeginRefused(p, kept, d, id) \/ id \notin Range(PrunedOrder[d])
  BY <1>3 DEF BeginRefused, Pruned
<1>5. \/ BeginRefused(p, kept, d, id) /\ Persist(<<p>>)
      \/ /\ ~BeginRefused(p, kept, d, id)
         /\ ~HasActivation(p, d)
         /\ \/ Persist(<<p, marked>>)
            \/ \E c \in Code \ issued : Persist(<<p, marked, full(c)>>)
  BY DEF BeginDeviceAuthorization, BeginRefused
<1> HIDE DEF p, kept
<1>6. /\ Sound(marked, issued) /\ Quiet(p, marked) /\ SameButOrders(p, marked)
      /\ marked.activations = p.activations
      /\ DeviceTurned(marked, PrunedOrder, d, id)
      /\ marked \in ControlState
  <2>1. /\ Sound(marked, issued) /\ Quiet(p, marked)
        /\ marked.activations = p.activations
    BY <1>3, RecordDeviceSound
  <2>2. /\ SameButOrders(p, marked)
        /\ marked.ownerRequestOrder = p.ownerRequestOrder
        /\ \A x \in Device :
             marked.deviceRequestOrder[x] =
               IF x = d THEN Remember(p.deviceRequestOrder[d], id,
                                      MaxDeviceReplayIDs)
               ELSE p.deviceRequestOrder[x]
    BY <1>3, DeviceIDFields
  <2> HIDE DEF marked
  <2> QED
    BY <1>3, <2>1, <2>2 DEF DeviceTurned, Pruned, Sound
<1> HIDE DEF marked
<1>7. Quiet(mem, marked)
  BY <1>3, <1>6, QuietTransitive
<1>8. BeginTurned(p) /\ BeginTurned(marked)
  BY <1>3, <1>6, <1>7, QuietClean
     DEF BeginTurned, SameButOrders, SameCodeWindow
<1>9. CASE BeginRefused(p, kept, d, id) /\ Persist(<<p>>)
  <2>1. Turns({p}, p)
    BY <1>9, PersistTurns
  <2> QED
    BY <1>2, <1>3, <1>8, <1>9, <2>1 DEF Turns, p, kept
<1>10. CASE ~BeginRefused(p, kept, d, id) /\ Persist(<<p, marked>>)
  <2>1. Turns({p, marked}, marked)
    BY <1>10, PersistTurns
  <2> QED
    BY <1>2, <1>3, <1>4, <1>6, <1>8, <1>10, <2>1 DEF Turns, p, kept
<1>11. ASSUME ~BeginRefused(p, kept, d, id), ~HasActivation(p, d),
              NEW c \in Code \ issued, Persist(<<p, marked, full(c)>>)
       PROVE  /\ \A t \in {mem', payload'} : BeginTurned(t) \/ t = payload
              /\ \/ DeviceTurned(payload', PrunedOrder, d, id)
                 \/ (Pruned(payload') \/ payload' = payload) /\ ~Answered
  <2> DEFINE t == full(c)
  <2>1. /\ marked.device[d] # "active" /\ marked.owner # NoDevice
        /\ ~HasActivation(marked, d)
    BY <1>1, <1>6, <1>7, <1>11 DEF Quiet, HasActivation
  <2>2. Quiet(marked, t)
    BY <1>2, <1>6, <2>1, NewActivationSound
  <2>3. SameButActivations(marked, t)
    BY <1>6, ActivationsFields
  <2> HIDE DEF t
  <2>4. Quiet(mem, t)
    BY <1>7, <2>2, QuietTransitive
  <2>5. BeginTurned(t) /\ DeviceTurned(t, PrunedOrder, d, id)
    BY <1>6, <1>8, <2>3, <2>4, QuietClean
       DEF BeginTurned, DeviceTurned, SameButActivations, SameOrders,
           SameCodeWindow
  <2>6. Turns({p, marked, t}, t)
    BY <1>11, PersistTurns DEF t
  <2> QED
    BY <1>3, <1>6, <1>8, <2>5, <2>6 DEF Turns
<1> QED
  BY <1>2, <1>4, <1>5, <1>9, <1>10, <1>11 DEF p, kept

LEMMA RestartTurns ==
  ASSUME IInv, Restart
  PROVE  /\ mem' = payload' \/ UNCHANGED mem
         /\ SameOrders(payload, payload') /\ SameCodeWindow(payload, payload')
         /\ \A d \in Device : Clean(payload, d) => Clean(payload', d)
<1> DEFINE p == DropExpired(payload)
<1>1. /\ payload' = p /\ (mem' = p \/ UNCHANGED mem)
      /\ payload \in ControlState /\ Sound(payload, issued)
  BY DEF Restart, IInv, TypeOK
<1>2. Quiet(payload, p) /\ SameButActivations(payload, p)
  BY <1>1, FewerActivationsSound, ActivationsFields DEF DropExpired
<1> HIDE DEF p
<1> QED
  BY <1>1, <1>2 DEF SameButActivations, Quiet, Clean

-----------------------------------------------------------------------------
(* The windows hold what was answered.                                     *)

LEMMA SavedOrders ==
  ASSUME IInv
  PROVE  /\ payload.ownerRequestOrder \in Seq(RequestId)
         /\ \A d \in Device : payload.deviceRequestOrder[d] \in Seq(RequestId)
         /\ payload.deviceRequestOrder \in [Device -> Seq(RequestId)]
  BY ControlStateFields DEF IInv, TypeOK

LEMMA OwnerWindowKept ==
  ASSUME IInv, WindowsInv, mem = payload, NEW id \in RequestId,
         id \notin Range(mem.ownerRequestOrder), OwnerSigns(id),
         OwnerTurned(payload', id) \/ (payload' = payload /\ ~Answered)
  PROVE  WindowsInv'
<1> DEFINE order == payload.ownerRequestOrder
<1> DEFINE aged == Aged(ownerAnswered, id, MaxOwnerReplayIDs)
<1>1. /\ ownerAnswered' = aged /\ deviceAnswered' = deviceAnswered
      /\ repeated' = (repeated \/ Again(ownerAnswered, id))
  BY DEF OwnerSigns
<1>2. /\ order \in Seq(RequestId) /\ MaxOwnerReplayIDs \in Nat
      /\ ownerAnswered \in SUBSET (RequestId \X Nat)
      /\ InWindow(ownerAnswered, order)
  BY SavedOrders, EnrollmentAssumption DEF WindowsInv
<1>3. aged \in SUBSET (RequestId \X Nat) /\ ~Again(ownerAnswered, id)
  BY <1>2, AgedType, NotAgain
<1>4. InWindow(aged, payload'.ownerRequestOrder)
  <2>1. CASE OwnerTurned(payload', id)
    <3>1. payload'.ownerRequestOrder = Remember(order, id, MaxOwnerReplayIDs)
      BY <2>1 DEF OwnerTurned
    <3> QED
      BY <1>2, <3>1, RememberWindow
  <2>2. CASE payload' = payload /\ ~Answered
    BY <1>2, <2>2, SameWindow
  <2> QED
    BY <2>1, <2>2
<1>5. payload'.deviceRequestOrder = payload.deviceRequestOrder
  BY DEF OwnerTurned
<1> HIDE DEF aged
<1>6. ~repeated'
  BY <1>1, <1>3, Zenon DEF WindowsInv
<1>7. /\ ownerAnswered' \in SUBSET (RequestId \X Nat)
      /\ deviceAnswered' \in [Device -> SUBSET (RequestId \X Nat)]
  BY <1>1, <1>3 DEF WindowsInv
<1>8. /\ InWindow(ownerAnswered', payload'.ownerRequestOrder)
      /\ \A d \in Device :
           InWindow(deviceAnswered'[d], payload'.deviceRequestOrder[d])
  BY <1>1, <1>4, <1>5 DEF WindowsInv
<1> QED
  BY <1>6, <1>7, <1>8 DEF WindowsInv, InWindow

\* The same for a device: kept is what counts of the answers it got before,
\* order the FIFOs the handler started from.
LEMMA DeviceWindowKept ==
  ASSUME WindowsInv, NEW d \in Device, NEW id \in RequestId,
         NEW kept \in [Device -> SUBSET (RequestId \X Nat)],
         NEW order \in [Device -> Seq(RequestId)],
         \A x \in Device : InWindow(kept[x], order[x]),
         id \notin Range(order[d]),
         deviceAnswered' =
           [kept EXCEPT ![d] = Aged(@, id, MaxDeviceReplayIDs)],
         repeated' = (repeated \/ Again(kept[d], id)),
         ownerAnswered' = ownerAnswered,
         payload'.ownerRequestOrder = payload.ownerRequestOrder,
         \/ DeviceTurned(payload', order, d, id)
         \/ /\ ~Answered
            /\ \A x \in Device :
                 /\ payload'.deviceRequestOrder[x] \in Seq(RequestId)
                 /\ InWindow(kept[x], payload'.deviceRequestOrder[x])
  PROVE  WindowsInv'
<1> DEFINE aged == Aged(kept[d], id, MaxDeviceReplayIDs)
<1> DEFINE fifo == payload'.deviceRequestOrder
<1>1. /\ MaxDeviceReplayIDs \in Nat /\ kept[d] \in SUBSET (RequestId \X Nat)
      /\ order[d] \in Seq(RequestId)
  BY EnrollmentAssumption
<1>2. aged \in SUBSET (RequestId \X Nat) /\ ~Again(kept[d], id)
  BY <1>1, AgedType, NotAgain
<1>3. InWindow(aged, fifo[d])
  <2>1. CASE DeviceTurned(payload', order, d, id)
    <3>1. fifo[d] = Remember(order[d], id, MaxDeviceReplayIDs)
      BY <2>1 DEF DeviceTurned
    <3> QED
      BY <1>1, <3>1, RememberWindow
  <2>2. CASE /\ ~Answered /\ fifo[d] \in Seq(RequestId)
             /\ InWindow(kept[d], fifo[d])
    BY <1>1, <2>2, SameWindow
  <2> QED
    BY <2>1, <2>2
<1>4. \A x \in Device \ {d} : InWindow(kept[x], fifo[x])
  BY DEF DeviceTurned
<1>5. /\ deviceAnswered' \in [Device -> SUBSET (RequestId \X Nat)]
      /\ deviceAnswered'[d] = aged
      /\ \A x \in Device \ {d} : deviceAnswered'[x] = kept[x]
  BY <1>2
<1> HIDE DEF aged
<1>6. \A x \in Device : InWindow(deviceAnswered'[x], fifo[x])
  BY <1>3, <1>4, <1>5
<1> HIDE DEF fifo
<1>7. InWindow(ownerAnswered', payload'.ownerRequestOrder)
  BY DEF WindowsInv
<1> QED
  BY <1>2, <1>5, <1>6, <1>7 DEF WindowsInv, InWindow, fifo

LEMMA DeviceSignsKept ==
  ASSUME IInv, IInv', WindowsInv, mem = payload,
         NEW d \in Device, NEW id \in RequestId,
         id \notin Range(mem.deviceRequestOrder[d]), DeviceSigns(d, id),
         \/ DeviceTurned(payload', mem.deviceRequestOrder, d, id)
         \/ payload' = payload /\ ~Answered
  PROVE  WindowsInv'
<1> DEFINE order == payload.deviceRequestOrder
<1>1. /\ order \in [Device -> Seq(RequestId)]
      /\ deviceAnswered \in [Device -> SUBSET (RequestId \X Nat)]
      /\ \A x \in Device : InWindow(deviceAnswered[x], order[x])
      /\ \A x \in Device : order[x] \in Seq(RequestId)
  BY SavedOrders DEF WindowsInv
<1>2. /\ deviceAnswered' =
           [deviceAnswered EXCEPT ![d] = Aged(@, id, MaxDeviceReplayIDs)]
      /\ repeated' = (repeated \/ Again(deviceAnswered[d], id))
      /\ ownerAnswered' = ownerAnswered
  BY DEF DeviceSigns
<1>3. /\ payload'.ownerRequestOrder = payload.ownerRequestOrder
      /\ \/ DeviceTurned(payload', order, d, id)
         \/ /\ ~Answered
            /\ \A x \in Device :
                 /\ payload'.deviceRequestOrder[x] \in Seq(RequestId)
                 /\ InWindow(deviceAnswered[x], payload'.deviceRequestOrder[x])
  BY <1>1 DEF DeviceTurned
<1>4. id \notin Range(order[d])
  OBVIOUS
<1> HIDE DEF order
<1> QED
  BY <1>1, <1>2, <1>3, <1>4, DeviceWindowKept

\* Pruning empties the windows of the buckets it deletes.
LEMMA BeginSignsKept ==
  ASSUME IInv, IInv', WindowsInv, NEW d \in Device, NEW id \in RequestId,
         BeginDeviceAuthorization(d, id), BeginSigns(d, id)
  PROVE  WindowsInv'
<1> DEFINE refused ==
      BeginRefused(PruneExpiredState, buckets \ StaleBuckets, d, id)
<1> DEFINE kept == [x \in Device |-> IF x \in StaleBuckets THEN {}
                                     ELSE deviceAnswered[x]]
<1>1. /\ mem = payload
      /\ refused => Pruned(payload') \/ payload' = payload
      /\ ~refused =>
           /\ id \notin Range(PrunedOrder[d])
           /\ \/ DeviceTurned(payload', PrunedOrder, d, id)
              \/ (Pruned(payload') \/ payload' = payload) /\ ~Answered
  BY BeginTurns
<1>2. /\ ownerAnswered' = ownerAnswered
      /\ refused => deviceAnswered' = kept /\ repeated' = repeated
      /\ ~refused =>
           /\ deviceAnswered' =
                [kept EXCEPT ![d] = Aged(@, id, MaxDeviceReplayIDs)]
           /\ repeated' = (repeated \/ Again(kept[d], id))
  BY DEF BeginSigns
<1> HIDE DEF refused
<1>3. payload'.ownerRequestOrder = payload.ownerRequestOrder
  BY <1>1 DEF Pruned, DeviceTurned
<1>4. PrunedOrder \in [Device -> Seq(RequestId)]
  <2>1. <<>> \in Seq(RequestId)
    BY EmptySeq
  <2> QED
    BY <1>1, <2>1, SavedOrders DEF PrunedOrder
<1>5. /\ kept \in [Device -> SUBSET (RequestId \X Nat)]
      /\ \A x \in Device :
           /\ InWindow(kept[x], PrunedOrder[x])
           /\ InWindow(kept[x], payload.deviceRequestOrder[x])
  <2>1. \A order : InWindow({}, order)
    BY DEF InWindow
  <2> QED
    BY <1>1, <2>1 DEF WindowsInv, PrunedOrder
<1> HIDE DEF kept
<1>6. ASSUME Pruned(payload') \/ payload' = payload
      PROVE  \A x \in Device :
               /\ payload'.deviceRequestOrder[x] \in Seq(RequestId)
               /\ InWindow(kept[x], payload'.deviceRequestOrder[x])
  BY <1>4, <1>5, <1>6, SavedOrders DEF Pruned
<1>7. CASE refused
  <2>1. \A x \in Device : InWindow(kept[x], payload'.deviceRequestOrder[x])
    BY <1>1, <1>6, <1>7
  <2>2. ~repeated'
    BY <1>1, <1>2, <1>3, <1>7, Zenon DEF WindowsInv
  <2>3. /\ ownerAnswered' \in SUBSET (RequestId \X Nat)
        /\ deviceAnswered' \in [Device -> SUBSET (RequestId \X Nat)]
        /\ InWindow(ownerAnswered', payload'.ownerRequestOrder)
        /\ \A x \in Device :
             InWindow(deviceAnswered'[x], payload'.deviceRequestOrder[x])
    BY <1>2, <1>3, <1>5, <1>7, <2>1 DEF WindowsInv
  <2> QED
    BY <2>2, <2>3 DEF WindowsInv, InWindow
<1>8. CASE ~refused
  BY <1>1, <1>2, <1>3, <1>4, <1>5, <1>6, <1>8, DeviceWindowKept
<1> QED
  BY <1>7, <1>8

LEMMA SameOrdersKept ==
  ASSUME WindowsInv, UNCHANGED requests,
         SameOrders(payload, payload') \/ payload' = payload
  PROVE  WindowsInv'
<1>1. UNCHANGED <<ownerAnswered, deviceAnswered>> /\ (repeated' <=> repeated)
  BY DEF requests
<1>2. /\ payload'.ownerRequestOrder = payload.ownerRequestOrder
      /\ payload'.deviceRequestOrder = payload.deviceRequestOrder
  BY DEF SameOrders
<1> QED
  BY <1>1, <1>2 DEF WindowsInv, InWindow

LEMMA WindowsKept ==
  ASSUME IInv, IInv', WindowsInv, [AuditNext]_<<vars, history>>
  PROVE  WindowsInv'
<1>1. ASSUME NEW o \in Device, AuditInitialize(o)
      PROVE  WindowsInv'
  <2>1. InitializeOwner(o) /\ UNCHANGED requests
    BY <1>1 DEF AuditInitialize
  <2> QED
    BY <2>1, InitializeOwnerTurns, SameOrdersKept
<1>2. ASSUME NEW d \in Device, NEW id \in RequestId, AuditBegin(d, id)
      PROVE  WindowsInv'
  BY <1>2, BeginSignsKept DEF AuditBegin
<1>3. ASSUME NEW d \in Device, NEW id \in RequestId, AuditRevoke(d, id)
      PROVE  WindowsInv'
  <2>1. RevokeDevice(d, id) /\ OwnerSigns(id)
    BY <1>3 DEF AuditRevoke
  <2> QED
    BY <2>1, RevokeTurns, OwnerWindowKept DEF RecordTurned
<1>4. ASSUME NEW d \in Device, NEW id \in RequestId,
             AuditSync(d, id) \/ AuditUpdates(d, id)
      PROVE  WindowsInv'
  <2>1. (SyncVersion(d, id) \/ SyncUpdates(d, id)) /\ DeviceSigns(d, id)
    BY <1>4 DEF AuditSync, AuditUpdates
  <2> QED
    BY <2>1, SyncTurns, DeviceSignsKept DEF DeviceRecorded
<1>5. ASSUME NEW id \in RequestId, NEW c \in Code, AuditApprove(id, c)
      PROVE  WindowsInv'
  <2>1. ApproveDevice(id, c) /\ OwnerSigns(id)
    BY <1>5 DEF AuditApprove
  <2> QED
    BY <2>1, ApproveTurns, OwnerWindowKept DEF ApproveTurned
<1>6. ASSUME NEW a \in mem.activations, AuditPoll(a)
      PROVE  WindowsInv'
  <2>1. PollDevice(a) /\ UNCHANGED requests
    BY <1>6 DEF AuditPoll
  <2>2. mem = payload /\ (payload' = payload \/ SameOrders(mem, payload'))
    BY <2>1, PollTurns
  <2> QED
    BY <2>1, <2>2, SameOrdersKept
<1>7. ASSUME NEW b \in Binding, NEW id \in RequestId, AuditPublish(b, id)
      PROVE  WindowsInv'
  <2>1. /\ PublishShellCapability(b, id)
        /\ PublishRefused(b) => UNCHANGED requests
        /\ ~PublishRefused(b) => DeviceSigns(b.device, id)
    BY <1>7 DEF AuditPublish
  <2>2. b.device \in Device
    BY DEF Binding
  <2> QED
    BY <2>1, <2>2, PublishTurns, DeviceSignsKept, SameOrdersKept
       DEF DeviceRecorded
<1>8. ASSUME NEW id \in RequestId, AuditList(id)
      PROVE  WindowsInv'
  <2>1. ListShellCapabilities(id) /\ OwnerSigns(id)
    BY <1>8 DEF AuditList
  <2> QED
    BY <2>1, ListTurns, OwnerWindowKept DEF RecordTurned
<1>9. ASSUME UNCHANGED history,
             Crash \/ Restart \/ Tick \/ UNCHANGED vars
      PROVE  WindowsInv'
  <2>1. payload' = payload \/ SameOrders(payload, payload')
    BY <1>9, RestartTurns DEF Crash, Tick, durable, vars
  <2> QED
    BY <1>9, <2>1, SameOrdersKept DEF history
<1>10. ASSUME NEW d \in Device, NEW cap \in Capability,
              NEW v \in 1..MaxBindingVersion, NEW k \in HostKeys,
              NEW id \in RequestId,
              AuditPublish(
                [device |-> d, capability |-> cap, version |-> v, keys |-> k],
                id)
       PROVE  WindowsInv'
  <2> DEFINE b == [device |-> d, capability |-> cap, version |-> v, keys |-> k]
  <2>1. b \in Binding
    BY EnrollmentAssumption DEF Binding
  <2> QED
    BY <1>7, <1>10, <2>1
<1> QED
  BY <1>1, <1>2, <1>3, <1>4, <1>5, <1>6, <1>8, <1>9, <1>10 DEF AuditNext

-----------------------------------------------------------------------------
(* Confirmed revocations.                                                  *)

\* A record that keeps clean what is still confirmed.
LEMMA RevokedFrom ==
  ASSUME RevokedInv, Promised(payload, payload'), NEW asked,
         revokedFor' \subseteq revokedFor \ asked,
         \A t \in {mem', payload'} :
           \A d \in Device \ asked :
             Clean(mem, d) /\ Clean(payload, d) => Clean(t, d)
  PROVE  RevokedInv'
<1>1. payload'.owner = NoDevice => payload.owner = NoDevice
  BY EnrollmentAssumption
     DEF Promised, Quiet, Founds, Revokes, Publishes, Approves, Activates
<1>2. ASSUME NEW d \in revokedFor'
      PROVE  Clean(mem', d) /\ Clean(payload', d) /\ d \in Device
  BY <1>2 DEF RevokedInv
<1>3. payload'.owner = NoDevice => revokedFor' = {}
  BY <1>1 DEF RevokedInv
<1>4. \A d \in revokedFor' : Clean(mem, d)' /\ Clean(payload, d)'
  BY <1>2 DEF Clean, Approvals
<1> QED
  BY <1>2, <1>3, <1>4 DEF RevokedInv

LEMMA SameRevokedKept ==
  ASSUME RevokedInv, Promised(payload, payload'), mem = payload,
         UNCHANGED revokedFor,
         \A t \in {mem', payload'} : t = payload \/ KeepsClean(t, {})
  PROVE  RevokedInv'
<1>1. \A t \in {mem', payload'} : \A d \in Device \ {} :
        Clean(mem, d) /\ Clean(payload, d) => Clean(t, d)
  BY DEF KeepsClean
<1>2. revokedFor' \subseteq revokedFor \ {}
  OBVIOUS
<1> QED
  BY <1>1, <1>2, RevokedFrom

LEMMA RevokedKept ==
  ASSUME IInv, IInv', Promised(payload, payload'), RevokedInv,
         [AuditNext]_<<vars, history>>
  PROVE  RevokedInv'
<1>1. ASSUME NEW o \in Device, AuditInitialize(o)
      PROVE  RevokedInv'
  <2>1. InitializeOwner(o) /\ UNCHANGED revokedFor
    BY <1>1 DEF AuditInitialize
  <2>2. revokedFor = {}
    BY <2>1, InitializeOwnerTurns DEF RevokedInv
  <2> QED
    BY <2>1, <2>2 DEF RevokedInv
<1>2. ASSUME NEW d \in Device, NEW id \in RequestId, AuditBegin(d, id)
      PROVE  RevokedInv'
  <2>1. BeginDeviceAuthorization(d, id) /\ UNCHANGED revokedFor
    BY <1>2 DEF AuditBegin
  <2> QED
    BY <2>1, BeginTurns, SameRevokedKept DEF BeginTurned
<1>3. ASSUME NEW d \in Device, NEW id \in RequestId, AuditRevoke(d, id)
      PROVE  RevokedInv'
  <2> DEFINE done == /\ Answered /\ d # mem.owner
                     /\ mem.device[d] = "active"
  <2>1. /\ RevokeDevice(d, id)
        /\ revokedFor' = IF done THEN revokedFor \cup {d} ELSE revokedFor
    BY <1>3 DEF AuditRevoke
  <2>2. /\ mem = payload /\ KeepsClean(mem', {})
        /\ payload' = payload \/ KeepsClean(payload', {})
        /\ done => Clean(payload', d)
    BY <2>1, RevokeTurns DEF RecordTurned
  <2>3. CASE ~done
    BY <2>1, <2>2, <2>3, SameRevokedKept
  <2>4. CASE done
    <3>1. mem' = payload'
      BY <2>1, <2>4, OwnerStaysUp, AnsweredIsSaved
    <3>2. payload'.owner # NoDevice
      <4>1. payload.owner # NoDevice
        BY <2>1, <2>2 DEF RevokeDevice, OwnerAction, Ready
      <4> QED
        BY <4>1, EnrollmentAssumption
           DEF Promised, Quiet, Founds, Revokes, Publishes, Approves, Activates
    <3>3. \A x \in revokedFor' : x \in Device /\ Clean(payload', x)
      BY <2>1, <2>2, <2>4 DEF RevokedInv, KeepsClean
    <3>4. \A x \in revokedFor' : Clean(mem, x)' /\ Clean(payload, x)'
      BY <3>1, <3>3 DEF Clean, Approvals
    <3> QED
      BY <3>2, <3>3, <3>4 DEF RevokedInv
  <2> QED
    BY <2>3, <2>4
<1>4. ASSUME NEW d \in Device, NEW id \in RequestId,
             AuditSync(d, id) \/ AuditUpdates(d, id)
      PROVE  RevokedInv'
  <2>1. (SyncVersion(d, id) \/ SyncUpdates(d, id)) /\ UNCHANGED revokedFor
    BY <1>4 DEF AuditSync, AuditUpdates
  <2> QED
    BY <2>1, SyncTurns, SameRevokedKept DEF DeviceRecorded
<1>5. ASSUME NEW id \in RequestId, NEW c \in Code, AuditApprove(id, c)
      PROVE  RevokedInv'
  <2> DEFINE asked == {a.device : a \in {x \in mem.activations : x.code = c}}
  <2>1. ApproveDevice(id, c) /\ revokedFor' = revokedFor \ asked
    BY <1>5 DEF AuditApprove
  <2>2. /\ mem = payload /\ KeepsClean(mem', asked)
        /\ KeepsClean(payload', asked) \/ payload' = payload
    BY <2>1, ApproveTurns DEF ApproveTurned
  <2> HIDE DEF asked
  <2> QED
    BY <2>1, <2>2, RevokedFrom DEF KeepsClean
<1>6. ASSUME NEW a \in mem.activations, AuditPoll(a)
      PROVE  RevokedInv'
  <2>1. PollDevice(a) /\ UNCHANGED revokedFor
    BY <1>6 DEF AuditPoll
  <2> QED
    BY <2>1, PollTurns, SameRevokedKept
<1>7. ASSUME NEW b \in Binding, NEW id \in RequestId, AuditPublish(b, id)
      PROVE  RevokedInv'
  <2>1. PublishShellCapability(b, id) /\ UNCHANGED revokedFor
    BY <1>7 DEF AuditPublish
  <2>2. /\ mem = payload
        /\ \A t \in {mem', payload'} : t = payload \/ KeepsClean(t, {})
    BY <2>1, PublishTurns DEF DeviceRecorded
  <2> QED
    BY <2>1, <2>2, SameRevokedKept
<1>8. ASSUME NEW id \in RequestId, AuditList(id)
      PROVE  RevokedInv'
  <2>1. ListShellCapabilities(id) /\ UNCHANGED revokedFor
    BY <1>8 DEF AuditList
  <2> QED
    BY <2>1, ListTurns, SameRevokedKept DEF RecordTurned
<1>9. ASSUME UNCHANGED history,
             Crash \/ Restart \/ Tick \/ UNCHANGED vars
      PROVE  RevokedInv'
  <2>1. UNCHANGED revokedFor
    BY <1>9 DEF history
  <2>2. \A d \in Device : Clean(Blank, d)
    BY DEF Clean, Blank, Approvals
  <2>3. \A t \in {mem', payload'} : \A d \in Device \ {} :
          Clean(mem, d) /\ Clean(payload, d) => Clean(t, d)
    BY <1>9, <2>2, RestartTurns DEF Crash, Tick, durable, volatile, vars
  <2>4. revokedFor' \subseteq revokedFor \ {}
    BY <2>1
  <2> QED
    BY <2>3, <2>4, RevokedFrom
<1>10. ASSUME NEW d \in Device, NEW cap \in Capability,
              NEW v \in 1..MaxBindingVersion, NEW k \in HostKeys,
              NEW id \in RequestId,
              AuditPublish(
                [device |-> d, capability |-> cap, version |-> v, keys |-> k],
                id)
       PROVE  RevokedInv'
  <2> DEFINE b == [device |-> d, capability |-> cap, version |-> v, keys |-> k]
  <2>1. b \in Binding
    BY EnrollmentAssumption DEF Binding
  <2> QED
    BY <1>7, <1>10, <2>1
<1> QED
  BY <1>1, <1>2, <1>3, <1>4, <1>5, <1>6, <1>8, <1>9, <1>10 DEF AuditNext

-----------------------------------------------------------------------------
(* Wrong user codes.                                                       *)

LEMMA SameCodesKept ==
  ASSUME IInv, CodesInv, UNCHANGED wrongCodes, now' \in {now, now + 1},
         payload' = payload \/ SameCodeWindow(payload, payload')
  PROVE  CodesInv'
<1>1. now \in Nat /\ payload.failedCodeWindow \in Nat
  BY ControlStateFields DEF IInv, TypeOK
<1> QED
  BY <1>1 DEF CodesInv, SameCodeWindow

LEMMA ApproveCodesKept ==
  ASSUME IInv, IInv', CodesInv, NEW id \in RequestId, NEW c \in Code,
         AuditApprove(id, c)
  PROVE  CodesInv'
<1> DEFINE o == OpenCodeWindow(mem)
<1> DEFINE wrong == /\ Answered /\ ~RateLimited(o)
                    /\ \A a \in mem.activations : a.code # c
<1>1. /\ ApproveDevice(id, c)
      /\ wrongCodes' = IF wrong
                       THEN [wrongCodes EXCEPT ![o.failedCodeWindow] = @ + 1]
                       ELSE wrongCodes
  BY DEF AuditApprove
<1>2. /\ mem = payload
      /\ CodesTurned(payload') \/ (payload' = payload /\ ~wrong)
      /\ wrong => payload'.failedCodeAttempts = o.failedCodeAttempts + 1
  BY <1>1, ApproveTurns DEF ApproveTurned
<1>3. now' = now
  BY <1>1 DEF ApproveDevice
<1>4. /\ now \in Nat \ {0} /\ payload \in ControlState
      /\ payload.failedCodeWindow \in Nat /\ payload.failedCodeAttempts \in Nat
      /\ MaxTime \in Nat /\ MaxFailedCodes \in Nat /\ FailedCodePeriod \in Nat
      /\ FailedCodePeriod # 0
  BY ControlStateFields, EnrollmentAssumption DEF IInv, TypeOK
<1>5. \/ /\ o.failedCodeWindow = now /\ o.failedCodeAttempts = 0
         /\ now > payload.failedCodeWindow
      \/ /\ o.failedCodeWindow = payload.failedCodeWindow
         /\ o.failedCodeAttempts = payload.failedCodeAttempts
  BY <1>2, <1>4 DEF OpenCodeWindow, ControlState
<1>6. ~RateLimited(o) => o.failedCodeAttempts < MaxFailedCodes
  BY <1>4, <1>5 DEF RateLimited
<1>7. /\ o.failedCodeWindow \in Nat /\ o.failedCodeAttempts \in Nat
      /\ o.failedCodeWindow <= now
      /\ \A t \in 1..MaxTime :
           /\ wrongCodes[t] \in Nat /\ wrongCodes[t] <= MaxFailedCodes
           /\ t > o.failedCodeWindow => wrongCodes[t] = 0
           /\ t = o.failedCodeWindow => wrongCodes[t] <= o.failedCodeAttempts
  BY <1>4, <1>5 DEF CodesInv
<1> HIDE DEF o
<1>8. CASE ~wrong
  <2>1. wrongCodes' = wrongCodes
    BY <1>1, <1>8
  <2>2. CASE payload' = payload
    BY <1>3, <2>1, <2>2 DEF CodesInv
  <2>3. CASE CodesTurned(payload')
    <3>1. /\ payload'.failedCodeWindow = o.failedCodeWindow
          /\ payload'.failedCodeAttempts \in {o.failedCodeAttempts,
                                              o.failedCodeAttempts + 1}
      BY <2>3 DEF CodesTurned, o
    <3> QED
      BY <1>3, <1>4, <1>7, <2>1, <3>1 DEF CodesInv
  <2> QED
    BY <1>2, <2>2, <2>3
<1>9. CASE wrong
  <2>1. /\ payload'.failedCodeWindow = o.failedCodeWindow
        /\ payload'.failedCodeAttempts = o.failedCodeAttempts + 1
        /\ o.failedCodeAttempts < MaxFailedCodes
    BY <1>2, <1>6, <1>9 DEF CodesTurned, o
  <2>2. wrongCodes' = [wrongCodes EXCEPT ![o.failedCodeWindow] = @ + 1]
    BY <1>1, <1>9
  <2>3. wrongCodes \in [1..MaxTime -> Nat]
    BY DEF CodesInv
  <2>4. wrongCodes' =
          [t \in 1..MaxTime |-> IF t = o.failedCodeWindow
                                THEN wrongCodes[t] + 1 ELSE wrongCodes[t]]
    BY <2>2, <2>3
  <2>5. \A t \in 1..MaxTime :
          wrongCodes'[t] = IF t = o.failedCodeWindow THEN wrongCodes[t] + 1
                           ELSE wrongCodes[t]
    BY <2>4
  <2>6. wrongCodes' \in [1..MaxTime -> Nat]
    BY <1>7, <2>4
  <2>7. ASSUME NEW t \in 1..MaxTime
        PROVE  /\ wrongCodes'[t] <= MaxFailedCodes
               /\ t > payload'.failedCodeWindow => wrongCodes'[t] = 0
               /\ t = payload'.failedCodeWindow
                    => wrongCodes'[t] <= payload'.failedCodeAttempts
    BY <1>4, <1>7, <2>1, <2>5
  <2> QED
    BY <1>3, <1>7, <2>1, <2>6, <2>7 DEF CodesInv
<1> QED
  BY <1>8, <1>9

LEMMA CodesKept ==
  ASSUME IInv, IInv', CodesInv, [AuditNext]_<<vars, history>>
  PROVE  CodesInv'
<1>1. ASSUME NEW o \in Device, AuditInitialize(o)
      PROVE  CodesInv'
  <2>1. InitializeOwner(o) /\ UNCHANGED wrongCodes /\ now' = now
    BY <1>1 DEF AuditInitialize, InitializeOwner
  <2>2. payload' = payload \/ SameCodeWindow(payload, payload')
    BY <2>1, InitializeOwnerTurns
  <2> QED
    BY <2>1, <2>2, SameCodesKept
<1>2. ASSUME NEW d \in Device, NEW id \in RequestId, AuditBegin(d, id)
      PROVE  CodesInv'
  <2>1. /\ BeginDeviceAuthorization(d, id) /\ UNCHANGED wrongCodes
        /\ now' = now
    BY <1>2 DEF AuditBegin, BeginDeviceAuthorization
  <2>2. payload' = payload \/ SameCodeWindow(payload, payload')
    BY <2>1, BeginTurns DEF BeginTurned
  <2> QED
    BY <2>1, <2>2, SameCodesKept
<1>3. ASSUME NEW d \in Device, NEW id \in RequestId, AuditRevoke(d, id)
      PROVE  CodesInv'
  <2>1. RevokeDevice(d, id) /\ UNCHANGED wrongCodes
    BY <1>3 DEF AuditRevoke
  <2>2. now' = now
    BY <2>1 DEF RevokeDevice
  <2>3. payload' = payload \/ SameCodeWindow(payload, payload')
    BY <2>1, RevokeTurns DEF RecordTurned
  <2> QED
    BY <2>1, <2>2, <2>3, SameCodesKept
<1>4. ASSUME NEW d \in Device, NEW id \in RequestId,
             AuditSync(d, id) \/ AuditUpdates(d, id)
      PROVE  CodesInv'
  <2>1. /\ SyncVersion(d, id) \/ SyncUpdates(d, id)
        /\ UNCHANGED wrongCodes
    BY <1>4 DEF AuditSync, AuditUpdates
  <2>2. now' = now
    BY <2>1 DEF SyncVersion, SyncUpdates
  <2>3. payload' = payload \/ SameCodeWindow(payload, payload')
    BY <2>1, SyncTurns DEF DeviceRecorded
  <2> QED
    BY <2>1, <2>2, <2>3, SameCodesKept
<1>5. ASSUME NEW id \in RequestId, NEW c \in Code, AuditApprove(id, c)
      PROVE  CodesInv'
  BY <1>5, ApproveCodesKept
<1>6. ASSUME NEW a \in mem.activations, AuditPoll(a)
      PROVE  CodesInv'
  <2>1. PollDevice(a) /\ UNCHANGED wrongCodes
    BY <1>6 DEF AuditPoll
  <2>2. now' = now
    BY <2>1 DEF PollDevice
  <2>3. payload' = payload \/ SameCodeWindow(payload, payload')
    BY <2>1, PollTurns
  <2> QED
    BY <2>1, <2>2, <2>3, SameCodesKept
<1>7. ASSUME NEW b \in Binding, NEW id \in RequestId, AuditPublish(b, id)
      PROVE  CodesInv'
  <2>1. PublishShellCapability(b, id) /\ UNCHANGED wrongCodes
    BY <1>7 DEF AuditPublish
  <2>2. now' = now
    BY <2>1 DEF PublishShellCapability
  <2>3. payload' = payload \/ SameCodeWindow(payload, payload')
    BY <2>1, PublishTurns DEF DeviceRecorded
  <2> QED
    BY <2>1, <2>2, <2>3, SameCodesKept
<1>8. ASSUME NEW id \in RequestId, AuditList(id)
      PROVE  CodesInv'
  <2>1. /\ ListShellCapabilities(id) /\ UNCHANGED wrongCodes /\ now' = now
    BY <1>8 DEF AuditList, ListShellCapabilities
  <2>2. payload' = payload \/ SameCodeWindow(payload, payload')
    BY <2>1, ListTurns DEF RecordTurned
  <2> QED
    BY <2>1, <2>2, SameCodesKept
<1>9. ASSUME UNCHANGED history,
             Crash \/ Restart \/ Tick \/ UNCHANGED vars
      PROVE  CodesInv'
  <2>1. UNCHANGED wrongCodes
    BY <1>9 DEF history
  <2>2. now' \in {now, now + 1}
    BY <1>9 DEF Crash, Restart, Tick, vars
  <2>3. payload' = payload \/ SameCodeWindow(payload, payload')
    BY <1>9, RestartTurns DEF Crash, Tick, durable, vars
  <2> QED
    BY <2>1, <2>2, <2>3, SameCodesKept
<1>10. ASSUME NEW d \in Device, NEW cap \in Capability,
              NEW v \in 1..MaxBindingVersion, NEW k \in HostKeys,
              NEW id \in RequestId,
              AuditPublish(
                [device |-> d, capability |-> cap, version |-> v, keys |-> k],
                id)
       PROVE  CodesInv'
  <2> DEFINE b == [device |-> d, capability |-> cap, version |-> v, keys |-> k]
  <2>1. b \in Binding
    BY EnrollmentAssumption DEF Binding
  <2> QED
    BY <1>7, <1>10, <2>1
<1> QED
  BY <1>1, <1>2, <1>3, <1>4, <1>5, <1>6, <1>8, <1>9, <1>10 DEF AuditNext

-----------------------------------------------------------------------------
(* The theorems.                                                           *)

LEMMA AuditInitInv == AuditInit => IInv /\ AuditInv
<1> SUFFICES ASSUME AuditInit PROVE IInv /\ AuditInv
  OBVIOUS
<1>1. IInv
  BY InitIInv DEF AuditInit
<1>2. /\ payload = Blank /\ mem = Blank /\ now = 1
      /\ told = {} /\ revokedFor = {} /\ ~repeated
      /\ ownerAnswered = {} /\ deviceAnswered = [d \in Device |-> {}]
      /\ wrongCodes = [t \in 1..MaxTime |-> 0]
  BY DEF AuditInit, Init
<1>3. ToldInv
  BY <1>2 DEF ToldInv, ToldVersionsStand
<1>4. RevokedInv
  BY <1>2 DEF RevokedInv
<1>5. CodesInv
  BY <1>2, EnrollmentAssumption DEF CodesInv, Blank
<1>6. WindowsInv
  BY <1>2 DEF WindowsInv, InWindow
<1> QED
  BY <1>1, <1>3, <1>4, <1>5, <1>6 DEF AuditInv

LEMMA AuditNextInv ==
  IInv /\ AuditInv /\ [AuditNext]_<<vars, history>> => (IInv /\ AuditInv)'
<1> SUFFICES ASSUME IInv, AuditInv, [AuditNext]_<<vars, history>>
             PROVE  (IInv /\ AuditInv)'
  OBVIOUS
<1>1. IInv' /\ Promised(payload, payload')
  BY AuditIsEnrollment, NextIInv
<1>2. ToldInv' /\ RevokedInv' /\ CodesInv' /\ WindowsInv'
  BY <1>1, ToldKept, RevokedKept, CodesKept, WindowsKept DEF AuditInv
<1> QED
  BY <1>1, <1>2 DEF AuditInv

\* What was told, revoked, counted and remembered agrees with what is saved,
\* in every reachable state.
THEOREM AuditInvariance == AuditSpec => [](IInv /\ AuditInv)
<1> QED
  BY AuditInitInv, AuditNextInv, PTL DEF AuditSpec

\* A directory version a client was told stands for one directory and is
\* never undone, whichever save fails and whenever the Gateway crashes.
THEOREM ToldStands == AuditSpec => []ToldVersionsStand
<1>1. AuditInv => ToldVersionsStand
  BY DEF AuditInv, ToldInv
<1> QED
  BY <1>1, AuditInvariance, PTL

\* No activation left over, no crash and no restart makes a device active
\* again whose revocation was confirmed, until the Owner asks to approve it.
THEOREM RevocationsHold == AuditSpec => []RevocationHolds
<1>1. AuditInv => RevocationHolds
  BY DEF AuditInv, RevokedInv, Clean, RevocationHolds
<1> QED
  BY <1>1, AuditInvariance, PTL

\* A window never answers more wrong user codes than the limit, however often
\* the Gateway is restarted within it.
THEOREM WrongCodesLimited == AuditSpec => []WrongCodesBounded
<1>1. AuditInv => WrongCodesBounded
  BY DEF AuditInv, CodesInv, WrongCodesBounded
<1> QED
  BY <1>1, AuditInvariance, PTL

\* An answered request is not answered again while its signer's window, of
\* whatever size, still has to hold it.
THEOREM RequestsAnsweredOnce == AuditSpec => []NoRequestAnsweredTwice
<1>1. AuditInv => NoRequestAnsweredTwice
  BY DEF AuditInv, WindowsInv, NoRequestAnsweredTwice
<1> QED
  BY <1>1, AuditInvariance, PTL

=============================================================================
