--------------------------- MODULE EnrollmentAudit ---------------------------
(***************************************************************************)
(* What the clients of the Gateway have been told.  History variables      *)
(* record the answers of the handlers of Enrollment; the invariants say    *)
(* that a later state, of this process or of one restarted after a crash,  *)
(* never contradicts an answer already given.  A handler has answered when *)
(* it finished with all its saves done (Answered).                         *)
(***************************************************************************)
EXTENDS Enrollment

VARIABLES
  told,        \* <<version, directory>> pairs that answers carried
  revokedFor,  \* devices whose revocation was confirmed, unless the Owner
               \* has since asked to approve an activation of theirs
  ownerAnswered,   \* <<request ID, age>> of the Owner's requests answered;
                   \* the age counts his requests that were handled since
  deviceAnswered,  \* the same for each device
  repeated,        \* an answer was given again too early
  wrongCodes   \* answers INVALID_USER_CODE, by start of their window

requests == <<ownerAnswered, deviceAnswered, repeated>>
history == <<told, revokedFor, requests, wrongCodes>>

AuditInit ==
  /\ Init
  /\ told = {} /\ revokedFor = {}
  /\ ownerAnswered = {} /\ deviceAnswered = [d \in Device |-> {}]
  /\ repeated = FALSE
  /\ wrongCodes = [t \in 1..MaxTime |-> 0]

Answered == ~persistenceFailed'

\* The part of the state a directory version stands for.
Directory(s) == [device |-> s.device, bindings |-> s.shellBindings]

Tells(yes) ==
  told' = IF Answered /\ yes
          THEN told \cup {<<mem'.directoryVersion, Directory(mem')>>}
          ELSE told

\* One more request is handled: what was answered bound requests ago counts
\* no longer.
Aged(answers, id, bound) ==
  {x \in {<<y[1], y[2] + 1>> : y \in answers}
           \cup (IF Answered THEN {<<id, 0>>} ELSE {}) : x[2] < bound}

Again(answers, id) == Answered /\ \E x \in answers : x[1] = id

OwnerSigns(id) ==
  /\ ownerAnswered' = Aged(ownerAnswered, id, MaxOwnerReplayIDs)
  /\ repeated' = (repeated \/ Again(ownerAnswered, id))
  /\ UNCHANGED deviceAnswered

DeviceSigns(d, id) ==
  /\ deviceAnswered' =
       [deviceAnswered EXCEPT ![d] = Aged(@, id, MaxDeviceReplayIDs)]
  /\ repeated' = (repeated \/ Again(deviceAnswered[d], id))
  /\ UNCHANGED ownerAnswered

\* Begin may delete old buckets, whose IDs may recur.
BeginSigns(d, id) ==
  LET kept == [x \in Device |-> IF x \in StaleBuckets THEN {}
                                ELSE deviceAnswered[x]]
  IN  /\ IF BeginRefused(PruneExpiredState, buckets \ StaleBuckets, d, id)
         THEN deviceAnswered' = kept /\ UNCHANGED repeated
         ELSE /\ deviceAnswered' =
                   [kept EXCEPT ![d] = Aged(@, id, MaxDeviceReplayIDs)]
              /\ repeated' = (repeated \/ Again(kept[d], id))
      /\ UNCHANGED ownerAnswered

AuditInitialize(o) ==
  /\ InitializeOwner(o)
  /\ Tells(TRUE)
  /\ UNCHANGED <<revokedFor, requests, wrongCodes>>

AuditBegin(d, id) ==
  /\ BeginDeviceAuthorization(d, id)
  /\ BeginSigns(d, id)
  /\ UNCHANGED <<told, revokedFor, wrongCodes>>

AuditApprove(id, c) ==
  /\ ApproveDevice(id, c)
  /\ OwnerSigns(id)
  /\ LET asked == {a.device : a \in {x \in mem.activations : x.code = c}}
     IN  revokedFor' = revokedFor \ asked
  /\ LET s     == OpenCodeWindow(mem)
         wrong == /\ Answered /\ ~RateLimited(s)
                  /\ \A a \in mem.activations : a.code # c
     IN  wrongCodes' = IF wrong
                       THEN [wrongCodes EXCEPT ![s.failedCodeWindow] = @ + 1]
                       ELSE wrongCodes
  /\ UNCHANGED told

AuditPoll(a) ==
  /\ PollDevice(a)
  /\ Tells(mem'.directoryVersion # mem.directoryVersion)
  /\ UNCHANGED <<revokedFor, requests, wrongCodes>>

AuditRevoke(d, id) ==
  /\ RevokeDevice(d, id)
  /\ OwnerSigns(id)
  /\ LET done == Answered /\ d # mem.owner
     IN  /\ Tells(done /\ mem.device[d] = "active")
         /\ revokedFor' = IF done /\ mem.device[d] = "active"
                          THEN revokedFor \cup {d} ELSE revokedFor
  /\ UNCHANGED wrongCodes

AuditSync(d, id) ==
  /\ SyncVersion(d, id)
  /\ Tells(TRUE)
  /\ DeviceSigns(d, id)
  /\ UNCHANGED <<revokedFor, wrongCodes>>

AuditUpdates(d, id) ==
  /\ SyncUpdates(d, id)
  /\ DeviceSigns(d, id)
  /\ UNCHANGED <<told, revokedFor, wrongCodes>>

AuditPublish(b, id) ==
  /\ PublishShellCapability(b, id)
  /\ IF PublishRefused(b) THEN UNCHANGED <<told, requests>>
     ELSE Tells(TRUE) /\ DeviceSigns(b.device, id)
  /\ UNCHANGED <<revokedFor, wrongCodes>>

AuditList(id) ==
  /\ ListShellCapabilities(id)
  /\ Tells(TRUE)
  /\ OwnerSigns(id)
  /\ UNCHANGED <<revokedFor, wrongCodes>>

AuditNext ==
  \/ \E o \in Device : AuditInitialize(o)
  \/ \E d \in Device, id \in RequestId :
       \/ AuditBegin(d, id)
       \/ AuditRevoke(d, id)
       \/ AuditSync(d, id)
       \/ AuditUpdates(d, id)
  \/ \E id \in RequestId, c \in Code : AuditApprove(id, c)
  \/ \E a \in mem.activations : AuditPoll(a)
  \/ \E d \in Device, cap \in Capability, v \in 1..MaxBindingVersion,
        k \in HostKeys, id \in RequestId :
       AuditPublish(
         [device |-> d, capability |-> cap, version |-> v, keys |-> k], id)
  \/ \E id \in RequestId : AuditList(id)
  \/ (Crash \/ Restart \/ Tick) /\ UNCHANGED history

AuditSpec == AuditInit /\ [][AuditNext]_<<vars, history>>

-----------------------------------------------------------------------------
(* Properties.                                                             *)

\* A directory version a client was told always stands for one directory, and
\* is never undone: no two answers, of any process, carry the same version
\* for different devices or bindings, and the saved version is never lower
\* than one already told (failed saves, crashes and restarts included).
ToldVersionsStand ==
  /\ \A x, y \in told : x[1] = y[1] => x = y
  /\ \A x \in told : x[1] <= payload.directoryVersion

\* A confirmed revocation holds until the Owner asks to approve the device
\* again: no activation left over from before, no crash and no restart makes
\* the device active again.
RevocationHolds ==
  \A d \in revokedFor : "active" \notin {mem.device[d], payload.device[d]}

\* A signed request that was answered is not answered again, not even by a
\* Gateway restarted in between, before its signer had as many further
\* requests handled as the Gateway remembers (maxOwnerReplayIDs,
\* maxDeviceReplayIDs), or the device's bucket was deleted as old.
NoRequestAnsweredTwice == ~repeated

\* Within one rate-limit window at most MaxFailedCodes wrong user codes are
\* answered as such, also when the Gateway is restarted within the window.
WrongCodesBounded == \A t \in 1..MaxTime : wrongCodes[t] <= MaxFailedCodes

=============================================================================
