----------------------------- MODULE RouteLease -----------------------------
(***************************************************************************)
(* The Gateway's route lease Manager (internal/routelease/manager.go).     *)
(* Every HTTP request runs in a goroutine of its own, a Call here.  The    *)
(* Manager's mutex protects only its maps: the clock is read before the    *)
(* lock, the Broker is called after it, and Release looks a lease up under *)
(* one lock and deletes it under another.  Calls interleave between those  *)
(* steps, and with time, failing Broker calls and a crash of the Gateway.  *)
(*                                                                         *)
(* Simplifications.                                                        *)
(*  - A Key is the subject and request ID of a correctly signed and        *)
(*    authorised Issue request.  Other requests change nothing.            *)
(*  - A release comes from a client that knows the lease ID, hence from    *)
(*    the subject it was given to.                                         *)
(*  - The Broker is external (only its interface is in src/).  As its      *)
(*    comment demands, it stops a proxy no later than its expiry.          *)
(***************************************************************************)
EXTENDS Integers, Sequences, FiniteSets, Functions

CONSTANTS
  Call,          \* goroutines serving requests
  Key,           \* <subject, request ID> of signed Issue requests
  Lease,         \* IDs the random source can still draw
  NoKey, NoLease,
  MaxReplayIDs,  \* maxReplayIDs (4096)
  MaxActive,     \* maxActiveLease (256)
  TTL,           \* DefaultTTL (2 min)
  MaxTime        \* bound: the clock stops here

ASSUME RouteLeaseAssumption ==
  /\ NoLease \notin Lease
  /\ {MaxReplayIDs, TTL} \subseteq Nat \ {0}
  /\ {MaxActive, MaxTime} \subseteq Nat

VARIABLES
  active,      \* DOMAIN of Manager.active
  expires,     \* expiry of each lease drawn
  replayList,  \* Manager.replayList; its range is Manager.replays
  call,        \* the goroutines
  proxies,     \* Broker: leases whose target-side proxy is open
  now,
  drawn,       \* lease IDs drawn so far
  given,       \* clients: lease IDs received
  \* History.
  recorded,    \* keys recorded since the Gateway started, in order
  released,    \* leases answered as "released"
  failed,      \* leases a Close of which failed
  orphaned     \* leases whose proxy was open when the Gateway crashed

history == <<recorded, released, failed, orphaned>>
vars == <<active, expires, replayList, call, proxies, now, drawn, given,
          history>>

Idle ==
  [step |-> "idle", key |-> NoKey, lease |-> NoLease, now |-> 0,
   closing |-> {}]

Step == {"idle", "recording", "opening", "undoing", "releasing", "closing"}

TypeOK ==
  /\ active \subseteq Lease
  /\ expires \in [Lease -> Nat]
  /\ replayList \in Seq(Key)
  /\ call \in [Call -> [step : Step, key : Key \cup {NoKey},
                        lease : Lease \cup {NoLease}, now : Nat,
                        closing : SUBSET Lease]]
  /\ proxies \subseteq Lease
  /\ now \in Nat
  /\ drawn \subseteq Lease
  /\ given \subseteq Lease
  /\ recorded \in Seq(Key)
  /\ {released, failed, orphaned} \subseteq SUBSET Lease

Init ==
  /\ active = {}
  /\ expires = [l \in Lease |-> 0]
  /\ replayList = <<>>
  /\ call = [c \in Call |-> Idle]
  /\ proxies = {}
  /\ now = 1
  /\ drawn = {}
  /\ given = {}
  /\ recorded = <<>>
  /\ released = {} /\ failed = {} /\ orphaned = {}

-----------------------------------------------------------------------------
(* Issue.                                                                  *)

\* Faulty variant: the lifetime is subtracted.
ExpiryBackdated(u) == IF u < now - TTL THEN u ELSE now - TTL

\* No later than the authorization's expiry u.
Expiry(u) == IF u < now + TTL THEN u ELSE now + TTL

\* Up to the lock: the clock is read, the ID drawn and the expiry computed
\* for an authorization valid until u.
BeginIssue(c, k, l, u) ==
  /\ call[c] = Idle
  /\ now < u
  /\ l \notin drawn
  /\ drawn' = drawn \cup {l}
  /\ expires' = [expires EXCEPT ![l] = Expiry(u)]
  /\ call' = [call EXCEPT ![c] = [step |-> "recording", key |-> k, lease |-> l,
                                  now |-> now, closing |-> {}]]
  /\ UNCHANGED <<active, replayList, proxies, now, given, history>>

\* pruneLocked, for the time a call read.
ExpiredLeases(t) == {l \in active : t >= expires[l]}

\* Faulty variant: a full list stays as it is.
RecordReplayIfRoom(k) ==
  replayList' = IF Len(replayList) >= MaxReplayIDs THEN replayList
                ELSE Append(replayList, k)

\* recordReplayLocked.
RecordReplay(k) ==
  replayList' = Append(IF Len(replayList) >= MaxReplayIDs THEN Tail(replayList)
                       ELSE replayList, k)

\* Faulty variants: one lease too many; the leases counted before pruning.
FullLate(rest) == Cardinality(rest) > MaxActive
FullBeforePruning(rest) == Cardinality(active \cup rest) >= MaxActive

Full(rest) == Cardinality(rest) >= MaxActive

\* The locked part.  A refusal for capacity returns without closing what it
\* has pruned.
RecordLease(c) ==
  LET me      == call[c]
      expired == ExpiredLeases(me.now)
      rest    == active \ expired
  IN  /\ me.step = "recording"
      /\ \/ /\ me.key \in Range(replayList)         \* REQUEST_REPLAYED
            /\ call' = [call EXCEPT ![c] = Idle]
            /\ UNCHANGED <<active, replayList, recorded>>
         \/ /\ me.key \notin Range(replayList)
            /\ Full(rest)                           \* ROUTE_CAPACITY_REACHED
            /\ active' = rest
            /\ call' = [call EXCEPT ![c] = Idle]
            /\ UNCHANGED <<replayList, recorded>>
         \/ /\ me.key \notin Range(replayList)
            /\ ~Full(rest)
            /\ active' = rest \cup {me.lease}
            /\ RecordReplay(me.key)
            /\ recorded' = Append(recorded, me.key)
            /\ call' = [call EXCEPT ![c].step = "opening",
                                    ![c].closing = expired]
      /\ UNCHANGED <<expires, proxies, now, drawn, given, released, failed,
                     orphaned>>

\* Broker.Close of lease l, which may fail and leave the proxy open.
Close(l, ok) ==
  /\ proxies' = IF ok THEN proxies \ {l} ELSE proxies
  /\ failed' = IF ok THEN failed ELSE failed \cup {l}

CloseExpired(c, ok) ==
  /\ call[c].step = "opening"
  /\ \E l \in call[c].closing :
       /\ Close(l, ok)
       /\ call' = [call EXCEPT ![c].closing = @ \ {l}]
  /\ UNCHANGED <<active, expires, replayList, now, drawn, given, recorded,
                 released, orphaned>>

\* Broker.Open.  The proxy of an expired lease does not come up; one whose
\* Open fails may have.  The answer may not reach the client.
OpenProxy(c, ok) ==
  LET me == call[c]
  IN  /\ me.step = "opening"
      /\ me.closing = {}
      /\ \/ /\ ok
            /\ proxies' = IF now < expires[me.lease]
                          THEN proxies \cup {me.lease} ELSE proxies
            /\ given' \in {given, given \cup {me.lease}}
            /\ call' = [call EXCEPT ![c] = Idle]
         \/ /\ ~ok
            /\ proxies' \in {proxies} \cup
                 IF now < expires[me.lease] THEN {proxies \cup {me.lease}}
                                            ELSE {}
            /\ call' = [call EXCEPT ![c].step = "undoing"]
            /\ UNCHANGED given
      /\ UNCHANGED <<active, expires, replayList, now, drawn, history>>

\* Faulty variant: the lease of a failed Open is deleted and left at that.
UndoLeaseUnclosed(c) ==
  /\ call[c].step = "undoing"
  /\ active' = active \ {call[c].lease}
  /\ call' = [call EXCEPT ![c] = Idle]
  /\ UNCHANGED <<expires, replayList, proxies, now, drawn, given, history>>

\* The lease of a failed Open is deleted, then closed.
UndoLease(c) ==
  /\ call[c].step = "undoing"
  /\ active' = active \ {call[c].lease}
  /\ call' = [call EXCEPT ![c].step = "closing"]
  /\ UNCHANGED <<expires, replayList, proxies, now, drawn, given, history>>

-----------------------------------------------------------------------------
(* Release.                                                                *)

\* ROUTE_LEASE_NOT_FOUND, or the lease has meanwhile gone.
NotFound(l) == l \notin active /\ UNCHANGED active

\* The lookup.
BeginRelease(c, l) ==
  /\ call[c] = Idle
  /\ l \in given
  /\ \/ NotFound(l) /\ UNCHANGED call
     \/ /\ l \in active
        /\ call' = [call EXCEPT ![c] = [step |-> "releasing", key |-> NoKey,
                                        lease |-> l, now |-> 0,
                                        closing |-> {}]]
        /\ UNCHANGED active
  /\ UNCHANGED <<expires, replayList, proxies, now, drawn, given, recorded,
                 released, failed, orphaned>>

\* The second lock, after the signature has been verified.
DeleteLease(c) ==
  LET l == call[c].lease
  IN  /\ call[c].step = "releasing"
      /\ \/ NotFound(l) /\ call' = [call EXCEPT ![c] = Idle]
         \/ /\ l \in active
            /\ active' = active \ {l}
            /\ call' = [call EXCEPT ![c].step = "closing"]
      /\ UNCHANGED <<expires, replayList, proxies, now, drawn, given, recorded,
                     released, failed, orphaned>>

\* Faulty variant: a failed Close is answered as "released" too.
AnswerReleased(l, ok) ==
  released' = IF l \in given THEN released \cup {l} ELSE released

\* Only a Release, whose lease a client knows, reports the outcome of Close.
AnswerRelease(l, ok) ==
  released' = IF ok /\ l \in given THEN released \cup {l} ELSE released

\* The last Close of a Release, or of an Issue whose Open failed.
CloseLease(c, ok) ==
  LET l == call[c].lease
  IN  /\ call[c].step = "closing"
      /\ Close(l, ok)
      /\ AnswerRelease(l, ok)
      /\ call' = [call EXCEPT ![c] = Idle]
      /\ UNCHANGED <<active, expires, replayList, now, drawn, given, recorded,
                     orphaned>>

-----------------------------------------------------------------------------
(* The process and time.                                                   *)

\* Everything the Manager knows is in memory.
Crash ==
  /\ active' = {}
  /\ replayList' = <<>>
  /\ recorded' = <<>>
  /\ call' = [c \in Call |-> Idle]
  /\ orphaned' = orphaned \cup proxies
  /\ UNCHANGED <<expires, proxies, now, drawn, given, released, failed>>

\* Time, with the Broker's promise that no proxy outlives its expiry.
Tick ==
  /\ now < MaxTime
  /\ now' = now + 1
  /\ proxies' = {l \in proxies : now + 1 < expires[l]}
  /\ UNCHANGED <<active, expires, replayList, call, drawn, given, history>>

Next ==
  \/ \E c \in Call :
       \/ \E k \in Key, l \in Lease, u \in 1..(MaxTime + TTL) :
            BeginIssue(c, k, l, u)
       \/ RecordLease(c)
       \/ \E ok \in BOOLEAN : CloseExpired(c, ok) \/ OpenProxy(c, ok)
                                \/ CloseLease(c, ok)
       \/ UndoLease(c)
       \/ \E l \in Lease : BeginRelease(c, l)
       \/ DeleteLease(c)
  \/ Crash
  \/ Tick

Spec == Init /\ [][Next]_vars

-----------------------------------------------------------------------------
(* Properties.                                                             *)

\* The Manager never counts more leases than its capacity, however Issues
\* interleave between reading the clock and taking the lock.
ActiveWithinCapacity == Cardinality(active) <= MaxActive

\* The call that will close lease l, or decide whether to.
Handles(c, l) ==
  \/ l \in call[c].closing
  \/ l = call[c].lease /\ call[c].step \in {"opening", "undoing", "closing"}

\* An open proxy is never forgotten: its lease is active, or a call that has
\* taken it off the active leases (or not yet answered it) is still going to
\* close it, or a Close of it has failed or died with the Gateway.  In
\* particular a refusal for capacity, which returns without closing what it
\* pruned, never has pruned anything; and a lease pruned by one call while
\* another is still opening its proxy cannot come up any more.
NoForgottenProxy ==
  \A l \in proxies :
    l \in active \cup failed \cup orphaned \/ \E c \in Call : Handles(c, l)

\* A lease that leaves the active leases leaves them into the hands of the
\* call that removed it, which closes its proxy; only a crash drops leases.
PrunedLeasesAreClosed ==
  [][\/ Crash
     \/ \A l \in active \ active' : \E c \in Call : Handles(c, l)']_vars

\* A lease answered as released stays closed: no late Open, no second
\* Release and no restart brings its proxy back.
ReleasedStaysClosed ==
  released \cap (proxies \cup active) = {}

\* A signed request is accepted again at the earliest after MaxReplayIDs
\* others, in one life of the Gateway.
ReplayWindowHolds ==
  \A i, j \in DOMAIN recorded :
    i < j /\ recorded[i] = recorded[j] => j - i > MaxReplayIDs

=============================================================================
