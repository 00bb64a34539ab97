# PF Remote: TLA+ models and proofs

PF Remote lets the devices of one owner reach each other's shells and desktops.
A self-hosted *Gateway* keeps the list of devices and what they may do; a daemon
(`pfremoted`) on every device keeps a signed snapshot of that list and runs
sessions; a command line, an MCP server and a Windows application talk to the
daemon; installers and updaters replace the programs. This directory models the
parts whose correctness depends on the order of events, checks them with TLC and
proves their main invariants with TLAPS.

## 1. Inventory

Go paths are below `internal/` unless they start with `cmd/`.

| Component | State | Operations | What is hard | What makes it correct | Model |
|---|---|---|---|---|---|
| enrollment Manager (`enrollment/`) | devices, activations, request-ID windows, versions, Shell bindings; saved as one row | nine signed or code-bearing requests, load at start | a save whose outcome is unknown, a crash inside a handler, expiry against approval, replays, bounds that loading re-checks | memory equals disk while it answers; only an unused approval activates; versions advance with the content they stand for; what is saved can be loaded | `Enrollment` |
| control-state rows (`state/store.go`) | payload, revocation rows, version row | save with or without a status change | two representations of one fact | they agree in every state a reader can see | `Enrollment`, `StateStore` |
| route lease Manager (`routelease/`) | active leases, window of used request IDs; in memory only | Issue, Release, calls to the frp Broker | concurrent calls between three lock regions, failing Broker calls, expiry, restart | capacity; no open proxy without an owner; a release is final; a signed request is accepted once per window | `RouteLease` |
| state snapshots (`state/`) | committed snapshots, the active one, authorization clock, binding versions | commit, load the latest valid one with fallback, replace by a recovered database | fallback after damage, the overlay applied on load, a clock that must not go back | no revocation is lost by a fallback; bindings never go back; expired authority stays expired | `StateStore` |
| capability synchronisation (`capabilitysync/`, `cmd/pfremoted`) | retry flags, the snapshot in hand | publish, list, import, renew, commit | Gateway and daemon versions drift | the daemon converges to the Gateway's directory | `Directory` |
| recovery (`recovery/`) | encrypted bundle | export, restore | two states that must match at export, four tables replaced at once | a restored database loads and is what was exported | `Directory` |
| fleet updates (`enrollment/updates.go`, `cmd/pfremoted/fleet_updates.go`, `updatecheck/`) | hint counter, cursor, monitor timers | sync, hint, check | coalesced notices, a cursor saved before the hint is used | every device eventually handles the latest release | `FleetUpdates` |
| update hand-off (`autoupdate/`, `localapi/maintenance.go`, `cmd/pfremoted/updates.go`) | status file, action gate, staged packages | stage, verify, begin, cancel | a lease that ends while an installer runs, a Setup that dies | a hand-off that died is tried again | `FleetUpdates` |
| release trust (`releaseauth/`) | accepted sequence, high-water time | bootstrap, accept | rollback, freeze, crash at bootstrap, a lost file | accepted sequences never go back | `FleetUpdates` |
| Linux update (`linuxinstaller/`, `cmd/pfremote-update`) | three programs, their copies, a journal, the unit's drop-in, a lock, a status file | update, recover before the service starts | a crash or error at any file operation, a service restart in the middle | what recovery leaves changes as a whole, only to a release that is healthy | `LinuxUpgrade` |
| Windows installation (`windowsinstaller/`, `cmd/pfremote-setup`) | version directories, two selection records, helper, Run key, shortcut, background programs, a scheduled task | install, upgrade, recover at sign-in, roll back, uninstall, restart in the visible session | several Setup processes of which some work without the lock, a crash or error anywhere | the version a user has changes in one step; retained versions are whole | `WindowsSetup` |
| sessions (`session/`, `desktop/`, `desktopforward/`, `executor/`) | one running session, its forward, the viewer | run, watch, cancel | exit, expiry, revocation and a caller that goes race; cleanup on every path | a session that is over holds nothing; nobody ends the forward of an authorized viewer; nothing runs on for nobody | `Session` |
| routes (`route/`, `route/frp/`, `route/tailscale`) | acquisitions under way | acquire in turn or all at once, select, close | losers must be closed; a lost answer | everything acquired is given back | `Routes` |
| not state machines | | identity, key files, credentials, displays, migration, front ends, the Windows application | I/O, cryptography, presentation | | none |

The daemon calls the Gateway over HTTPS (enrollment, synchronisation, leases,
updates). The Gateway and the daemon each own a SQLite database accessed through
`state.Store`; on the Gateway's computer it is the same one, and the overlay rows
are how a revocation reaches the daemon's view of a snapshot. Sessions acquire
routes, and the frp route acquires a lease. The monitor hands a verified package
to an installer, which stops the daemon.

`PROJECT.json` lists the hazards of this code, each at its line, with the
properties that would report it going wrong.

## 2. Modules

| Module | Models |
|---|---|
| `DeviceAuthority` | abstract: what enrollment promises about devices, approvals, bindings and versions |
| `Enrollment` | the enrollment Manager with its saves, the three rows, crash, restart and time |
| `EnrollmentAudit` | history variables over `Enrollment`: what clients have been told |
| `RouteLease` | the route lease Manager, its concurrent calls and the Broker |
| `AtomicUpgrade` | abstract: what an update of the Linux programs promises |
| `LinuxUpgrade` | the update of the Linux programs, recovery, the service it restarts |
| `VersionSwitch` | abstract: what the Windows installation promises about the version a user has |
| `WindowsSetup` | concurrent Setup processes on Windows, the installer's lock, the background programs |
| `FleetUpdates` | hints, cursor, monitor, trust store, action gate, hand-off and Setup of one computer |
| `StateStore` | the snapshots, binding versions, clock and overlay rows of one database |
| `Directory` | extends `StateStore`: the daemon's synchronization with the Gateway, export and restore |
| `Routes` | the selector, direct dials and the FRP adapter |
| `Session` | extends `Routes`: a request's session, its forward and its viewer |
| `EnrollmentProofs`, `RouteLeaseProofs`, `LinuxUpgradeProofs`, `WindowsSetupProofs`, `FleetUpdatesProofs`, `DirectoryProofs`, `SessionProofs` | theorems about the modules they extend, with the refinements of `DeviceAuthority`, `AtomicUpgrade` and `VersionSwitch` |
| `EnrollmentAuditProofs` | extends `EnrollmentProofs`: theorems about `EnrollmentAudit` |
| `MC...` | small instances for TLC, with bounds on requests and faults, and fairness |

### Enrollment

Every handler of `enrollment.Manager` holds the mutex for its whole duration, so
one handler is one action: `InitializeOwner`, `BeginDeviceAuthorization`,
`ApproveDevice`, `PollDevice`, `RevokeDevice`, `SyncVersion`, `SyncUpdates`,
`PublishShellCapability`, `ListShellCapabilities`. `mem` holds the fields that
`persistenceSnapshot` copies; `buckets` and `deviceRequestSince` are the two maps
whose keys differ from them (a bucket can be open and empty; a bucket opened by
`SyncVersion` has no opening time). `payload`, `revocations` and `versions` are
the rows `control_state`, `device_revocations` and `control_versions`.

A handler hands `Persist` or `PersistDeviceStatus` the sequence of states it
saves. All saves succeed (`SaveAll`), or one fails (`SaveFails`): the handler
stops there, the latch `persistenceFailed` is set, and the transaction may or may
not have reached the disk. A crash between two saves leaves the disk as such a
failure does, so that `Crash` itself is an action between handlers.
`Restart` is `NewPersistentManager`: what `restore` checks is its guard, so a
payload it rejects keeps the Gateway down.

Requests are not consumed by an action: any request can come again at any time,
which covers duplicates, delays and replays.

`EnrollmentAudit` conjoins to each action what its answer tells the client, and
only when all saves succeeded. Of a signed request it keeps the ID with an age:
how many requests of the same signer were handled since. An answer is forgotten
at the age the Gateway's window of request IDs has, or when the device's bucket is
deleted as old, so that windows that overflow are covered as well.

### RouteLease

The mutex of `routelease.Manager` protects only its maps, so `Issue` is four
kinds of steps (`BeginIssue` before the lock, `RecordLease` under it,
`CloseExpired` and `OpenProxy` after it, and `UndoLease`, `CloseLease` when the
Open failed) and `Release` three (`BeginRelease`, `DeleteLease`, `CloseLease`).
`call[c]` is the position and the local variables of one request's goroutine.
The Broker is an interface without an implementation in this repository; the
model takes from its comment that a proxy never outlives the expiry it was
opened with, and lets Open and Close fail with either effect.

### LinuxUpgrade

`setup` is the process that holds the lock file: an update, or the recovery that
ExecStartPre runs. `setup.pc` is its position, `purpose` tells the three uses of
`Recover` apart (before the service starts, at the start of `Upgrade`, in its
rollback), `next` is the index in `names` of the loop it is in, `existing` the
journal it is about to write, `phase` what the deferred `WriteStatus` will say.
`bin` and `backup` are the programs and their copies in `.update`, `pending` the
journal `pending.json` (absent, torn or written). `dropIn` is the file
`updates.conf` with the ExecStartPre line, and `unit` says whether the unit that
systemd has loaded has that line: the service starts by the latter.

One action is one file operation: the helper is created, then filled; the drop-in
is truncated, written and reloaded, at every update; a copy goes to a temporary
file and appears whole; the journal is created, then written and synced.
`FileFails` lets any of them fail, `Crash` stops the process and `PowerLoss` the
computer between any two. The drop-in is not synced, so that `PowerLoss` can leave
it torn from its rewriting to the end of that update; `ReadUnits` is a
daemon-reload by somebody else. `RestartService` is `systemctl restart`;
the service then starts in a step of its own, and may stop and be started again
by systemd at any time. A start finds the lock held and goes on, or takes it and
recovers first. The health check passes only if the service runs, and may fail
for any reason.

`Installed` is what `Recover` would leave of each program. It is the refinement
mapping: in `AtomicUpgrade` an update is one step.

Idealised: a new helper, which is not synced either, is on the disk when its write
has returned, and the drop-in when its update has ended; directory operations
reach the disk in the order of the calls. (On Windows, too, what Setup has written
is taken to survive a power loss, although extraction does not sync it.)

Left out: the contents of packages (`VerifyPackage` has succeeded), the trust
store and the hand-off by the daemon (both in `FleetUpdates`), and `Idle`, which
is always true on Linux.

### WindowsSetup

Any number of Setup processes: commands of the user or of the daemon
(`BeginInstall`, `BeginRollback`, `BeginUninstall`), the sign-in command
(`BeginSignIn`) and the action of the scheduled task that carries a restart into
the visible session (`BeginAgent`). `proc[p]` is the position, purpose and local
values of one. `lock` is the lock file of `windowsinstaller`; what the callers do
before it (deciding whether to install or to upgrade) and after it (activation
after `Install`, `Rollback` or a recovery) happens without it, as in the code.

`versions` says of each version directory whether it is absent, whole or damaged
("headless": damaged and without the program that tells that a version is there).
A removal has every outcome an error or a program in use can give it (`Removed`).
`Fail` is an error return: an upgrade whose record is written goes to `restore`,
as `Upgrade` does with its deferred recovery; everything else ends.
`StepFails` lets each call fail, `Killed` ends one process, `PowerOff` all.

`VersionSwitch` sees what recovery would select (`pending`, or else `current`).

### FleetUpdates

One computer with the Gateway's update row. A hint spreads in steps: the row is
saved (`Sync`, `PeerAnnounces`), the answer arrives or is lost, the cursor is
saved (`SaveCursor`), the monitor is told (`HintMonitor`), and takes the hint or
drops it (`TakeHint`, the `notBefore` of `updatecheck.Monitor`). A check is
`Discover`, `Stage`, `VerifyStaged`, then `applyBackgroundUpdate`: `BeginUpdate`
takes the gate, `WriteInstalling` the status, `StartSetup` hands over.
`Accept` is `releaseauth.Store.Accept`, a trust store's checkpoint and clock;
its creation is three steps (`Bootstrap`, `CreateTrust`, `FillTrust`), because a
process can die between the marker, the file and its table. Setup takes the lock
at its beginning on Linux, and after it has verified the package on Windows; what
it then does to the programs is one step that succeeds or fails, since
`LinuxUpgrade` and `WindowsSetup` say how.

Clocks are read, not advanced: every look sees some time, so that a clock that is
set back is no special case. The periods of the gate's lease, of a status and of
notices are flags that end at some moment.

### StateStore and Directory

`StateStore` has one operator per method of `state.Store`, each one SQLite
transaction. `Valid` are the snapshots that would pass the checks of
`LoadLatestValidSnapshot`, `Chosen` the one it takes, `View` what it returns,
with the overlay rows applied.

In `Directory` the daemon is `daemon.pc` and the snapshot it has in hand, which
may be older than the one in the store: `Start`, `Bind`, then rounds of
`NextSync`, `Publish`, `Ask` and, on the Owner's computer, `Apply` and `Commit`
(claims of other Devices), on a controlled node `Renew`, `Observe` and `Commit`
(its own authority). The Gateway appears with what Enrollment makes of it. If it
is hosted here (`hosting`), it writes its rows into the same store, can be
exported, lost with the whole database, and restored from a bundle.

### Routes and Session

`Routes` has one action per step of an acquisition that can fail alone: asking
the Gateway for a lease, writing the visitor's configuration, starting it,
waiting for it; `GiveUp` is what each error path gives back. Shell sessions try
one provider after the other, Desktop sessions all at once (`AskNext`, `AskAll`).

`Session` runs two sessions over it: the request's, and the forward of a private
Desktop, a Shell session that `desktopforward.Prepare` starts with a context of
its own. `cause` is why a context ended (the first cause stands), `Return` what
the deferred calls of `Run` do. Expiry, the watcher and the caller act at any
time. A forward has no SSH client whose exit could end it, but it ends, and says
that it succeeded, when `Accept` fails (`EndsItself`). `profile` is the temporary
RDP file that may hold a sealed password: written before the application starts,
removed when that fails or when the application exits.

### Faulty variants

Operators marked "Faulty variant" are not used by the specifications. Each is
one of the model's definitions with a plausible mistake; putting it in the place
of the right one makes a run report the property it is listed with in
`PROJECT.json`. They show that the properties depend on that code.

## 3. Runs

Run `tlc -config <cfg> <module>`.

| Run | Config | Shows |
|---|---|---|
| lifecycle | `MCEnrollment.cfg` | memory, payload and overlay agree, activations belong to inactive devices, what is saved restores, and the durable state implements `DeviceAuthority` |
| audit | `MCEnrollmentAudit.cfg` | told versions stand, confirmed revocations hold, wrong codes are bounded, no signed request is answered twice while its ID should be remembered |
| buckets | `MCEnrollmentBuckets.cfg` | violated: `SavedBucketsRestore` |
| routelease | `MCRouteLease.cfg` | capacity, ownership of proxies, finality of releases, replay window |
| linux_upgrade | `MCLinuxUpgrade.cfg` | the update implements `AtomicUpgrade`, a reported success is final, a transaction keeps its helper and runs only under a service that would recover it |
| linux_journal | `MCLinuxUpgradeJournal.cfg` | violated: `InterruptedIsRecoverable` |
| windows_setup | `MCWindowsSetup.cfg` | concurrent Setups implement `VersionSwitch`, retained versions are whole, and a pending upgrade is recovered |
| fleet | `MCFleetUpdates.cfg` | no downgrade, no silent reset of trust; the cursor catches up and the latest release is handled |
| directory | `MCDirectory.cfg` | revocations stand, bindings never go back, expired authority stays expired, a restore is exact; claims arrive and a node stays confirmed |
| session | `MCSession.cfg` | a session that is over holds nothing, nobody ends the forward of an authorized viewer, sessions end |
| session_revoked | `MCSessionRevoked.cfg` | violated: `RevocationEndsSession` |
| desktop_route | `MCSessionRoute.cfg` | violated: `ViewerKeepsRoute` |

Bounds and why they are enough:

* *Request-ID windows.* In `lifecycle` the windows are empty (bound 0): every
  request may come again, the weakest protection there is, so its properties do
  not rest on replay protection. In `audit` the Owner's window has room for
  every ID there is and a device's for one, so that its windows overflow and IDs
  may come again; buckets survive a restart.
* *Time.* Lifetimes are one or two ticks and the clock runs two or three, so
  every deadline is met, missed and raced; a lifetime is never long against the
  others, and the order of two deadlines is free because actions can wait.
* *Versions.* `MaxVersion` stops activations, revocations and publications. 3 in
  `lifecycle` allows the founding and any two of them; `audit` has 4, enough for
  activating and revoking, and publishing in between. Activating a revoked device
  again is hardly reached; the theorems about `EnrollmentAudit` cover it.
* *Interval.* `MaxInterval` cuts the growth of the polling interval after
  SLOW_DOWN answers; the other outcomes of a poll are not bounded.
* *Leases.* Two calls, three leases, capacity one and a window of one: an Issue
  can prune, refuse, and race a Release or another Issue; two leases may be
  pending while a third is being pruned.
* *Releases.* Three: an update can be interrupted while it replaces one that was
  itself an update, and be followed by the same, an older or a newer package.
  Nothing else of `LinuxUpgrade` is bounded: crashes, failures, restarts and
  repetitions are free, and all of its states are reached.
* *Setups on Windows.* Two processes and two releases; two commands and two
  faults, with sign-ins, the work of the processes, the programs and waits that
  cannot succeed free. Two commands and a sign-in are enough for two Setups that
  overtake each other in every phase and for an install, an upgrade and what
  undoes it; the second fault hits the recovery from the first.
* *Updates.* Two releases, of which the first expires at once, one Setup at a
  time, two requests by people (a look at a clock that shows another time counts
  as one) and one fault. The theorems about `FleetUpdates` hold for any number of
  releases, times and Setups; the bound matters for the liveness properties only.
* *Directory.* Two Devices, two host keys, two binding versions, two retained
  snapshots (the code keeps five: with two every commit can push one out), three
  administrative steps and one fault. With two faults a computer whose host keys
  were rotated can also lose the newest snapshot and then refuses its own binding
  at every start (see below), so that the liveness properties are about one. The
  exception `WrittenBack` of `ExpiredStaysExpired` takes four faults; the theorem
  covers it.
* *Sessions.* One request with its forward and three adapters; nothing is bounded.

Symmetry is used in `lifecycle`, `audit` and `routelease` only, which check no
liveness property. `CHECK_DEADLOCK FALSE` is set where the system may stop: bounds
on time, codes, requests and faults are used up, a Gateway that cannot load its
payload stays down, a session is over.

Fairness and why the code justifies it:

* `windows_setup`: a process that can take a step takes it (threads are
  scheduled, waits for health have time-outs), the programs go on, and the user
  signs in again and again. Commands and faults are under no fairness.
* `fleet`: the synchronization loop and the monitor run on timers, Setup is a
  process of its own; actions leave the gate, and its lease and a status age with
  time; the system restarts Gateway and daemon. The feed serves the latest release
  again and again (strong fairness of a check that finds it: single checks may
  see an older one or fail). Nobody need ever ask for anything.
* `directory`: the daemon is started again and goes on with its rounds, which
  the loop of `pfremoted` repeats on a timer. Activations, publications, the
  clock and faults are under no fairness.
* `session`: goroutines, timers and watchers run. An SSH client need not end by
  itself.
* `Enrollment`, `RouteLease`, `LinuxUpgrade`: none. Nothing in the Gateway promises
  that a device will ever poll or that an owner will approve, and the repository
  does not contain the unit whose restart policy would make systemd start the
  service again.

## 4. Proofs

`tlapm <module>.tla` checks the proofs of `EnrollmentProofs`,
`EnrollmentAuditProofs`, `RouteLeaseProofs`, `LinuxUpgradeProofs`,
`WindowsSetupProofs`, `FleetUpdatesProofs`, `DirectoryProofs` and
`SessionProofs`. Every invariant and every action property that a passing run
checks is a theorem there, and so are the three refinements. They use only the
assumptions that the modelled modules name (`EnrollmentAssumption`,
`RouteLeaseAssumption`, `LinuxUpgradeAssumption`, `WindowsSetupAssumption`,
`FleetAssumption`, `StoreAssumption`, `DirectoryAssumption`, `RoutesAssumption`,
`SessionAssumption`): marks for "none" are not values, devices and codes are
finite sets, bounds are naturals, releases are positive numbers, daemon and
Center are background programs, at least one snapshot is retained, a request and
its forward are two sessions.

For `Enrollment`, `IInv` strengthens the properties: type correctness, memory
equals disk while healthy, the overlay agrees with the payload, and memory and
payload are both `Sound`: activations belong to devices that are not active and
to drawn codes, no two of them to one device or one code, and without an Owner
there are none and the versions are zero. It is needed because `MemoryIsDurable`
says nothing of a Gateway whose save failed, and the refinement is a statement
about the disk that is reached through memory. One lemma per handler shows that
it hands only sound records to the saves; lemmas about `Persist` and
`PersistDeviceStatus` carry this over to every outcome of a save.
`AuthorityRefinement` shows that every write of the payload is a step of
`DeviceAuthority` or a stutter, whichever save of a handler it was and whether or
not the Manager learned of it.

`SavedRestores` needs more (`Whole`): the sets of activations and bindings are
finite, so that their sizes mean something, and everything `restore` counts and
compares. Since a handler may save several records and each save may be the one
that reached the disk, each record has to be whole, the ones in the middle
included. The limit of request-ID buckets is not among it: it is not kept
(finding 1).

For `EnrollmentAudit`, the common argument is `EndsIn`: a handler that answered
has saved its last record, and one that did not leaves memory and payload at
records it saved, or the payload as it was. So each property needs to know only
what each record has to do with the one before. `ToldInv`: what was told is not
ahead of the payload, and at the payload's version it is the payload's directory;
a directory that differs comes with a higher version than any that was told.
`RevokedInv`: a Device
whose revocation was confirmed is not active and has no approved activation
(`Clean`), in memory or on disk; the second part is what makes it inductive, and
only the Owner's approval ends it. `CodesInv`: a wrong code is counted in the
payload before it is answered, and none is counted for a window that has not been
opened yet.
`WindowsInv`: an ID that was answered is still in its window, no further from
the end than its age (`InWindow`); the lemmas on `Remember` say that a window
loses only its oldest ID. It holds for windows of any size, zero included.

For `RouteLease`, the inductive invariant says where a lease may be: a lease ID
is in the hands of at most one opening call, an active lease is drawn, a lease
whose call is still recording has no proxy, and a lease pruned while its Issue
is still opening has already expired, so that its proxy cannot come up any more.
The last is what makes `NoForgottenProxy` inductive. `ReplayWindow` relates the
history of recorded keys to the FIFO.

For `LinuxUpgrade`, `IInv` says for every position of the process what is true of
the programs, copies and journal: how far each loop has come, that the copies
equal the programs when the journal appears, that all programs are the new
release when the service is restarted, and all are restored before the journal
goes. `InstalledKept` shows from it that every step but three leaves `Installed`
as it is; the three are those that place the helper, and `Commit`. `Refinement`
follows, and `CompleteStaysInstalled` because `Installed` moves only forward.
`HelperInv` carries `HelperIsThere`: at "reload" the drop-in is whole, and `Reload`
is the only way to the steps of `Upgrade`, during which systemd can only load what
is there. Of a journal that an earlier update left, the theorem says that there is
a helper and that recovery keeps it, not that the service runs it: that is false
(see below).

For `WindowsSetup`, `IInv` says for every Setup process who must hold the lock
(`HoldsLock`: each step inside `windowsinstaller`, and an upgrade, its reversal or
recovery until it has ended), which purposes reach a step (`PurposeFits`), and what
the records say there (`RecordsFit`): no upgrade is pending while one prunes or
swaps, a recovery has selected what was recorded, an upgrade what it replaces it
by. The lemma `OtherIsOK` then carries every process but the one that moves: only
the holder of the lock changes files, and what the others rely on is bound to the
lock. `RetainedWhole` follows because the holder prunes nothing that a record
names. The runs have two releases, so that nothing is ever obsolete by being
old; the theorem is about any number of them. For `Refinement` the invariant is
used once more: all steps but six leave alone what recovery would select and
bring no release closer to being installed (`Behind`), and are steps that give
up; the others are the six steps of `VersionSwitch`.

For `FleetUpdates`, `IInv` adds three things to type correctness. `InHand`: a check
past discovery, and a Setup, have a release. `TrustIsOnce`: before the marker the
store is absent, nothing was ever accepted and nobody creates it; after, at most
one process creates it, and only while nothing was ever accepted. Without this
`NoSilentReset` is not inductive: a second process that is still between the
marker and the table could empty a store that has a checkpoint. `OneAtATime`: on
Linux one Setup is in at a time, the installed version is never above the
checkpoint, and what a Setup has verified lies between the two. `VersionRises`
follows from it step by step. The lemma `AcceptKeeps` says what `Accept` does to
a checkpoint, and carries every step that calls it.

For `Directory`, `IInv` adds two things to type correctness. `RowsKeepUp`: on the
Gateway's computer `device_revocations` knows every revocation, because one
transaction saves both; with `ViewShows` (what is loaded has the rows laid over
it) this is `RevocationStands`, whatever snapshot was chosen or committed again.
`BundleIsWhole`: a bundle holds what its Gateway had revoked, so that a restore,
which starts from its rows, neither loses a revocation nor adds one; this and the
replaced binding versions give `RestoreIsExact`. `BindingsOnlyRise` has no
invariant of its own: every step but the loss and the replacement of the database
lets the accepted bindings rise (`BindingsRise`, from `CommitKeeps`), and what is
loaded has accepted bindings only.

`ExpiryStands` needs a second invariant, `AgeInv`. `OldBindings`: no snapshot has
a newer binding than the accepted one, so that a snapshot that was outdated once
never becomes valid again. `AgesInOrder`: the Owner's computer has one authority
in all its snapshots, as nothing renews it; on a controlled node the authority of
the valid ones rises, and the active one has the latest. `DaemonFits`: what the
daemon has in hand is no earlier than what is stored. A fallback then shows an
earlier authority or the same, and a commit shows what the daemon had in hand. The
attempt to prove the property without its last exception, `WrittenBack`, failed
for a reason: a daemon that starts, loads a directory and then finds its row
damaged writes that directory back, and with it authority that is later than what
the older snapshots showed in between. With three retained snapshots and four
faults, of which two damage rows, TLC finds that behaviour. Nothing comes of it
that the Gateway did not grant and that has expired, so the property says so now.

For `Session`, `IInv` says which phase of an acquisition may hold what
(`RoutesAreHeld`), that routes are acquired in one phase of a session
(`PhaseAgrees`), that nobody cancels the forward of an authorized viewer between
its launch and its exit, and that the forward runs or has ended by itself with
"ok" (`ForwardFollows`, `ForwardStands`), from which `ForwardIsKept` follows. A
profile exists only between its writing and the exit of the viewer, which is the
part of `NothingLeft` about it.

Only model-checked: the liveness properties `PendingIsRecovered`,
`CursorCatchesUp`, `LatestIsHandled`, `ClaimsArrive`, `NodeStaysConfirmed` and
`SessionsEnd`, since liveness under fairness and ENABLED are out of the prover's
reach. No property needs an induction over recursively defined data, and there is
no RECURSIVE operator.

## 5. Findings

Violated by a run:

1. `SavedBucketsRestore` (buckets). `BeginDeviceAuthorization` limits the number
   of request-ID buckets, but `SyncVersion`, `SyncUpdates` and
   `PublishShellCapability` open buckets without that limit, and `restore`
   rejects a payload over it: a Gateway with enough active devices cannot be
   started again. `contracts/enrollment-v1.md` limits unregistered devices only.
2. `InterruptedIsRecoverable` (linux_journal). `Upgrade` creates `pending.json` in
   place before it writes it. A crash or a full disk in between leaves a journal
   that `Recover` refuses: the service cannot start and no later update can
   begin, although the programs are untouched. (A helper torn by a crash in the
   first update stays torn as well, until an update gets as far as replacing it.)
3. `RevocationEndsSession` (session_revoked). The daemon gives each request a copy
   of the directory (`cmd/pfremoted/main.go:520`); the watchers of the sessions
   resolve that copy again and again, so that only expiry, never a revocation,
   ends a session that runs. `contracts/shell-session-v1.md` says otherwise.
4. `ViewerKeepsRoute` (desktop_route). A Desktop session returns when its
   application has started, and its deferred Close takes a Gateway route away
   from it. `contracts/desktop-session-v1.md` says that the route stays owned
   until the application exits.

Observed while modelling, and present in the models, but not run as a violation:

* `RevokeDevice` of a device that is revoked already says that no further action
  is required (`enrollment/manager.go:359`), but an activation that was approved
  before still completes.
* After ROUTE_CLEANUP_FAILED the client is told to retry with the lease ID, and
  the retry is answered that no cleanup is required (`routelease/manager.go:151`).
* A snapshot is loaded with the overlay applied, and committed again with the
  overlay's versions as its own (`state/store.go:489`); `RevocationStands` holds
  nevertheless. After a fallback the overlay also lifts the directory version, so
  that claims the lost snapshot had are refused until the Gateway's version moves
  (`Conflicts`, which `ClaimsArrive` exempts).
* A restore sets the authorization clock to the bundle's (`state/store.go:113`).
* One claim that does not fit makes `ApplyShellCapabilityClaims` refuse all.
* `Export` is refused after a publication until the Owner's daemon has imported
  it, since only the payload's directory version was raised.
* An Owner whose first publication failed publishes again only when its
  connection settings change; later rounds only pull (`cmd/pfremoted/main.go`).
* After a rotation of the host keys and a fallback to a snapshot without a
  binding, `Bind` makes a version-1 binding that the store refuses, and the daemon
  ends at every start.
* On Windows a package is verified before the lock: a Setup that was overtaken
  while it waited can bring back an older release. `NoDowngrade` is about Linux.
* A daemon that crashes leaves the visitor of a Gateway route, its configuration
  file with secrets (`route/frp/adapter.go:94`) and the profile of an RDP session
  (`executor/desktop/rdp.go:112`); `NothingIsLeft` is about sessions that are over,
  in a daemon that runs.
* Every Linux update rewrites `updates.conf` in place and without a sync, before
  `Upgrade` recovers what an earlier one left (`cmd/pfremote-update/main_linux.go:103`).
  A full disk or a crash there, or a power loss while the update copies its
  programs, leaves a drop-in without its line beside a journal; after the next
  reload or boot the service starts without recovering, on programs of two
  releases if an update died while it copied them (TLC reaches that state).
  `HelperOutlivesTransaction` claims the drop-in for the steps of `Upgrade` only.
* `ForwardExecutor.Execute` returns at any error of `Accept`, such as a daemon out
  of file descriptors, without an error of its own
  (`executor/openssh/forward.go:82`): the forward ends under a viewer that runs.
  `contracts/desktop-ssh-v1.md:16-18` knows exit, a failed start, expiry and
  revocation as its ends. `ViewerKeepsForward` allows for it.

## 6. Not modelled

* Cryptography and key files: identity, signatures, certificates, encryption of
  bundles and credentials. They are taken as correct.
* Pure I/O and presentation: framing of the local API, HTTP decoding, desktop
  credentials and displays, the arguments of external programs, the front ends,
  the Windows application and the installation window.
* The one-off migration of inventories from earlier tools, and the legacy
  candidate that the synchronization loop swaps (`cmd/pfremoted/main.go:472`):
  sequential, and of no effect once a Fabric exists.
* Of the routes: latencies, scores and the history of a route, which only decide
  which of the open routes is taken. The lease client is modelled as what all
  clients share: a lease, a lost answer, a release that may fail.
* Of the directory: names, aliases, Desktop profiles, recent sessions, files of
  invitations. A restore under a running daemon is excluded: the documents ask
  for the daemon to be stopped, and it would write back what it had loaded.
* Of the updates: the clean-up of old staged packages, and restarts by the
  system's scheduler.
