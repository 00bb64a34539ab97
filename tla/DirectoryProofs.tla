--------------------------- MODULE DirectoryProofs ---------------------------
(***************************************************************************)
(* Proofs about StateStore and Directory, for any Devices, host keys,      *)
(* retention and bounds.                                                   *)
(***************************************************************************)
EXTENDS Directory, SequenceTheorems, WellFoundedInduction, TLAPS

Row == [snap : Snapshot, damaged : BOOLEAN]

\* No accepted binding is older than before, or another one of its version.
BindingsRise ==
  \A d \in Device : accepted'[d] = accepted[d]
                    \/ Newer(accepted'[d], accepted[d])

\* The daemon has a snapshot in hand while it works on one.
DaemonOK ==
  /\ daemon \in [pc : Step, snap : Snapshot \cup {NoSnapshot},
                 answer : Gateway]
  /\ daemon.pc \in Step \ {"down", "ready"} => daemon.snap # NoSnapshot

\* On the Gateway's computer the rows know every revocation.
RowsKeepUp == hosting => Goes(gateway) \subseteq revocations

\* A bundle holds a snapshot that knows every revocation of its Gateway.
BundleIsWhole ==
  bundle # NoBundle =>
    /\ bundle.snap \in Snapshot
    /\ Goes(bundle.gateway) \subseteq bundle.snap.revoked

IInv == TypeOK /\ RowsKeepUp /\ BundleIsWhole

-----------------------------------------------------------------------------
(* What the store shows.                                                   *)

\* A set of positions that is not empty has a last one.
LEMMA LastExists ==
  ASSUME NEW n \in Nat, NEW P \in SUBSET (1..n), P # {}
  PROVE  \E i \in P : \A j \in P : j <= i
<1>. DEFINE R == OpToRel(<, Nat)
            T == {n - i : i \in P}
<1>1. T \subseteq Nat /\ T # {}
  <2>1. \A i \in P : i \in 1..n /\ n - i \in Nat
    OBVIOUS
  <2>2. PICK i \in P : TRUE
    OBVIOUS
  <2>. QED
    BY <2>1, <2>2
<1>2. IsWellFoundedOn(R, Nat)
  BY NatLessThanWellFounded
<1>. HIDE DEF T, R
<1>3. PICK x \in T : \A y \in T : <<y, x>> \notin R
  BY <1>1, <1>2, WFMin
<1>4. \A y \in T : ~(y < x)
  BY <1>1, <1>3 DEF R, OpToRel
<1>5. PICK i \in P : x = n - i
  BY DEF T
<1>6. ASSUME NEW j \in P PROVE j <= i
  <2>1. n - j \in T
    BY DEF T
  <2>. QED
    BY <1>4, <1>5, <2>1
<1>. QED
  BY <1>6

LEMMA ChosenIsValid ==
  ASSUME StoreTypeOK, Valid # {}
  PROVE  Chosen \in Valid
<1>1. CASE active \in Valid
  BY <1>1 DEF Chosen
<1>2. CASE active \notin Valid
  <2>1. Len(snapshots) \in Nat /\ Valid \in SUBSET (1..Len(snapshots))
    BY DEF StoreTypeOK, Valid
  <2>2. \E i \in Valid : \A j \in Valid : j <= i
    BY <2>1, LastExists
  <2>. QED
    BY <1>2, <2>2 DEF Chosen
<1>. QED
  BY <1>1, <1>2

\* The view is a snapshot, whose revocations include the rows and whose
\* bindings are accepted ones.
LEMMA ViewShows ==
  ASSUME StoreTypeOK
  PROVE  /\ Valid = {} => View = NoSnapshot
         /\ Valid # {} => /\ View \in Snapshot
                          /\ revocations \subseteq View.revoked
                          /\ \A d \in Device : View.binding[d] # NoBinding =>
                               View.binding[d] = accepted[d]
         /\ View # NoSnapshot => Valid # {}
<1>1. ASSUME Valid # {}
      PROVE  /\ View \in Snapshot
             /\ revocations \subseteq View.revoked
             /\ \A d \in Device : View.binding[d] # NoBinding =>
                  View.binding[d] = accepted[d]
  <2>. DEFINE s == snapshots[Chosen].snap
  <2>1. Chosen \in DOMAIN snapshots /\ Current(s)
    BY <1>1, ChosenIsValid DEF Valid
  <2>2. s \in Snapshot
    <3>1. snapshots \in Seq(Row)
      BY DEF StoreTypeOK, Row
    <3>2. snapshots[Chosen] \in Row
      BY <2>1, <3>1
    <3>. QED
      BY <3>2 DEF Row
  <2>3. View = Overlaid(s)
    BY <1>1 DEF View
  <2>. HIDE DEF s
  <2>4. /\ Later(s.dv, versions.dv) \in Nat /\ Later(s.gv, versions.gv) \in Nat
        /\ s.revoked \cup revocations \in SUBSET Device
    BY <2>2 DEF StoreTypeOK, Snapshot, Later
  <2>5. /\ View \in Snapshot /\ View.revoked = s.revoked \cup revocations
        /\ View.binding = s.binding
    BY <2>2, <2>3, <2>4 DEF Overlaid, Snapshot
  <2>. QED
    BY <2>1, <2>5 DEF Current
<1>. QED
  BY <1>1 DEF View

\* So that it can be said of the next state, too.
ShownIsAccepted ==
  StoreTypeOK /\ View # NoSnapshot =>
    \A d \in Device : View.binding[d] # NoBinding =>
      View.binding[d] = accepted[d]

LEMMA ViewShowsAccepted == ShownIsAccepted
BY ViewShows DEF ShownIsAccepted

-----------------------------------------------------------------------------
(* What the writes keep.                                                   *)

LEMMA CommitKeeps ==
  ASSUME StoreTypeOK, NEW s \in Snapshot, CommitSnapshot(s)
  PROVE  StoreTypeOK' /\ BindingsRise /\ UNCHANGED <<versions, revocations>>
<1>. DEFINE row == [snap |-> s, damaged |-> FALSE]
            all == Append(snapshots, row)
            first == IF Len(all) > Retained THEN 2 ELSE 1
<1>. Retained \in Nat \ {0}
  BY StoreAssumption
<1>1. snapshots \in Seq(Row) /\ Len(snapshots) <= Retained /\ row \in Row
  BY DEF StoreTypeOK, Row
<1>2. snapshots' = SubSeq(all, first, Len(all)) /\ active' = Len(snapshots')
  BY DEF CommitSnapshot
<1>. HIDE DEF row
<1>3. /\ all \in Seq(Row) /\ Len(all) = Len(snapshots) + 1
      /\ \A i \in 1..Len(all) : all[i] \in Row
  BY <1>1
<1>. HIDE DEF all
<1>4. first \in Int /\ Len(all) \in Int /\ first \in {1, 2}
      /\ \A i \in first..Len(all) : all[i] \in Row
  BY <1>3
<1>5. /\ snapshots' \in Seq(Row)
      /\ Len(snapshots') = IF first <= Len(all) THEN Len(all) - first + 1
                           ELSE 0
  <2>. HIDE DEF first
  <2>. QED
    BY <1>2, <1>4, SubSeqProperties
<1>6. Len(snapshots') \in Nat /\ Len(snapshots') <= Retained
  <2>1. Len(snapshots) \in Nat
    BY <1>1
  <2>. QED
    BY <1>1, <1>3, <1>5, <2>1
<1>7. active' \in 0..Len(snapshots')
  BY <1>2, <1>6
<1>8. accepted' \in Bindings
  BY DEF CommitSnapshot, Snapshot, StoreTypeOK, Bindings
<1>9. clock' \in Nat
  BY DEF CommitSnapshot, Snapshot, StoreTypeOK, Later
<1>10. UNCHANGED <<versions, revocations>>
  BY DEF CommitSnapshot
<1>11. StoreTypeOK'
  BY <1>5, <1>6, <1>7, <1>8, <1>9, <1>10 DEF StoreTypeOK, Row
<1>12. BindingsRise
  <2>. SUFFICES ASSUME NEW d \in Device
                PROVE  accepted'[d] = accepted[d]
                       \/ Newer(accepted'[d], accepted[d])
    BY DEF BindingsRise
  <2>1. accepted'[d] = IF s.binding[d] = NoBinding THEN accepted[d]
                       ELSE s.binding[d]
    BY DEF CommitSnapshot
  <2>. QED
    BY <2>1 DEF CommitSnapshot, Refused
<1>. QED
  BY <1>10, <1>11, <1>12

LEMMA LoadKeeps ==
  ASSUME StoreTypeOK, Load
  PROVE  /\ StoreTypeOK' /\ BindingsRise /\ UNCHANGED <<versions, revocations>>
         /\ View \in Snapshot
<1>1. Chosen \in DOMAIN snapshots
  BY ChosenIsValid DEF Load, Valid
<1>2. active' \in 0..Len(snapshots)
  BY <1>1 DEF Load, StoreTypeOK
<1>3. StoreTypeOK'
  BY <1>2 DEF Load, StoreTypeOK
<1>. QED
  BY <1>3, ViewShows DEF Load, BindingsRise

LEMMA ObserveKeeps ==
  ASSUME StoreTypeOK, NEW time \in Nat, ObserveAuthorizationTime(time)
  PROVE  StoreTypeOK' /\ BindingsRise /\ UNCHANGED <<versions, revocations>>
BY DEF StoreTypeOK, ObserveAuthorizationTime, BindingsRise, Later

LEMMA StatusKeeps ==
  ASSUME StoreTypeOK, NEW d \in Device, NEW status,
         NEW dv \in Nat, NEW gv \in Nat,
         SaveDeviceStatus(d, status, [dv |-> dv, gv |-> gv])
  PROVE  StoreTypeOK' /\ BindingsRise
<1>1. versions' \in [dv : Nat, gv : Nat]
  BY DEF StoreTypeOK, SaveDeviceStatus, Later
<1>2. revocations' \subseteq Device
  BY DEF StoreTypeOK, SaveDeviceStatus
<1>3. UNCHANGED <<snapshots, active, accepted, clock>>
  BY DEF SaveDeviceStatus
<1>. QED
  BY <1>1, <1>2, <1>3 DEF StoreTypeOK, BindingsRise

LEMMA ReplaceKeeps ==
  ASSUME NEW s \in Snapshot, NEW gone \in SUBSET Device,
         ReplaceFromDatabase(s, gone)
  PROVE  StoreTypeOK' /\ revocations' = gone
<1>. Retained \in Nat \ {0}
  BY StoreAssumption
<1>. DEFINE row == [snap |-> s, damaged |-> FALSE]
<1>1. row \in Row
  BY DEF Row
<1>2. snapshots' = <<row>> /\ active' = 1
  BY DEF ReplaceFromDatabase
<1>. HIDE DEF row
<1>3. /\ snapshots' \in Seq(Row) /\ Len(snapshots') = 1
      /\ active' \in 0..Len(snapshots')
  BY <1>1, <1>2
<1>4. /\ accepted' \in Bindings /\ clock' \in Nat
      /\ versions' \in [dv : Nat, gv : Nat] /\ revocations' = gone
  BY DEF ReplaceFromDatabase, Snapshot
<1>. QED
  BY <1>3, <1>4 DEF StoreTypeOK, Row

LEMMA DamageKeeps ==
  ASSUME StoreTypeOK, NEW i, Damage(i)
  PROVE  StoreTypeOK' /\ BindingsRise /\ UNCHANGED <<versions, revocations>>
<1>1. /\ snapshots \in Seq(Row) /\ i \in DOMAIN snapshots
      /\ snapshots' = [snapshots EXCEPT ![i].damaged = TRUE]
  BY DEF StoreTypeOK, Damage, Row
<1>2. snapshots' \in Seq(Row) /\ Len(snapshots') = Len(snapshots)
  <2>. DEFINE row == [snapshots[i] EXCEPT !.damaged = TRUE]
  <2>1. snapshots[i] \in Row /\ i \in 1..Len(snapshots)
    BY <1>1
  <2>2. row \in Row
    BY <2>1 DEF Row
  <2>3. snapshots' = [snapshots EXCEPT ![i] = row]
    BY <1>1
  <2>. HIDE DEF row
  <2>4. snapshots \in Seq(Row)
    BY <1>1
  <2>5. /\ [snapshots EXCEPT ![i] = row] \in Seq(Row)
        /\ Len([snapshots EXCEPT ![i] = row]) = Len(snapshots)
    BY <2>1, <2>2, <2>4, ExceptSeq
  <2>. QED
    BY <2>3, <2>5
<1>. QED
  BY <1>2 DEF StoreTypeOK, Damage, BindingsRise, Row

-----------------------------------------------------------------------------
(* What is passed around.                                                  *)

LEMMA Values ==
  /\ Self \in Device /\ MaxTime \in Nat /\ 1 \in 1..MaxBinding
  /\ Unbound \in Bindings /\ NoGateway \in Gateway
  /\ NoSnapshot \notin Snapshot
<1>1. 1 \in 1..MaxBinding
  BY StoreAssumption
<1>2. Unbound \in Bindings
  BY DEF Unbound, Bindings
<1>3. NoGateway \in Gateway
  BY <1>2 DEF NoGateway, Gateway, Status
<1>. QED
  BY <1>1, <1>2, <1>3, DirectoryAssumption, StoreAssumption

LEMMA FirstTyped == ASSUME NEW t \in Nat PROVE First(t) \in Snapshot
BY Values DEF First, Snapshot

LEMMA OverlaidTyped ==
  ASSUME StoreTypeOK, NEW s \in Snapshot
  PROVE  Overlaid(s) \in Snapshot
<1>1. /\ Later(s.dv, versions.dv) \in Nat /\ Later(s.gv, versions.gv) \in Nat
      /\ s.revoked \cup revocations \in SUBSET Device
  BY DEF StoreTypeOK, Snapshot, Later
<1>. QED
  BY <1>1 DEF Overlaid, Snapshot

LEMMA WithBindingTyped ==
  ASSUME NEW s \in Snapshot, hostKeys \in Key
  PROVE  WithBinding(s) \in Snapshot
<1>1. [version |-> 1, key |-> hostKeys] \in Binding
  BY Values DEF Binding
<1>2. [s.binding EXCEPT ![Self] = [version |-> 1, key |-> hostKeys]]
        \in Bindings
  BY <1>1 DEF Snapshot, Bindings
<1>. DEFINE b == [s.binding EXCEPT ![Self] = [version |-> 1, key |-> hostKeys]]
<1>3. WithBinding(s) = s
      \/ WithBinding(s) = [s EXCEPT !.binding = b, !.dv = s.dv + 1]
  BY DEF WithBinding
<1>4. b \in Bindings
  BY <1>2
<1>. DEFINE v == s.dv + 1
<1>5. v \in Nat
  BY DEF Snapshot
<1>. HIDE DEF b, v
<1>6. [s EXCEPT !.binding = b, !.dv = v] \in Snapshot
  BY <1>4, <1>5 DEF Snapshot
<1>. USE DEF v
<1>. QED
  BY <1>3, <1>6

LEMMA AppliedTyped ==
  ASSUME NEW s \in Snapshot, NEW a \in Gateway
  PROVE  Applied(s, a) \in Snapshot
<1>1. a.dv \in Nat /\ a.binding \in Bindings /\ s.binding \in Bindings
  BY DEF Gateway, Snapshot
<1>2. [d \in Device |-> IF d \in News(s, a) THEN a.binding[d]
                        ELSE s.binding[d]] \in Bindings
  BY <1>1 DEF Bindings
<1>. QED
  BY <1>1, <1>2 DEF Applied, Snapshot

LEMMA PublishedTyped ==
  ASSUME gateway \in Gateway, NEW d \in Device, NEW b \in Binding
  PROVE  /\ Published(d, b) \in Gateway
         /\ Published(d, b).status = gateway.status
<1>1. [gateway.binding EXCEPT ![d] = b] \in Bindings
  BY DEF Gateway, Bindings
<1>. DEFINE c == [gateway.binding EXCEPT ![d] = b]
<1>2. Published(d, b) = gateway
      \/ Published(d, b) =
           [gateway EXCEPT !.binding = c, !.dv = gateway.dv + 1]
  BY DEF Published
<1>3. c \in Bindings
  BY <1>1
<1>. DEFINE v == gateway.dv + 1
            g == [gateway EXCEPT !.binding = c, !.dv = v]
<1>4. v \in Nat
  BY DEF Gateway
<1>. HIDE DEF c, v
<1>5. g \in Gateway /\ g.status = gateway.status
  BY <1>3, <1>4 DEF Gateway
<1>. USE DEF v
<1>. QED
  BY <1>2, <1>5

LEMMA InHandTyped ==
  ASSUME TypeOK, daemon.pc \in Step \ {"down", "ready"}
  PROVE  daemon.snap \in Snapshot /\ daemon.answer \in Gateway
BY DEF TypeOK

\* The daemon goes on to another step with a snapshot, or rests.
LEMMA WorkTyped ==
  ASSUME NEW pc \in Step, NEW s \in Snapshot, Work(pc, s)
  PROVE  DaemonOK'
BY Values DEF Work, DaemonOK

LEMMA RestTyped == ASSUME Rest \/ daemon' = Down PROVE DaemonOK'
BY Values DEF Rest, Down, DaemonOK, Step

LEMMA GoToTyped ==
  ASSUME TypeOK, daemon.pc \in Step \ {"down", "ready"},
         NEW pc \in Step, GoTo(pc)
  PROVE  DaemonOK'
BY DEF TypeOK, GoTo, DaemonOK

\* Steps that change neither the Gateway nor the rows.
LEMMA QuietKeeps ==
  ASSUME IInv, StoreTypeOK', UNCHANGED revocations, DaemonOK',
         UNCHANGED <<pull, hosting, listed, gateway, bundle>>,
         hostKeys' \in Key, now' \in 0..MaxTime, changed' \in BOOLEAN
  PROVE  IInv'
<1>1. TypeOK'
  BY DEF IInv, TypeOK, DaemonOK
<1>2. RowsKeepUp' /\ BundleIsWhole'
  BY DEF IInv, RowsKeepUp, BundleIsWhole, Goes
<1>. QED
  BY <1>1, <1>2 DEF IInv

\* Steps that publish a binding at the Gateway, or try to.
LEMMA PublishingKeeps ==
  ASSUME IInv, UNCHANGED <<storeVars, outside, now, changed, bundle>>,
         gateway' \in Gateway, gateway'.status = gateway.status, DaemonOK'
  PROVE  IInv' /\ BindingsRise
<1>1. UNCHANGED <<snapshots, active, accepted, clock, versions, revocations>>
  BY DEF storeVars
<1>2. StoreTypeOK' /\ BindingsRise
  BY <1>1 DEF IInv, TypeOK, StoreTypeOK, BindingsRise
<1>3. TypeOK'
  BY <1>2 DEF IInv, TypeOK, DaemonOK, outside
<1>4. RowsKeepUp' /\ BundleIsWhole'
  BY <1>1 DEF IInv, RowsKeepUp, BundleIsWhole, Goes, outside
<1>. QED
  BY <1>2, <1>3, <1>4 DEF IInv

LEMMA StoreStays ==
  ASSUME StoreTypeOK, UNCHANGED storeVars
  PROVE  StoreTypeOK' /\ BindingsRise /\ UNCHANGED revocations
BY DEF StoreTypeOK, BindingsRise, storeVars

LEMMA InitInvariant == Init => IInv
<1> SUFFICES ASSUME Init PROVE IInv
  OBVIOUS
<1>1. StoreTypeOK
  <2>1. CASE EmptyStore
    BY <2>1, Values, StoreAssumption
       DEF EmptyStore, StoreTypeOK, NoVersions
  <2>2. CASE ~pull
    <3>. DEFINE row == [snap |-> First(0), damaged |-> FALSE]
    <3>1. row \in Row
      BY FirstTyped DEF Row
    <3>2. snapshots = <<row>> /\ active = 1
      BY <2>2 DEF Init
    <3>. HIDE DEF row
    <3>3. snapshots \in Seq(Row) /\ Len(snapshots) = 1
      BY <3>1, <3>2
    <3>4. /\ accepted \in Bindings /\ clock \in Nat /\ revocations = {}
          /\ versions \in [dv : Nat, gv : Nat]
      BY <2>2, Values DEF Init, NoVersions
    <3>. QED
      BY <3>2, <3>3, <3>4, StoreAssumption DEF StoreTypeOK, Row
  <2>. QED
    BY <2>1, <2>2 DEF Init
<1>2. gateway \in Gateway /\ Goes(gateway) = {}
  <2>1. [NoGateway.status EXCEPT ![Self] = "active"] \in [Device -> Status]
    BY Values DEF NoGateway, Status
  <2>. QED
    BY <2>1, Values DEF Init, NoGateway, Gateway, Goes
<1>3. DaemonOK
  BY Values DEF Init, Down, DaemonOK, Step
<1>4. bundle = NoBundle /\ NoBundle.gateway \in Gateway
  BY Values DEF Init, NoBundle
<1>5. TypeOK
  <2>1. /\ pull \in BOOLEAN /\ hosting \in BOOLEAN /\ changed = FALSE
        /\ hostKeys \in Key /\ now = 0
    BY DEF Init
  <2>. listed \subseteq Device
    BY Values DEF Init
  <2>. 0 \in 0..MaxTime
    BY Values
  <2>2. bundle \in [gateway : Gateway, snap : Snapshot \cup {NoSnapshot}]
    BY <1>4, Values DEF NoBundle
  <2>. QED
    BY <1>1, <1>2, <1>3, <2>1, <2>2 DEF TypeOK, DaemonOK
<1>. QED
  BY <1>2, <1>4, <1>5 DEF IInv, RowsKeepUp, BundleIsWhole

-----------------------------------------------------------------------------
(* Administration and publications.                                        *)

\* A status that changes at the Gateway and, if it is here, in the rows.
LEMMA StatusChanges ==
  ASSUME IInv, NEW d \in Device, NEW status \in {"active", "revoked"},
         NEW b \in Bindings, NEW dv \in Nat, NEW gv \in Nat,
         gateway' = [gateway EXCEPT !.status[d] = status, !.binding = b,
                                    !.dv = dv, !.gv = gv],
         SaveStatus(d), UNCHANGED <<outside, now, daemon, changed, bundle>>
  PROVE  IInv' /\ BindingsRise
<1>1. gateway \in Gateway /\ gateway.status \in [Device -> Status]
  BY DEF IInv, TypeOK, Gateway
<1>. DEFINE st == [gateway.status EXCEPT ![d] = status]
<1>2. st \in [Device -> Status] /\ st[d] = status
      /\ \A e \in Device \ {d} : st[e] = gateway.status[e]
  BY <1>1 DEF Status
<1>3. gateway' = [gateway EXCEPT !.status = st, !.binding = b,
                                 !.dv = dv, !.gv = gv]
  OBVIOUS
<1>. HIDE DEF st
<1>4. /\ gateway' \in Gateway /\ gateway'.status = st
      /\ gateway'.dv = dv /\ gateway'.gv = gv
  BY <1>1, <1>2, <1>3 DEF Gateway
<1>5. StoreTypeOK' /\ BindingsRise
  <2>. StoreTypeOK
    BY DEF IInv, TypeOK
  <2>1. CASE hosting
    BY <1>4, <2>1, StatusKeeps DEF SaveStatus
  <2>2. CASE ~hosting
    BY <2>2, StoreStays DEF SaveStatus
  <2>. QED
    BY <2>1, <2>2
<1>6. TypeOK'
  BY <1>4, <1>5 DEF IInv, TypeOK, outside
<1>7. RowsKeepUp'
  <2>1. CASE ~hosting
    BY <2>1 DEF RowsKeepUp, outside
  <2>2. CASE hosting
    <3>1. revocations' = IF status = "revoked" THEN revocations \cup {d}
                         ELSE revocations \ {d}
      BY <1>2, <1>4, <2>2 DEF SaveStatus, SaveDeviceStatus
    <3>2. Goes(gateway) \subseteq revocations
      BY <2>2 DEF IInv, RowsKeepUp
    <3>3. ASSUME NEW e \in Device, gateway'.status[e] = "revoked"
          PROVE  e \in revocations'
      BY <1>2, <1>4, <3>1, <3>2, <3>3 DEF Goes
    <3>. QED
      BY <3>3 DEF RowsKeepUp, Goes
  <2>. QED
    BY <2>1, <2>2
<1>8. BundleIsWhole'
  BY DEF IInv, BundleIsWhole, Goes
<1>. QED
  BY <1>5, <1>6, <1>7, <1>8 DEF IInv

LEMMA ActivateKeeps ==
  ASSUME IInv, NEW d \in Device, Activate(d)
  PROVE  IInv' /\ BindingsRise
<1>1. gateway \in Gateway
  BY DEF IInv, TypeOK
<1>. DEFINE dv == gateway.dv + 1
<1>2. dv \in Nat /\ gateway.gv \in Nat /\ gateway.binding \in Bindings
  BY <1>1 DEF Gateway
<1>3. gateway' = [gateway EXCEPT !.status[d] = "active",
                    !.binding = gateway.binding, !.dv = dv, !.gv = gateway.gv]
  BY <1>1 DEF Activate, Gateway
<1>4. SaveStatus(d) /\ UNCHANGED <<outside, now, daemon, changed, bundle>>
  BY DEF Activate
<1>. HIDE DEF dv
<1>. QED
  BY <1>2, <1>3, <1>4, StatusChanges

LEMMA RevokeKeeps ==
  ASSUME IInv, NEW d \in Device, Revoke(d)
  PROVE  IInv' /\ BindingsRise
<1>1. gateway \in Gateway
  BY DEF IInv, TypeOK
<1>. DEFINE dv == gateway.dv + 1
            gv == gateway.gv + 1
            b == [gateway.binding EXCEPT ![d] = NoBinding]
<1>2. dv \in Nat /\ gv \in Nat /\ b \in Bindings
  BY <1>1 DEF Gateway, Bindings
<1>3. gateway' = [gateway EXCEPT !.status[d] = "revoked", !.binding = b,
                                 !.dv = dv, !.gv = gv]
  BY <1>1 DEF Revoke, Gateway
<1>4. SaveStatus(d) /\ UNCHANGED <<outside, now, daemon, changed, bundle>>
  BY DEF Revoke
<1>. HIDE DEF dv, gv, b
<1>. QED
  BY <1>2, <1>3, <1>4, StatusChanges

LEMMA DaemonStays ==
  ASSUME IInv, UNCHANGED daemon
  PROVE  DaemonOK'
BY DEF IInv, TypeOK, DaemonOK

LEMMA PeerPublishesKeeps ==
  ASSUME IInv, NEW d \in Device, NEW b \in Binding, PeerPublishes(d, b)
  PROVE  IInv' /\ BindingsRise
<1>1. gateway \in Gateway
  BY DEF IInv, TypeOK
<1>2. gateway' \in Gateway /\ gateway'.status = gateway.status
  BY <1>1, PublishedTyped DEF PeerPublishes
<1>3. UNCHANGED <<storeVars, outside, now, changed, bundle>> /\ DaemonOK'
  BY DaemonStays DEF PeerPublishes
<1>. QED
  BY <1>2, <1>3, PublishingKeeps

\* The binding a daemon has in hand.
LEMMA OwnBinding ==
  ASSUME TypeOK, daemon.pc \in Step \ {"down", "ready"}
  PROVE  daemon.snap.binding[Self] \in Binding \cup {NoBinding}
<1>1. daemon.snap.binding \in Bindings
  BY InHandTyped DEF Snapshot
<1>. QED
  BY <1>1, Values DEF Bindings

LEMMA PublishKeeps == ASSUME IInv, Publish PROVE IInv' /\ BindingsRise
<1>1. TypeOK /\ gateway \in Gateway /\ daemon.pc = "publish"
  BY DEF IInv, TypeOK, Publish
<1>2. gateway' \in Gateway /\ gateway'.status = gateway.status
  BY <1>1, OwnBinding, PublishedTyped, Values DEF Publish, Step
<1>3. DaemonOK'
  <2>1. Then \in Step
    BY DEF Then, Step
  <2>. QED
    BY <1>1, <2>1, GoToTyped DEF Publish, Step
<1>4. UNCHANGED <<storeVars, outside, now, changed, bundle>>
  BY DEF Publish
<1>. QED
  BY <1>2, <1>3, <1>4, PublishingKeeps

LEMMA SyncFailsKeeps == ASSUME IInv, SyncFails PROVE IInv' /\ BindingsRise
<1>1. /\ TypeOK /\ gateway \in Gateway
      /\ daemon.pc \in {"publish", "pull", "confirm"}
  BY DEF IInv, TypeOK, SyncFails
<1>2. gateway' \in Gateway /\ gateway'.status = gateway.status
  BY <1>1, OwnBinding, PublishedTyped, Values DEF SyncFails, Step
<1>3. DaemonOK'
  BY RestTyped DEF SyncFails
<1>4. UNCHANGED <<storeVars, outside, now, changed, bundle>>
  BY DEF SyncFails
<1>. QED
  BY <1>2, <1>3, <1>4, PublishingKeeps

\* Steps of the daemon alone.
LEMMA CalmKeeps ==
  ASSUME IInv, Calm, StoreTypeOK', BindingsRise, UNCHANGED revocations,
         DaemonOK', changed' \in BOOLEAN
  PROVE  IInv' /\ BindingsRise
<1>1. /\ UNCHANGED <<pull, hosting, listed, gateway, bundle, hostKeys, now>>
      /\ hostKeys \in Key /\ now \in 0..MaxTime
  BY DEF Calm, outside, IInv, TypeOK
<1>. QED
  BY <1>1, QuietKeeps

\* Those that leave the store alone, too.
LEMMA IdleKeeps ==
  ASSUME IInv, Calm, UNCHANGED storeVars, DaemonOK', changed' \in BOOLEAN
  PROVE  IInv' /\ BindingsRise
<1>1. StoreTypeOK' /\ BindingsRise /\ UNCHANGED revocations
  BY StoreStays DEF IInv, TypeOK
<1>. QED
  BY <1>1, CalmKeeps

-----------------------------------------------------------------------------
(* The daemon's steps.                                                     *)

\* What they start from.
LEMMA AtHand ==
  ASSUME IInv
  PROVE  /\ StoreTypeOK /\ TypeOK /\ now \in Nat /\ now \in 0..MaxTime
         /\ hostKeys \in Key /\ changed \in BOOLEAN
         /\ gateway \in Gateway /\ DaemonOK
BY Values DEF IInv, TypeOK, DaemonOK

LEMMA StartKeeps == ASSUME IInv, Start PROVE IInv' /\ BindingsRise
<1>1. Calm /\ changed' \in BOOLEAN /\ "bind" \in Step
  BY DEF Start, Step
<1>2. StoreTypeOK' /\ BindingsRise /\ UNCHANGED revocations /\ DaemonOK'
  <2>. DEFINE s == First(now)
  <2>1. s \in Snapshot /\ Overlaid(s) \in Snapshot
    BY AtHand, FirstTyped, OverlaidTyped
  <2>2. CASE snapshots = <<>>
    <3>1. CommitSnapshot(s) /\ Work("bind", Overlaid(s))
      BY <2>2 DEF Start
    <3>. HIDE DEF s
    <3>. QED
      BY <1>1, <2>1, <3>1, AtHand, CommitKeeps, WorkTyped
  <2>3. CASE snapshots # <<>>
    <3>1. Load /\ Work("bind", View)
      BY <2>3 DEF Start
    <3>2. /\ StoreTypeOK' /\ BindingsRise /\ UNCHANGED revocations
          /\ View \in Snapshot
      BY <3>1, AtHand, LoadKeeps
    <3>. QED
      BY <1>1, <3>1, <3>2, WorkTyped
  <2>. QED
    BY <2>2, <2>3
<1>. QED
  BY <1>1, <1>2, CalmKeeps

LEMMA BindKeeps == ASSUME IInv, Bind PROVE IInv' /\ BindingsRise
<1>. DEFINE s == WithBinding(daemon.snap)
<1>1. Calm /\ changed' \in BOOLEAN /\ "publish" \in Step
  BY AtHand DEF Bind, Step
<1>2. s \in Snapshot
  <2>1. daemon.pc \in Step \ {"down", "ready"}
    BY DEF Bind, Step
  <2>. QED
    BY <2>1, AtHand, InHandTyped, WithBindingTyped
<1>3. \/ Work("publish", s) /\ UNCHANGED storeVars
      \/ daemon' = Down /\ UNCHANGED storeVars
      \/ CommitSnapshot(s) /\ Work("publish", s)
  BY DEF Bind
<1>. HIDE DEF s
<1>4. DaemonOK'
  BY <1>1, <1>2, <1>3, WorkTyped, RestTyped
<1>5. StoreTypeOK' /\ BindingsRise /\ UNCHANGED revocations
  BY <1>2, <1>3, AtHand, CommitKeeps, StoreStays
<1>. QED
  BY <1>1, <1>4, <1>5, CalmKeeps

LEMMA NextSyncKeeps == ASSUME IInv, NextSync PROVE IInv' /\ BindingsRise
<1>1. Calm /\ changed' \in BOOLEAN /\ Load
  BY AtHand DEF NextSync
<1>2. PICK pc \in Step : Work(pc, View)
  BY DEF NextSync, Step
<1>3. /\ StoreTypeOK' /\ BindingsRise /\ UNCHANGED revocations
      /\ View \in Snapshot
  BY <1>1, AtHand, LoadKeeps
<1>4. DaemonOK'
  BY <1>2, <1>3, WorkTyped
<1>. QED
  BY <1>1, <1>3, <1>4, CalmKeeps

LEMMA RefusedByGatewayKeeps ==
  ASSUME IInv, RefusedByGateway PROVE IInv' /\ BindingsRise
<1>1. /\ Calm /\ changed' \in BOOLEAN /\ UNCHANGED storeVars /\ Rest
  BY AtHand DEF RefusedByGateway
<1>. QED
  BY <1>1, RestTyped, IdleKeeps

LEMMA AskKeeps == ASSUME IInv, Ask PROVE IInv' /\ BindingsRise
<1>1. /\ Calm /\ changed' \in BOOLEAN /\ UNCHANGED storeVars
  BY AtHand DEF Ask
<1>2. DaemonOK'
  <2>1. /\ daemon' = [daemon EXCEPT !.pc = IF pull THEN "apply" ELSE "renew",
                                    !.answer = gateway]
        /\ daemon.pc \in Step \ {"down", "ready"}
    BY DEF Ask, Step
  <2>2. gateway \in Gateway /\ DaemonOK
    BY AtHand
  <2>. QED
    BY <2>1, <2>2 DEF DaemonOK, Step
<1>. QED
  BY <1>1, <1>2, IdleKeeps

LEMMA ApplyKeeps == ASSUME IInv, Apply PROVE IInv' /\ BindingsRise
<1>. DEFINE s == Applied(daemon.snap, daemon.answer)
<1>1. Calm /\ changed' \in BOOLEAN /\ UNCHANGED storeVars
  BY AtHand DEF Apply
<1>2. s \in Snapshot /\ "commit" \in Step
  <2>1. daemon.pc \in Step \ {"down", "ready"}
    BY DEF Apply, Step
  <2>. QED
    BY <2>1, AtHand, InHandTyped, AppliedTyped DEF Step
<1>3. Rest \/ Work("commit", s)
  BY DEF Apply
<1>. HIDE DEF s
<1>4. DaemonOK'
  BY <1>2, <1>3, WorkTyped, RestTyped
<1>. QED
  BY <1>1, <1>4, IdleKeeps

LEMMA RenewKeeps == ASSUME IInv, Renew PROVE IInv' /\ BindingsRise
<1>. DEFINE s == [daemon.snap EXCEPT !.captured = now, !.dv = daemon.answer.dv,
                                     !.gv = daemon.answer.gv]
<1>1. Calm /\ changed' \in BOOLEAN /\ UNCHANGED storeVars
  BY AtHand DEF Renew
<1>2. s \in Snapshot /\ "observe" \in Step
  <2>1. daemon.pc \in Step \ {"down", "ready"}
    BY DEF Renew, Step
  <2>2. daemon.snap \in Snapshot /\ daemon.answer \in Gateway /\ now \in Nat
    BY <2>1, AtHand, InHandTyped
  <2>. QED
    BY <2>2 DEF Snapshot, Gateway, Step
<1>3. Rest \/ Work("observe", s)
  BY DEF Renew
<1>. HIDE DEF s
<1>4. DaemonOK'
  BY <1>2, <1>3, WorkTyped, RestTyped
<1>. QED
  BY <1>1, <1>4, IdleKeeps

LEMMA ObserveStepKeeps == ASSUME IInv, Observe PROVE IInv' /\ BindingsRise
<1>1. Calm /\ changed' \in BOOLEAN /\ ObserveAuthorizationTime(now)
  BY AtHand DEF Observe
<1>2. DaemonOK'
  <2>1. daemon.pc \in Step \ {"down", "ready"} /\ "commit" \in Step
    BY DEF Observe, Step
  <2>2. Rest \/ GoTo("commit")
    BY DEF Observe
  <2>. QED
    BY <2>1, <2>2, AtHand, RestTyped, GoToTyped
<1>3. StoreTypeOK' /\ BindingsRise /\ UNCHANGED revocations
  BY <1>1, AtHand, ObserveKeeps
<1>. QED
  BY <1>1, <1>2, <1>3, CalmKeeps

LEMMA CommitStepKeeps == ASSUME IInv, Commit PROVE IInv' /\ BindingsRise
<1>1. Calm /\ changed' \in BOOLEAN /\ Rest
  BY AtHand DEF Commit
<1>2. daemon.snap \in Snapshot
  <2>1. daemon.pc \in Step \ {"down", "ready"}
    BY DEF Commit, Step
  <2>. QED
    BY <2>1, AtHand, InHandTyped
<1>3. StoreTypeOK' /\ BindingsRise /\ UNCHANGED revocations
  <2>1. UNCHANGED storeVars \/ CommitSnapshot(daemon.snap)
    BY DEF Commit
  <2>. QED
    BY <1>2, <2>1, AtHand, CommitKeeps, StoreStays
<1>. QED
  BY <1>1, <1>3, RestTyped, CalmKeeps

LEMMA UseCatalogKeeps == ASSUME IInv, UseCatalog PROVE IInv' /\ BindingsRise
<1>1. /\ Calm /\ changed' \in BOOLEAN /\ ObserveAuthorizationTime(now)
      /\ UNCHANGED daemon
  BY AtHand DEF UseCatalog
<1>2. StoreTypeOK' /\ BindingsRise /\ UNCHANGED revocations
  BY <1>1, AtHand, ObserveKeeps
<1>. QED
  BY <1>1, <1>2, DaemonStays, CalmKeeps

LEMMA SettingsChangeKeeps ==
  ASSUME IInv, SettingsChange PROVE IInv' /\ BindingsRise
<1>1. /\ Calm /\ changed' \in BOOLEAN /\ UNCHANGED storeVars /\ DaemonOK'
  BY DaemonStays DEF SettingsChange
<1>. QED
  BY <1>1, IdleKeeps

-----------------------------------------------------------------------------
(* Failures and recovery.                                                  *)

LEMMA CrashKeeps == ASSUME IInv, Crash PROVE IInv' /\ BindingsRise
<1>1. /\ Calm /\ changed' \in BOOLEAN /\ UNCHANGED storeVars /\ DaemonOK'
  BY AtHand, RestTyped DEF Crash
<1>. QED
  BY <1>1, IdleKeeps

LEMMA WriteFailsKeeps == ASSUME IInv, WriteFails PROVE IInv' /\ BindingsRise
<1>1. /\ Calm /\ changed' \in BOOLEAN /\ UNCHANGED storeVars /\ DaemonOK'
  BY AtHand, RestTyped DEF WriteFails
<1>. QED
  BY <1>1, IdleKeeps

LEMMA SpoilKeeps == ASSUME IInv, Spoil PROVE IInv' /\ BindingsRise
<1>1. Calm /\ changed' \in BOOLEAN /\ DaemonOK'
  BY AtHand, DaemonStays DEF Spoil
<1>2. PICK i : Damage(i)
  BY DEF Spoil
<1>3. StoreTypeOK' /\ BindingsRise /\ UNCHANGED revocations
  BY <1>2, AtHand, DamageKeeps
<1>. QED
  BY <1>1, <1>3, CalmKeeps

LEMMA RotateKeeps ==
  ASSUME IInv, NEW k \in Key, RotateHostKeys(k)
  PROVE  IInv' /\ BindingsRise
<1>1. /\ UNCHANGED <<pull, hosting, listed, gateway, bundle>>
      /\ hostKeys' \in Key /\ UNCHANGED <<storeVars, now, daemon, changed>>
  BY DEF RotateHostKeys
<1>2. now' \in 0..MaxTime /\ changed' \in BOOLEAN /\ DaemonOK'
  BY <1>1, AtHand, DaemonStays
<1>3. StoreTypeOK' /\ BindingsRise /\ UNCHANGED revocations
  BY <1>1, AtHand, StoreStays
<1>. QED
  BY <1>1, <1>2, <1>3, QuietKeeps

LEMMA SetClockKeeps ==
  ASSUME IInv, NEW t \in 0..MaxTime, SetClock(t)
  PROVE  IInv' /\ BindingsRise
<1>1. /\ UNCHANGED <<pull, hosting, listed, gateway, bundle>>
      /\ now' \in 0..MaxTime
      /\ UNCHANGED <<storeVars, hostKeys, daemon, changed>>
  BY DEF SetClock, outside
<1>2. hostKeys' \in Key /\ changed' \in BOOLEAN /\ DaemonOK'
  BY <1>1, AtHand, DaemonStays
<1>3. StoreTypeOK' /\ BindingsRise /\ UNCHANGED revocations
  BY <1>1, AtHand, StoreStays
<1>. QED
  BY <1>1, <1>2, <1>3, QuietKeeps

LEMMA ExportKeeps == ASSUME IInv, Export PROVE IInv' /\ BindingsRise
<1>1. /\ hosting /\ Load /\ bundle' = [gateway |-> gateway, snap |-> View]
      /\ UNCHANGED <<outside, gateway, now, daemon, changed>>
  BY DEF Export
<1>2. /\ StoreTypeOK' /\ BindingsRise /\ UNCHANGED revocations
      /\ View \in Snapshot
  BY <1>1, AtHand, LoadKeeps
<1>3. Goes(gateway) \subseteq View.revoked
  <2>1. revocations \subseteq View.revoked
    BY <1>1, AtHand, ViewShows DEF Load
  <2>2. Goes(gateway) \subseteq revocations
    BY <1>1 DEF IInv, RowsKeepUp
  <2>. QED
    BY <2>1, <2>2
<1>4. BundleIsWhole'
  <2>1. /\ bundle'.snap = View /\ bundle'.gateway = gateway
    BY <1>1
  <2>. QED
    BY <1>2, <1>3, <2>1 DEF BundleIsWhole, Goes
<1>5. TypeOK'
  BY <1>1, <1>2, AtHand DEF TypeOK, outside
<1>6. RowsKeepUp'
  BY <1>1, <1>2 DEF IInv, RowsKeepUp, Goes, outside
<1>. QED
  BY <1>2, <1>4, <1>5, <1>6 DEF IInv

LEMMA LostKeeps == ASSUME IInv, Lost PROVE IInv'
<1>1. /\ gateway' = NoGateway /\ gateway' \in Gateway
      /\ Goes(gateway') = {}
  BY Values DEF Lost, NoGateway, Goes
<1>2. StoreTypeOK'
  <2>1. /\ snapshots' = <<>> /\ active' = 0 /\ accepted' \in Bindings
        /\ clock' = 0 /\ versions' = NoVersions /\ revocations' = {}
    BY Values DEF Lost
  <2>. QED
    BY <2>1, StoreAssumption DEF StoreTypeOK, NoVersions
<1>3. DaemonOK' /\ UNCHANGED <<outside, now, changed, bundle>>
  BY RestTyped DEF Lost
<1>4. TypeOK'
  BY <1>1, <1>2, <1>3 DEF IInv, TypeOK, DaemonOK, outside
<1>5. RowsKeepUp' /\ BundleIsWhole'
  BY <1>1, <1>3 DEF IInv, RowsKeepUp, BundleIsWhole, Goes
<1>. QED
  BY <1>4, <1>5 DEF IInv

LEMMA RestoreKeeps == ASSUME IInv, Restore PROVE IInv'
<1>1. /\ bundle.snap \in Snapshot /\ bundle.gateway \in Gateway
      /\ Goes(bundle.gateway) \in SUBSET Device
  BY DEF Restore, IInv, BundleIsWhole, TypeOK, Goes
<1>2. StoreTypeOK' /\ revocations' = Goes(bundle.gateway)
  BY <1>1, ReplaceKeeps DEF Restore
<1>3. /\ DaemonOK' /\ UNCHANGED <<outside, now, changed, bundle>>
      /\ gateway' = bundle.gateway
  BY DaemonStays DEF Restore
<1>4. TypeOK'
  BY <1>1, <1>2, <1>3 DEF IInv, TypeOK, DaemonOK, outside
<1>5. RowsKeepUp' /\ BundleIsWhole'
  BY <1>2, <1>3 DEF IInv, RowsKeepUp, BundleIsWhole, Goes
<1>. QED
  BY <1>4, <1>5 DEF IInv

-----------------------------------------------------------------------------
(* The invariant and what follows from it.                                 *)

LEMMA StepInvariant ==
  IInv /\ [Next]_vars => IInv' /\ (BindingsRise \/ Imported)
<1> SUFFICES ASSUME IInv, [Next]_vars
             PROVE  IInv' /\ (BindingsRise \/ Imported)
  OBVIOUS
<1>1. CASE Administration
  <2>1. ASSUME NEW d \in Device, Activate(d) \/ Revoke(d)
        PROVE  IInv' /\ BindingsRise
    BY <2>1, ActivateKeeps, RevokeKeeps
  <2>2. ASSUME NEW d \in Device, NEW b \in Binding, PeerPublishes(d, b)
        PROVE  IInv' /\ BindingsRise
    BY <2>2, PeerPublishesKeeps
  <2>. QED
    BY <1>1, <2>1, <2>2, SettingsChangeKeeps, ExportKeeps DEF Administration
<1>2. CASE Start
  BY <1>2, StartKeeps
<1>3. CASE Synchronization
  BY <1>3, BindKeeps, NextSyncKeeps, PublishKeeps, RefusedByGatewayKeeps,
     AskKeeps, ApplyKeeps, RenewKeeps, ObserveStepKeeps, CommitStepKeeps
     DEF Synchronization
<1>4. CASE UseCatalog
  BY <1>4, UseCatalogKeeps
<1>5. CASE Restore
  BY <1>5, RestoreKeeps DEF Imported
<1>6. CASE TimePasses
  <2>1. now + 1 \in 0..MaxTime
    BY <1>6, AtHand, Values DEF TimePasses
  <2>. QED
    BY <1>6, <2>1, SetClockKeeps DEF TimePasses
<1>7. CASE Fault
  <2>1. ASSUME NEW k \in Key, RotateHostKeys(k) PROVE IInv' /\ BindingsRise
    BY <2>1, RotateKeeps
  <2>2. ASSUME NEW t \in 0..MaxTime, SetClock(t) PROVE IInv' /\ BindingsRise
    BY <2>2, SetClockKeeps
  <2>3. CASE Lost
    BY <2>3, LostKeeps DEF Imported
  <2>. QED
    BY <1>7, <2>1, <2>2, <2>3, SyncFailsKeeps, CrashKeeps, WriteFailsKeeps,
       SpoilKeeps
       DEF Fault
<1>8. CASE UNCHANGED vars
  <2>1. /\ UNCHANGED <<storeVars, outside, gateway, now, bundle>>
        /\ UNCHANGED <<daemon, changed>>
    BY <1>8 DEF vars
  <2>2. Calm /\ UNCHANGED storeVars /\ DaemonOK' /\ changed' \in BOOLEAN
    BY <2>1, AtHand, DaemonStays DEF Calm
  <2>. QED
    BY <2>2, IdleKeeps
<1>. QED
  BY <1>1, <1>2, <1>3, <1>4, <1>5, <1>6, <1>7, <1>8 DEF Next

(***************************************************************************)
(* The invariant holds in every state: the types, rows that know every     *)
(* revocation of the Gateway beside them (the handlers save both in one    *)
(* transaction), and bundles that hold what their Gateway had revoked.     *)
(***************************************************************************)
THEOREM Invariance == Spec => []IInv
<1>1. Init => IInv
  BY InitInvariant
<1>2. IInv /\ [Next]_vars => IInv'
  BY StepInvariant
<1>. QED
  BY <1>1, <1>2, PTL DEF Spec

(***************************************************************************)
(* The store, the daemon's working copy, the Gateway and the bundle keep   *)
(* their types, and no more snapshots are retained than CommitSnapshot     *)
(* leaves.                                                                 *)
(***************************************************************************)
THEOREM TypeCorrect == Spec => []TypeOK
<1>1. IInv => TypeOK
  BY DEF IInv
<1>. QED
  BY <1>1, Invariance, PTL

(***************************************************************************)
(* On the Gateway's computer no directory that is loaded shows a revoked   *)
(* Device as active: LoadLatestValidSnapshot overlays the rows, and the    *)
(* rows know every revocation.                                             *)
(***************************************************************************)
THEOREM RevocationsHold == Spec => []RevocationStands
<1>1. IInv => RevocationStands
  <2> SUFFICES ASSUME IInv, hosting, View # NoSnapshot
               PROVE  Goes(gateway) \subseteq View.revoked
    BY DEF RevocationStands
  <2>1. revocations \subseteq View.revoked
    BY AtHand, ViewShows
  <2>2. Goes(gateway) \subseteq revocations
    BY DEF IInv, RowsKeepUp
  <2>. QED
    BY <2>1, <2>2
<1>. QED
  BY <1>1, Invariance, PTL

(***************************************************************************)
(* The directory never goes back to an older binding of a Shell, nor to    *)
(* other keys of the same version (CommitSnapshot and                      *)
(* LoadLatestValidSnapshot against ssh_binding_versions): what is shown is *)
(* what was accepted, and what was accepted rises.                         *)
(***************************************************************************)
THEOREM BindingsOnlyRise == Spec => BindingsNeverGoBack
<1>. DEFINE Rises == View # NoSnapshot /\ View' # NoSnapshot /\ ~Imported =>
                       \A d \in Device :
                         LET old == View.binding[d]
                             new == View'.binding[d]
                         IN  old # NoBinding /\ new # NoBinding =>
                               old = new \/ Newer(new, old)
<1>1. IInv /\ [Next]_vars => [Rises]_vars
  <2> SUFFICES ASSUME IInv, [Next]_vars, View # NoSnapshot,
                      View' # NoSnapshot, ~Imported,
                      NEW d \in Device, View.binding[d] # NoBinding,
                      View'.binding[d] # NoBinding
               PROVE  \/ View.binding[d] = View'.binding[d]
                      \/ Newer(View'.binding[d], View.binding[d])
    OBVIOUS
  <2>1. BindingsRise /\ IInv'
    BY StepInvariant
  <2>2. View.binding[d] = accepted[d]
    BY AtHand, ViewShows
  <2>3. View'.binding[d] = accepted'[d]
    <3>1. StoreTypeOK'
      BY <2>1 DEF IInv, TypeOK
    <3>2. ShownIsAccepted'
      BY ViewShowsAccepted, PTL
    <3>. QED
      BY <3>1, <3>2 DEF ShownIsAccepted
  <2>. QED
    BY <2>1, <2>2, <2>3 DEF BindingsRise
<1>. QED
  BY <1>1, Invariance, PTL DEF Spec, BindingsNeverGoBack

LEMMA RestoredShows ==
  ASSUME IInv, Restore
  PROVE  View' = bundle.snap
<1>. DEFINE s == bundle.snap
            row == [snap |-> s, damaged |-> FALSE]
<1>1. s \in Snapshot /\ Goes(bundle.gateway) \subseteq s.revoked
  BY DEF Restore, IInv, BundleIsWhole
<1>2. /\ snapshots' = <<row>> /\ active' = 1 /\ accepted' = s.binding
      /\ versions' = [dv |-> s.dv, gv |-> s.gv]
      /\ revocations' = Goes(bundle.gateway)
  BY DEF Restore, ReplaceFromDatabase
<1>3. row.snap = s /\ row.damaged = FALSE
  OBVIOUS
<1>. HIDE DEF s, row
<1>4. Valid' = {1}
  <2>1. DOMAIN snapshots' = {1} /\ snapshots'[1] = row
    BY <1>2
  <2>2. Valid' = {i \in DOMAIN snapshots' :
                    /\ ~snapshots'[i].damaged
                    /\ \A d \in Device :
                         snapshots'[i].snap.binding[d] # NoBinding =>
                           snapshots'[i].snap.binding[d] = accepted'[d]}
    BY DEF Valid, Current
  <2>3. \A d \in Device : row.snap.binding[d] # NoBinding =>
          row.snap.binding[d] = accepted'[d]
    BY <1>2, <1>3
  <2>. QED
    BY <1>3, <2>1, <2>2, <2>3
<1>5. Chosen' = 1 /\ snapshots'[1] = row
  BY <1>2, <1>4 DEF Chosen
<1>6. View' = [s EXCEPT !.dv = Later(@, versions'.dv),
                        !.gv = Later(@, versions'.gv),
                        !.revoked = @ \cup revocations']
  BY <1>3, <1>4, <1>5 DEF View, Overlaid
<1>7. /\ Later(s.dv, versions'.dv) = s.dv /\ Later(s.gv, versions'.gv) = s.gv
      /\ s.revoked \cup revocations' = s.revoked
  BY <1>1, <1>2 DEF Later
<1>8. View' = [s EXCEPT !.dv = s.dv, !.gv = s.gv, !.revoked = s.revoked]
  BY <1>6, <1>7
<1>9. View' = s
  BY <1>1, <1>8 DEF Snapshot
<1>. QED
  BY <1>9 DEF s

(***************************************************************************)
(* A restored database loads, and shows the directory that was exported    *)
(* (RestoreToNewDatabase, ReplaceFromDatabase): its bindings are the       *)
(* accepted ones again, and its rows add nothing to it, as the bundle was  *)
(* made from a directory that the same rows had been laid over.            *)
(***************************************************************************)
THEOREM RestoredIsExact == Spec => RestoreIsExact
<1>1. IInv /\ [Next]_vars => [Restore => View' = bundle.snap]_vars
  BY RestoredShows
<1>. QED
  BY <1>1, Invariance, PTL DEF Spec, RestoreIsExact

-----------------------------------------------------------------------------
(* The age of the authority that is shown.                                 *)

Age(i) == snapshots[i].snap.captured

Works == daemon.pc \notin {"down", "ready"}

\* No snapshot has a binding that is newer than the accepted one, so that one
\* that is not current never becomes current again.
OldBindings ==
  \A i \in DOMAIN snapshots, d \in Device :
    LET b == snapshots[i].snap.binding[d]
    IN  b # NoBinding => \/ accepted[d] = b
                         \/ accepted[d] # NoBinding /\ Newer(accepted[d], b)

\* The Owner's computer has one authority only, which nothing renews; on a
\* controlled node the authority of the valid snapshots rises, and the active
\* one has the latest.
AgesInOrder ==
  /\ pull => \A i, j \in DOMAIN snapshots : Age(i) = Age(j)
  /\ ~pull => /\ \A i, j \in Valid : i <= j => Age(i) <= Age(j)
              /\ active \in Valid => \A i \in Valid : Age(i) <= Age(active)

\* No stored authority is later than c, on the Owner's computer none differs.
Fits(c) ==
  /\ pull => \A i \in DOMAIN snapshots : Age(i) = c
  /\ ~pull => \A i \in Valid : Age(i) <= c

DaemonFits ==
  /\ pull => daemon.pc \notin {"confirm", "renew", "observe"}
  /\ Works => Fits(daemon.snap.captured)

AgeInv ==
  /\ hosting => pull
  /\ OldBindings
  /\ AgesInOrder
  /\ DaemonFits

LEMMA AgeTyped ==
  ASSUME StoreTypeOK
  PROVE  \A i \in DOMAIN snapshots :
           /\ i \in Nat /\ snapshots[i] \in Row
           /\ snapshots[i].snap \in Snapshot /\ Age(i) \in Nat
<1>1. snapshots \in Seq(Row)
  BY DEF StoreTypeOK, Row
<1>2. \A i \in DOMAIN snapshots : i \in Nat /\ snapshots[i] \in Row
  BY <1>1
<1>. QED
  BY <1>2 DEF Row, Snapshot, Age

\* Stated as one formula, for the next state, too.
ShownAge ==
  StoreTypeOK /\ View # NoSnapshot =>
    Chosen \in Valid /\ View.captured = Age(Chosen)

LEMMA ViewAge == ShownAge
<1> SUFFICES ASSUME StoreTypeOK, View # NoSnapshot
             PROVE  Chosen \in Valid /\ View.captured = Age(Chosen)
  BY DEF ShownAge
<1>1. Valid # {} /\ Chosen \in Valid
  BY ViewShows, ChosenIsValid
<1>2. View = Overlaid(snapshots[Chosen].snap)
  BY <1>1 DEF View
<1>3. snapshots[Chosen].snap \in Snapshot
  BY <1>1, AgeTyped DEF Valid
<1>4. View.captured = snapshots[Chosen].snap.captured
  BY <1>2, <1>3 DEF Overlaid, Snapshot
<1>. QED
  BY <1>1, <1>4 DEF Age

\* What is shown has the latest authority there is.
LEMMA ChosenIsLatest ==
  ASSUME StoreTypeOK, AgesInOrder, ~pull, Valid # {}
  PROVE  \A i \in Valid : Age(i) <= Age(Chosen)
<1>1. CASE active \in Valid
  BY <1>1 DEF Chosen, AgesInOrder
<1>2. CASE active \notin Valid
  <2>1. Len(snapshots) \in Nat /\ Valid \in SUBSET (1..Len(snapshots))
    BY DEF StoreTypeOK, Valid
  <2>2. \E i \in Valid : \A j \in Valid : j <= i
    BY <2>1, LastExists
  <2>3. Chosen \in Valid /\ \A j \in Valid : j <= Chosen
    BY <1>2, <2>2 DEF Chosen
  <2>. QED
    BY <2>3 DEF AgesInOrder
<1>. QED
  BY <1>1, <1>2

\* The directory that is loaded fits the store.
LEMMA ViewFits ==
  ASSUME StoreTypeOK, AgesInOrder, Valid # {}
  PROVE  Fits(View.captured)
<1>1. View # NoSnapshot /\ View.captured = Age(Chosen) /\ Chosen \in Valid
  BY ViewShows, ViewAge, StoreAssumption DEF ShownAge
<1>2. Chosen \in DOMAIN snapshots
  BY <1>1 DEF Valid
<1>. QED
  BY <1>1, <1>2, ChosenIsLatest DEF Fits, AgesInOrder

-----------------------------------------------------------------------------
(* Writes that add no snapshot.                                            *)

\* The same snapshots, perhaps fewer of them valid; the active one may be
\* replaced by the one that is loaded.
AddsNone ==
  /\ DOMAIN snapshots' = DOMAIN snapshots
  /\ \A i \in DOMAIN snapshots : snapshots'[i].snap = snapshots[i].snap
  /\ accepted' = accepted
  /\ Valid' \subseteq Valid
  /\ clock \in Nat /\ clock' \in Nat /\ clock <= clock'
  /\ active' = active \/ (active' = Chosen /\ Valid # {})

LEMMA SameSnapshotsAddNone ==
  ASSUME StoreTypeOK, UNCHANGED <<snapshots, accepted>>,
         clock' \in Nat, clock <= clock',
         active' = active \/ (active' = Chosen /\ Valid # {})
  PROVE  AddsNone
<1>1. Valid' = Valid
  BY DEF Valid, Current
<1>. QED
  BY <1>1 DEF AddsNone, StoreTypeOK

LEMMA UnchangedAddsNone ==
  ASSUME StoreTypeOK, UNCHANGED storeVars PROVE AddsNone
<1>1. UNCHANGED <<snapshots, accepted>> /\ clock' \in Nat /\ clock <= clock'
      /\ active' = active
  BY DEF storeVars, StoreTypeOK
<1>. QED
  BY <1>1, SameSnapshotsAddNone

LEMMA LoadAddsNone == ASSUME StoreTypeOK, Load PROVE AddsNone
<1>1. UNCHANGED <<snapshots, accepted>> /\ clock' \in Nat /\ clock <= clock'
      /\ active' = Chosen /\ Valid # {}
  BY DEF Load, StoreTypeOK
<1>. QED
  BY <1>1, SameSnapshotsAddNone

LEMMA ObserveAddsNone ==
  ASSUME StoreTypeOK, NEW time \in Nat, ObserveAuthorizationTime(time)
  PROVE  AddsNone
<1>1. UNCHANGED <<snapshots, accepted>> /\ clock' \in Nat /\ clock <= clock'
      /\ active' = active
  BY DEF ObserveAuthorizationTime, StoreTypeOK, Later
<1>. QED
  BY <1>1, SameSnapshotsAddNone

LEMMA StatusAddsNone ==
  ASSUME StoreTypeOK, NEW d, SaveStatus(d) PROVE AddsNone
<1>1. UNCHANGED <<snapshots, accepted>> /\ clock' \in Nat /\ clock <= clock'
      /\ active' = active
  BY DEF SaveStatus, SaveDeviceStatus, storeVars, StoreTypeOK
<1>. QED
  BY <1>1, SameSnapshotsAddNone

LEMMA DamageAddsNone ==
  ASSUME StoreTypeOK, NEW i, Damage(i) PROVE AddsNone
<1>1. /\ i \in DOMAIN snapshots /\ snapshots[i] \in Row
      /\ snapshots' = [snapshots EXCEPT ![i].damaged = TRUE]
      /\ UNCHANGED <<active, accepted, clock>>
  BY AgeTyped DEF Damage
<1>2. DOMAIN snapshots' = DOMAIN snapshots
  BY <1>1
<1>3. ASSUME NEW j \in DOMAIN snapshots
      PROVE  /\ snapshots'[j].snap = snapshots[j].snap
             /\ snapshots[j].damaged => snapshots'[j].damaged
  <2>1. CASE j # i
    BY <1>1, <2>1
  <2>2. CASE j = i
    <3>1. snapshots'[j] = [snapshots[j] EXCEPT !.damaged = TRUE]
      BY <1>1, <2>2
    <3>. QED
      BY <1>1, <2>2, <3>1 DEF Row
  <2>. QED
    BY <2>1, <2>2
<1>4. Valid' \subseteq Valid
  <2>1. Valid' = {j \in DOMAIN snapshots' :
                    /\ ~snapshots'[j].damaged
                    /\ \A d \in Device :
                         snapshots'[j].snap.binding[d] # NoBinding =>
                           snapshots'[j].snap.binding[d] = accepted'[d]}
    BY DEF Valid, Current
  <2>. QED
    BY <1>1, <1>2, <1>3, <2>1 DEF Valid, Current
<1>. QED
  BY <1>1, <1>2, <1>3, <1>4 DEF AddsNone, StoreTypeOK

\* They keep the order of the authorities, and show no later one.
LEMMA AddingNoneKeeps ==
  ASSUME StoreTypeOK, AgesInOrder, OldBindings, AddsNone, pull' = pull
  PROVE  /\ AgesInOrder' /\ OldBindings'
         /\ \A c : Fits(c) =>
              /\ pull' => \A i \in DOMAIN snapshots' :
                            snapshots'[i].snap.captured = c
              /\ ~pull' => \A i \in Valid' : snapshots'[i].snap.captured <= c
<1>1. /\ DOMAIN snapshots' = DOMAIN snapshots /\ Valid' \subseteq Valid
      /\ \A i \in DOMAIN snapshots : snapshots'[i].snap = snapshots[i].snap
      /\ accepted' = accepted
  BY DEF AddsNone
<1>2. Valid \subseteq DOMAIN snapshots
  BY DEF Valid
<1>3. OldBindings'
  BY <1>1 DEF OldBindings, Newer
<1>4. \A i \in DOMAIN snapshots : snapshots'[i].snap.captured = Age(i)
  BY <1>1 DEF Age
<1>5. AgesInOrder'
  <2>1. CASE pull
    BY <1>1, <1>4, <2>1 DEF AgesInOrder, Age
  <2>2. CASE ~pull
    <3>1. \A i, j \in Valid' : i <= j =>
            snapshots'[i].snap.captured <= snapshots'[j].snap.captured
      BY <1>1, <1>2, <1>4, <2>2 DEF AgesInOrder
    <3>2. ASSUME active' \in Valid', NEW i \in Valid'
          PROVE  snapshots'[i].snap.captured
                   <= snapshots'[active'].snap.captured
      <4>1. CASE active' = active
        BY <1>1, <1>2, <1>4, <2>2, <3>2, <4>1 DEF AgesInOrder
      <4>2. CASE active' = Chosen /\ Valid # {}
        BY <1>1, <1>2, <1>4, <2>2, <3>2, <4>2, ChosenIsLatest
      <4>. QED
        BY <4>1, <4>2 DEF AddsNone
    <3>. QED
      BY <2>2, <3>1, <3>2 DEF AgesInOrder, Age
  <2>. QED
    BY <2>1, <2>2
<1>6. ASSUME NEW c, Fits(c)
      PROVE  /\ pull' => \A i \in DOMAIN snapshots' :
                            snapshots'[i].snap.captured = c
             /\ ~pull' => \A i \in Valid' : snapshots'[i].snap.captured <= c
  BY <1>1, <1>2, <1>4, <1>6 DEF Fits
<1>. QED
  BY <1>3, <1>5, <1>6

-----------------------------------------------------------------------------
(* A commit.                                                               *)

\* The committed snapshot comes last; the others stay in their order, the
\* oldest may go.
LEMMA CommitAppends ==
  ASSUME StoreTypeOK, NEW s \in Snapshot, CommitSnapshot(s)
  PROVE  /\ active' \in DOMAIN snapshots'
         /\ snapshots'[active'] = [snap |-> s, damaged |-> FALSE]
         /\ \E k \in {0, 1} :
              \A i \in DOMAIN snapshots' \ {active'} :
                /\ i \in Nat /\ i < active'
                /\ i + k \in DOMAIN snapshots
                /\ snapshots'[i] = snapshots[i + k]
<1>. DEFINE row == [snap |-> s, damaged |-> FALSE]
            all == Append(snapshots, row)
            n == Len(snapshots)
            first == IF n + 1 > Retained THEN 2 ELSE 1
<1>. Retained \in Nat \ {0}
  BY StoreAssumption
<1>1. snapshots \in Seq(Row) /\ n \in Nat /\ n <= Retained /\ row \in Row
  BY DEF StoreTypeOK, Row
<1>2. /\ snapshots' = SubSeq(all, IF Len(all) > Retained THEN 2 ELSE 1,
                             Len(all))
      /\ active' = Len(snapshots')
  BY DEF CommitSnapshot
<1>. HIDE DEF row
<1>3. /\ all \in Seq(Row) /\ Len(all) = n + 1 /\ all[n + 1] = row
      /\ \A i \in 1..n : all[i] = snapshots[i]
      /\ \A i \in 1..n + 1 : all[i] \in Row
  BY <1>1
<1>. HIDE DEF all, n
<1>4. snapshots' = SubSeq(all, first, n + 1) /\ first \in {1, 2}
      /\ first <= n + 1
  BY <1>1, <1>2, <1>3
<1>5. /\ Len(snapshots') = n + 2 - first
      /\ \A i \in 1..n + 2 - first : snapshots'[i] = all[i + first - 1]
      /\ DOMAIN snapshots' = 1..n + 2 - first
  <2>. HIDE DEF first
  <2>. DEFINE last == n + 1
  <2>1. \A i \in first..last : all[i] \in Row
    BY <1>3, <1>4
  <2>2. /\ first \in Int /\ last \in Int /\ first <= last
        /\ last - first + 1 = n + 2 - first
        /\ snapshots' = SubSeq(all, first, last)
    BY <1>1, <1>4
  <2>. HIDE DEF last
  <2>3. /\ SubSeq(all, first, last) \in Seq(Row)
        /\ Len(SubSeq(all, first, last)) = last - first + 1
        /\ \A i \in 1..last - first + 1 :
             SubSeq(all, first, last)[i] = all[first + i - 1]
    BY <2>1, <2>2, SubSeqProperties
  <2>4. /\ snapshots' \in Seq(Row) /\ Len(snapshots') = n + 2 - first
        /\ \A i \in 1..n + 2 - first : snapshots'[i] = all[first + i - 1]
    BY <2>2, <2>3
  <2>5. DOMAIN snapshots' = 1..Len(snapshots')
    BY <2>4
  <2>6. \A i \in 1..n + 2 - first : first + i - 1 = i + first - 1
    BY <2>2
  <2>. QED
    BY <2>4, <2>5, <2>6
<1>6. active' = n + 2 - first /\ active' \in DOMAIN snapshots'
      /\ snapshots'[active'] = row
  BY <1>1, <1>2, <1>3, <1>4, <1>5
<1>7. DOMAIN snapshots = 1..n
  BY <1>1 DEF n
<1>8. \A i \in DOMAIN snapshots' \ {active'} :
        /\ i \in Nat /\ i < active'
        /\ i + (first - 1) \in DOMAIN snapshots
        /\ snapshots'[i] = snapshots[i + (first - 1)]
  <2>. SUFFICES ASSUME NEW i \in DOMAIN snapshots' \ {active'}
                PROVE  /\ i \in Nat /\ i < active'
                       /\ i + (first - 1) \in DOMAIN snapshots
                       /\ snapshots'[i] = snapshots[i + (first - 1)]
    OBVIOUS
  <2>1. i \in 1..n + 2 - first /\ i # n + 2 - first /\ i \in Nat
    BY <1>1, <1>4, <1>5, <1>6
  <2>2. i < active' /\ i + (first - 1) \in 1..n
        /\ i + first - 1 = i + (first - 1)
    BY <1>1, <1>4, <1>6, <2>1
  <2>. QED
    BY <1>3, <1>5, <1>7, <2>1, <2>2
<1>9. first - 1 \in {0, 1}
  BY <1>4
<1>. QED
  BY <1>6, <1>8, <1>9 DEF row

\* A commit of a snapshot that fits: no old snapshot becomes valid again, and
\* the new one is shown.
LEMMA CommitAges ==
  ASSUME StoreTypeOK, AgesInOrder, OldBindings, NEW s \in Snapshot,
         Fits(s.captured), CommitSnapshot(s), pull' = pull
  PROVE  /\ AgesInOrder' /\ OldBindings'
         /\ pull' => \A i \in DOMAIN snapshots' :
                       snapshots'[i].snap.captured = s.captured
         /\ ~pull' => \A i \in Valid' :
                        snapshots'[i].snap.captured <= s.captured
         /\ View' # NoSnapshot => View'.captured = s.captured
         /\ clock \in Nat /\ clock' \in Nat /\ clock <= clock'
<1>. DEFINE row == [snap |-> s, damaged |-> FALSE]
<1>1. active' \in DOMAIN snapshots' /\ snapshots'[active'] = row
  BY CommitAppends
<1>2. PICK k \in {0, 1} : \A i \in DOMAIN snapshots' \ {active'} :
                            /\ i \in Nat /\ i < active'
                            /\ i + k \in DOMAIN snapshots
                            /\ snapshots'[i] = snapshots[i + k]
  BY CommitAppends
<1>3. row.snap = s /\ row.damaged = FALSE /\ s.captured \in Nat
      /\ s.binding \in Bindings
  BY DEF Snapshot
<1>. HIDE DEF row
<1>4. StoreTypeOK' /\ BindingsRise
  BY CommitKeeps
<1>5. /\ accepted' = [d \in Device |-> IF s.binding[d] = NoBinding
                                       THEN accepted[d] ELSE s.binding[d]]
      /\ clock' = Later(clock, s.captured)
  BY DEF CommitSnapshot
<1>6. /\ \A d \in Device : /\ accepted[d] \in Binding \cup {NoBinding}
                           /\ accepted'[d] \in Binding \cup {NoBinding}
      /\ NoBinding \notin Binding /\ \A b \in Binding : b.version \in Nat
  BY <1>4, StoreAssumption DEF StoreTypeOK, Bindings, Binding
<1>7. Valid' = {j \in DOMAIN snapshots' :
                  /\ ~snapshots'[j].damaged
                  /\ \A d \in Device :
                       snapshots'[j].snap.binding[d] # NoBinding =>
                         snapshots'[j].snap.binding[d] = accepted'[d]}
  BY DEF Valid, Current
<1>8. active' \in Valid'
  BY <1>1, <1>3, <1>5, <1>7
<1>9. ASSUME NEW i \in DOMAIN snapshots', i # active', NEW d \in Device,
             snapshots'[i].snap.binding[d] # NoBinding
      PROVE  LET b == snapshots'[i].snap.binding[d]
             IN  /\ b \in Binding
                 /\ \/ accepted[d] = b
                    \/ accepted[d] # NoBinding /\ Newer(accepted[d], b)
                 /\ \/ accepted'[d] = b
                    \/ accepted'[d] # NoBinding /\ Newer(accepted'[d], b)
                 /\ accepted'[d] = b => accepted[d] = b
  <2>. DEFINE b == snapshots'[i].snap.binding[d]
  <2>1. i + k \in DOMAIN snapshots /\ b = snapshots[i + k].snap.binding[d]
    BY <1>2, <1>9
  <2>2. snapshots[i + k].snap.binding \in Bindings
    BY <2>1, AgeTyped DEF Snapshot
  <2>3. b \in Binding
    BY <1>9, <2>1, <2>2 DEF Bindings
  <2>4. accepted[d] = b \/ (accepted[d] # NoBinding /\ Newer(accepted[d], b))
    BY <1>9, <2>1 DEF OldBindings
  <2>5. accepted'[d] = accepted[d] \/ Newer(accepted'[d], accepted[d])
    BY <1>4 DEF BindingsRise
  <2>6. accepted'[d] # NoBinding
    BY <1>5, <1>6, <2>3, <2>4
  <2>. HIDE DEF b
  <2>. QED
    BY <1>6, <2>3, <2>4, <2>5, <2>6 DEF Newer, b
<1>10. OldBindings'
  <2> SUFFICES ASSUME NEW i \in DOMAIN snapshots', NEW d \in Device,
                      snapshots'[i].snap.binding[d] # NoBinding
               PROVE  LET b == snapshots'[i].snap.binding[d]
                      IN  \/ accepted'[d] = b
                          \/ accepted'[d] # NoBinding /\ Newer(accepted'[d], b)
    BY DEF OldBindings, Newer
  <2>1. CASE i = active'
    BY <1>1, <1>3, <1>5, <2>1
  <2>2. CASE i # active'
    BY <1>9, <2>2
  <2>. QED
    BY <2>1, <2>2
<1>11. \A i \in DOMAIN snapshots' \ {active'} :
         /\ snapshots'[i].snap.captured = Age(i + k)
         /\ i \in Valid' => i + k \in Valid
  <2> SUFFICES ASSUME NEW i \in DOMAIN snapshots', i # active'
               PROVE  /\ snapshots'[i].snap.captured = Age(i + k)
                      /\ i \in Valid' => i + k \in Valid
    OBVIOUS
  <2>1. i + k \in DOMAIN snapshots /\ snapshots'[i] = snapshots[i + k]
    BY <1>2
  <2>2. ASSUME i \in Valid'
        PROVE  i + k \in Valid
    <3>1. ~snapshots[i + k].damaged
      BY <1>7, <2>1, <2>2
    <3>2. ASSUME NEW d \in Device,
                 snapshots[i + k].snap.binding[d] # NoBinding
          PROVE  snapshots[i + k].snap.binding[d] = accepted[d]
      BY <1>7, <1>9, <2>1, <2>2, <3>2
    <3>. QED
      BY <2>1, <3>1, <3>2 DEF Valid, Current
  <2>. QED
    BY <2>1, <2>2 DEF Age
<1>12. snapshots'[active'].snap.captured = s.captured
  BY <1>1, <1>3
<1>13. /\ pull' => \A i \in DOMAIN snapshots' :
                     snapshots'[i].snap.captured = s.captured
       /\ ~pull' => \A i \in Valid' :
                      snapshots'[i].snap.captured <= s.captured
  <2>1. Valid' \subseteq DOMAIN snapshots'
    BY <1>7
  <2>. QED
    BY <1>2, <1>3, <1>11, <1>12, <2>1 DEF Fits
<1>14. AgesInOrder'
  <2>1. CASE pull
    BY <1>13, <2>1 DEF AgesInOrder, Age
  <2>2. CASE ~pull
    <3>1. Valid' \subseteq DOMAIN snapshots'
      BY <1>7
    <3>2. ASSUME NEW i \in Valid', NEW j \in Valid', i <= j
          PROVE  snapshots'[i].snap.captured <= snapshots'[j].snap.captured
      <4>1. CASE j = active'
        BY <1>12, <1>13, <2>2, <4>1
      <4>2. CASE j # active'
        <5>1. i # active' /\ i \in Nat /\ j \in Nat
          <6>1. j \in Nat /\ j < active' /\ active' \in Nat
            BY <1>2, <1>4, <3>1, <4>2 DEF StoreTypeOK
          <6>2. i # active'
            BY <3>2, <6>1
          <6>. QED
            BY <1>2, <3>1, <6>1, <6>2
        <5>2. i + k \in Valid /\ j + k \in Valid /\ i + k <= j + k
          BY <1>11, <3>1, <3>2, <4>2, <5>1
        <5>. QED
          BY <1>11, <2>2, <3>1, <4>2, <5>1, <5>2 DEF AgesInOrder
      <4>. QED
        BY <4>1, <4>2
    <3>. QED
      BY <1>12, <1>13, <2>2, <3>2 DEF AgesInOrder, Age
  <2>. QED
    BY <2>1, <2>2
<1>15. View' # NoSnapshot => View'.captured = s.captured
  <2>1. ShownAge'
    BY ViewAge, PTL
  <2>2. Chosen' = active'
    BY <1>8 DEF Chosen
  <2>. QED
    BY <1>4, <1>12, <2>1, <2>2 DEF ShownAge, Age
<1>16. clock \in Nat /\ clock' \in Nat /\ clock <= clock'
  BY <1>3, <1>4, <1>5 DEF StoreTypeOK, Later
<1>. QED
  BY <1>10, <1>13, <1>14, <1>15, <1>16

-----------------------------------------------------------------------------
(* The steps.                                                              *)

\* The clock does not go back, and no later authority is shown.
NoneRises ==
  /\ clock \in Nat /\ clock' \in Nat /\ clock <= clock'
  /\ View # NoSnapshot /\ View' # NoSnapshot =>
       /\ View.captured \in Nat /\ View'.captured \in Nat
       /\ View'.captured <= View.captured

\* What the daemon has loaded is shown.
Rewrites ==
  /\ Bind
  /\ clock \in Nat /\ clock' \in Nat /\ clock <= clock'
  /\ View' # NoSnapshot => View'.captured = daemon.snap.captured

Ages == AgeInv' /\ (NoneRises \/ Rewrites \/ Renewed)

\* The daemon rests, or has a snapshot that fits the store.
Follows ==
  /\ pull => daemon'.pc \notin {"confirm", "renew", "observe"}
  /\ daemon'.pc \in {"down", "ready"} \/ Fits(daemon'.snap.captured)

LEMMA AddingNoneShows ==
  ASSUME StoreTypeOK, StoreTypeOK', AgesInOrder, AddsNone
  PROVE  NoneRises
<1>1. clock \in Nat /\ clock' \in Nat /\ clock <= clock'
  BY DEF AddsNone
<1>2. ASSUME View # NoSnapshot, View' # NoSnapshot
      PROVE  /\ View.captured \in Nat /\ View'.captured \in Nat
             /\ View'.captured <= View.captured
  <2>1. Chosen \in Valid /\ View.captured = Age(Chosen)
    BY <1>2, ViewAge DEF ShownAge
  <2>2. Chosen' \in Valid' /\ View'.captured = Age(Chosen)'
    <3>1. ShownAge'
      BY ViewAge, PTL
    <3>. QED
      BY <1>2, <3>1 DEF ShownAge
  <2>3. Chosen' \in Valid /\ View'.captured = Age(Chosen')
    <3>1. Chosen' \in Valid /\ Chosen' \in DOMAIN snapshots
      BY <2>2 DEF AddsNone, Valid
    <3>2. snapshots'[Chosen'].snap = snapshots[Chosen'].snap
      BY <3>1 DEF AddsNone
    <3>. QED
      BY <2>2, <3>1, <3>2 DEF Age
  <2>4. Age(Chosen) \in Nat /\ Age(Chosen') \in Nat
    BY <2>1, <2>3, AgeTyped DEF Valid
  <2>5. Age(Chosen') <= Age(Chosen)
    <3>1. CASE pull
      BY <2>1, <2>3, <2>4, <3>1 DEF AgesInOrder, Valid
    <3>2. CASE ~pull
      BY <2>1, <2>3, <3>2, ChosenIsLatest
    <3>. QED
      BY <3>1, <3>2
  <2>. QED
    BY <2>1, <2>3, <2>4, <2>5
<1>. QED
  BY <1>1, <1>2 DEF NoneRises

LEMMA QuietAges ==
  ASSUME IInv, IInv', AgeInv, AddsNone, UNCHANGED <<pull, hosting>>, Follows
  PROVE  Ages
<1>1. StoreTypeOK /\ StoreTypeOK'
  BY DEF IInv, TypeOK
<1>2. AgesInOrder /\ OldBindings
  BY DEF AgeInv
<1>3. NoneRises
  BY <1>1, <1>2, AddingNoneShows
<1>4. /\ AgesInOrder' /\ OldBindings'
      /\ \A c : Fits(c) =>
           /\ pull' => \A i \in DOMAIN snapshots' :
                         snapshots'[i].snap.captured = c
           /\ ~pull' => \A i \in Valid' : snapshots'[i].snap.captured <= c
  BY <1>1, <1>2, AddingNoneKeeps
<1>5. daemon'.pc \notin {"down", "ready"} =>
        /\ pull' => \A i \in DOMAIN snapshots' :
                      snapshots'[i].snap.captured = daemon'.snap.captured
        /\ ~pull' => \A i \in Valid' :
                       snapshots'[i].snap.captured <= daemon'.snap.captured
  BY <1>4 DEF Follows
<1>6. DaemonFits'
  BY <1>5 DEF DaemonFits, Works, Fits, Age, Follows
<1>7. (hosting => pull)'
  BY DEF AgeInv
<1>. QED
  BY <1>3, <1>4, <1>6, <1>7 DEF Ages, AgeInv

LEMMA CommittingAges ==
  ASSUME IInv, AgeInv, NEW s \in Snapshot, CommitSnapshot(s),
         Fits(s.captured), UNCHANGED <<pull, hosting>>,
         pull => daemon'.pc \notin {"confirm", "renew", "observe"},
         \/ daemon'.pc \in {"down", "ready"}
         \/ daemon'.snap.captured = s.captured
  PROVE  /\ AgeInv'
         /\ clock \in Nat /\ clock' \in Nat /\ clock <= clock'
         /\ View' # NoSnapshot => View'.captured = s.captured
<1>1. StoreTypeOK /\ AgesInOrder /\ OldBindings
  BY DEF IInv, TypeOK, AgeInv
<1>2. /\ AgesInOrder' /\ OldBindings'
      /\ pull' => \A i \in DOMAIN snapshots' :
                    snapshots'[i].snap.captured = s.captured
      /\ ~pull' => \A i \in Valid' :
                     snapshots'[i].snap.captured <= s.captured
      /\ View' # NoSnapshot => View'.captured = s.captured
      /\ clock \in Nat /\ clock' \in Nat /\ clock <= clock'
  BY <1>1, CommitAges
<1>3. DaemonFits'
  BY <1>2 DEF DaemonFits, Works, Fits, Age
<1>4. (hosting => pull)'
  BY DEF AgeInv
<1>. QED
  BY <1>2, <1>3, <1>4 DEF AgeInv

\* Steps that leave the daemon as it is, or let it rest or end.
LEMMA StayFollows ==
  ASSUME AgeInv, UNCHANGED daemon \/ Rest \/ daemon' = Down
  PROVE  Follows
<1>1. CASE UNCHANGED daemon
  BY <1>1 DEF AgeInv, DaemonFits, Works, Follows
<1>2. CASE Rest \/ daemon' = Down
  BY <1>2 DEF Rest, Down, Follows
<1>. QED
  BY <1>1, <1>2

LEMMA InitAges == Init => AgeInv
<1> SUFFICES ASSUME Init PROVE AgeInv
  OBVIOUS
<1>1. (hosting => pull) /\ DaemonFits
  BY DEF Init, DaemonFits, Works, Down
<1>2. CASE EmptyStore
  BY <1>1, <1>2 DEF EmptyStore, AgeInv, OldBindings, AgesInOrder, Valid
<1>3. CASE ~pull
  <2>. DEFINE row == [snap |-> First(0), damaged |-> FALSE]
  <2>1. snapshots = <<row>> /\ active = 1
    BY <1>3 DEF Init
  <2>2. /\ row.snap.captured = 0
        /\ \A d \in Device : row.snap.binding[d] = NoBinding
    BY DEF First, Unbound
  <2>. HIDE DEF row
  <2>3. DOMAIN snapshots = {1} /\ snapshots[1] = row
    BY <2>1
  <2>4. OldBindings
    BY <2>2, <2>3 DEF OldBindings
  <2>5. AgesInOrder
    BY <1>3, <2>1, <2>2, <2>3 DEF AgesInOrder, Age, Valid
  <2>. QED
    BY <1>1, <2>4, <2>5 DEF AgeInv
<1>. QED
  BY <1>2, <1>3 DEF Init

\* Steps of people and of the world.
LEMMA OutsideAges ==
  ASSUME IInv, IInv', AgeInv, Administration \/ UseCatalog \/ TimePasses
  PROVE  Ages
<1>0. StoreTypeOK /\ now \in Nat
  BY AtHand
<1>1. AddsNone
  <2>1. CASE UseCatalog
    BY <1>0, <2>1, ObserveAddsNone DEF UseCatalog
  <2>2. CASE TimePasses \/ SettingsChange
    BY <1>0, <2>2, UnchangedAddsNone DEF TimePasses, SetClock, SettingsChange
  <2>3. CASE Export
    BY <1>0, <2>3, LoadAddsNone DEF Export
  <2>4. CASE \E d \in Device : Activate(d) \/ Revoke(d)
    BY <1>0, <2>4, StatusAddsNone DEF Activate, Revoke
  <2>5. CASE \E d \in Device, b \in Binding : PeerPublishes(d, b)
    BY <1>0, <2>5, UnchangedAddsNone DEF PeerPublishes
  <2>. QED
    BY <2>1, <2>2, <2>3, <2>4, <2>5 DEF Administration
<1>2. UNCHANGED <<pull, hosting, daemon>>
  BY DEF Administration, UseCatalog, TimePasses, SetClock, SettingsChange,
         Export, Activate, Revoke, PeerPublishes, Calm, outside
<1>. QED
  BY <1>1, <1>2, StayFollows, QuietAges

LEMMA FaultAges ==
  ASSUME IInv, IInv', AgeInv, Fault, ~Lost
  PROVE  Ages
<1>0. StoreTypeOK
  BY AtHand
<1>1. AddsNone
  <2>1. CASE Spoil
    BY <1>0, <2>1, DamageAddsNone DEF Spoil
  <2>2. CASE ~Spoil
    BY <1>0, <2>2, UnchangedAddsNone
       DEF Fault, SyncFails, Crash, WriteFails, RotateHostKeys, SetClock
  <2>. QED
    BY <2>1, <2>2
<1>2. UNCHANGED <<pull, hosting>>
  BY DEF Fault, SyncFails, Crash, WriteFails, Spoil, RotateHostKeys, SetClock,
         Calm, outside
<1>3. UNCHANGED daemon \/ Rest \/ daemon' = Down
  BY DEF Fault, SyncFails, Crash, WriteFails, Spoil, RotateHostKeys, SetClock
<1>. QED
  BY <1>1, <1>2, <1>3, StayFollows, QuietAges

-----------------------------------------------------------------------------
(* The steps of the daemon.                                                *)

LEMMA StartAges == ASSUME IInv, IInv', AgeInv, Start PROVE Ages
<1>0. StoreTypeOK /\ now \in Nat /\ AgesInOrder
  BY AtHand DEF AgeInv
<1>1. UNCHANGED <<pull, hosting>>
  BY DEF Start, Calm, outside
<1>2. CASE snapshots = <<>>
  <2>. DEFINE s == First(now)
  <2>1. s \in Snapshot /\ CommitSnapshot(s)
    BY <1>0, <1>2, FirstTyped DEF Start
  <2>2. daemon'.pc = "bind" /\ daemon'.snap.captured = s.captured
    <3>1. daemon'.pc = "bind" /\ daemon'.snap = Overlaid(s)
      BY <1>2 DEF Start, Work
    <3>. QED
      BY <2>1, <3>1 DEF Overlaid, Snapshot
  <2>3. Fits(s.captured)
    BY <1>2 DEF Fits, Valid
  <2>4. View = NoSnapshot
    BY <1>2 DEF View, Valid
  <2>. HIDE DEF s
  <2>. QED
    BY <1>1, <2>1, <2>2, <2>3, <2>4, CommittingAges DEF Ages, NoneRises
<1>3. CASE snapshots # <<>>
  <2>1. Load /\ Work("bind", View)
    BY <1>3 DEF Start
  <2>2. Follows
    BY <1>0, <2>1, ViewFits DEF Load, Work, Follows
  <2>. QED
    BY <1>0, <1>1, <2>1, <2>2, LoadAddsNone, QuietAges
<1>. QED
  BY <1>2, <1>3

LEMMA NextSyncAges == ASSUME IInv, IInv', AgeInv, NextSync PROVE Ages
<1>0. StoreTypeOK /\ AgesInOrder
  BY AtHand DEF AgeInv
<1>1. UNCHANGED <<pull, hosting>> /\ Load
  BY DEF NextSync, Calm, outside
<1>2. daemon'.pc \in {"publish", "pull"} /\ daemon'.snap = View
  BY DEF NextSync, Work
<1>3. Follows
  BY <1>0, <1>1, <1>2, ViewFits DEF Load, Follows
<1>. QED
  BY <1>0, <1>1, <1>3, LoadAddsNone, QuietAges

\* What the daemon has in hand.
LEMMA InHandFits ==
  ASSUME IInv, AgeInv, daemon.pc \in Step \ {"down", "ready"}
  PROVE  daemon.snap \in Snapshot /\ Fits(daemon.snap.captured)
BY AtHand, InHandTyped DEF AgeInv, DaemonFits, Works

LEMMA BindAges == ASSUME IInv, IInv', AgeInv, Bind PROVE Ages
<1>. DEFINE s == WithBinding(daemon.snap)
<1>1. UNCHANGED <<pull, hosting>> /\ StoreTypeOK
  BY AtHand DEF Bind, Calm, outside
<1>2. daemon.snap \in Snapshot /\ Fits(daemon.snap.captured)
  BY InHandFits DEF Bind, Step
<1>3. s \in Snapshot /\ s.captured = daemon.snap.captured
  <2>1. s \in Snapshot
    BY <1>2, AtHand, WithBindingTyped
  <2>2. s.captured = daemon.snap.captured
    BY <1>2 DEF WithBinding, Snapshot
  <2>. QED
    BY <2>1, <2>2
<1>4. \/ Work("publish", s) /\ UNCHANGED storeVars
      \/ daemon' = Down /\ UNCHANGED storeVars
      \/ CommitSnapshot(s) /\ Work("publish", s)
  BY DEF Bind
<1>. HIDE DEF s
<1>5. CASE Work("publish", s) /\ UNCHANGED storeVars
  <2>1. Follows
    BY <1>2, <1>3, <1>5 DEF Work, Follows
  <2>. QED
    BY <1>1, <1>5, <2>1, UnchangedAddsNone, QuietAges
<1>6. CASE daemon' = Down /\ UNCHANGED storeVars
  BY <1>1, <1>6, StayFollows, UnchangedAddsNone, QuietAges
<1>7. CASE CommitSnapshot(s) /\ Work("publish", s)
  <2>1. daemon'.pc = "publish" /\ daemon'.snap = s
    BY <1>7 DEF Work
  <2>2. Fits(s.captured)
    BY <1>2, <1>3
  <2>. QED
    BY <1>1, <1>3, <1>7, <2>1, <2>2, CommittingAges DEF Ages, Rewrites
<1>. QED
  BY <1>4, <1>5, <1>6, <1>7

LEMMA CommitStepAges == ASSUME IInv, IInv', AgeInv, Commit PROVE Ages
<1>1. UNCHANGED <<pull, hosting>> /\ StoreTypeOK /\ Rest
  BY AtHand DEF Commit, Calm, outside
<1>2. daemon.snap \in Snapshot /\ Fits(daemon.snap.captured)
  BY InHandFits DEF Commit, Step
<1>3. CASE UNCHANGED storeVars
  BY <1>1, <1>3, StayFollows, UnchangedAddsNone, QuietAges
<1>4. CASE CommitSnapshot(daemon.snap)
  <2>1. daemon'.pc = "ready"
    BY <1>1 DEF Rest, Down
  <2>2. /\ AgeInv'
        /\ clock \in Nat /\ clock' \in Nat /\ clock <= clock'
        /\ View' # NoSnapshot => View'.captured = daemon.snap.captured
    BY <1>1, <1>2, <1>4, <2>1, CommittingAges
  <2>3. CASE ~pull
    BY <2>2, <2>3 DEF Ages, Renewed, Commit
  <2>4. CASE pull
    <3>1. ASSUME View # NoSnapshot PROVE View.captured = daemon.snap.captured
      <4>1. Chosen \in Valid /\ View.captured = Age(Chosen)
        BY <1>1, <3>1, ViewAge DEF ShownAge
      <4>. QED
        BY <1>2, <2>4, <4>1 DEF Fits, Valid
    <3>. QED
      BY <1>2, <2>2, <3>1 DEF Ages, NoneRises, Snapshot
  <2>. QED
    BY <2>3, <2>4
<1>. QED
  BY <1>3, <1>4 DEF Commit

\* A directory that is renewed is no older than it was.
LEMMA RenewAges == ASSUME IInv, IInv', AgeInv, Renew PROVE Ages
<1>1. UNCHANGED <<pull, hosting, storeVars>> /\ StoreTypeOK /\ now \in Nat
  BY AtHand DEF Renew, Calm, outside
<1>2. daemon.snap \in Snapshot /\ Fits(daemon.snap.captured)
  BY InHandFits DEF Renew, Step
<1>3. ~pull
  BY DEF Renew, AgeInv, DaemonFits
<1>4. Rest \/ (daemon'.snap.captured = now /\ daemon.snap.captured <= now)
  <2>. DEFINE s == [daemon.snap EXCEPT !.captured = now,
                                       !.dv = daemon.answer.dv,
                                       !.gv = daemon.answer.gv]
  <2>1. s.captured = now /\ daemon.snap.captured \in Nat
    BY <1>2 DEF Snapshot
  <2>2. Rest \/ (Work("observe", s) /\ ~(now < daemon.snap.captured))
    BY DEF Renew
  <2>. HIDE DEF s
  <2>3. Work("observe", s) => daemon'.snap = s
    BY DEF Work
  <2>. QED
    BY <1>1, <2>1, <2>2, <2>3
<1>5. Follows
  <2>1. CASE Rest
    BY <2>1, StayFollows
  <2>2. CASE daemon'.snap.captured = now /\ daemon.snap.captured <= now
    <3>1. \A i \in Valid : Age(i) \in Nat /\ Age(i) <= daemon.snap.captured
      BY <1>1, <1>2, <1>3, AgeTyped DEF Fits, Valid
    <3>2. \A i \in Valid : Age(i) <= now
      BY <1>1, <1>2, <2>2, <3>1 DEF Snapshot
    <3>. QED
      BY <1>3, <2>2, <3>2 DEF Follows, Fits
  <2>. QED
    BY <1>4, <2>1, <2>2
<1>. QED
  BY <1>1, <1>5, UnchangedAddsNone, QuietAges

\* The other steps keep the age of what the daemon has in hand.
LEMMA SynchronizingAges ==
  ASSUME IInv, IInv', AgeInv,
         Publish \/ RefusedByGateway \/ Ask \/ Apply \/ Observe
  PROVE  Ages
<1>1. UNCHANGED <<pull, hosting>> /\ StoreTypeOK /\ now \in Nat
  BY AtHand DEF Publish, RefusedByGateway, Ask, Apply, Observe, Calm, outside
<1>2. AddsNone
  <2>1. CASE Observe
    BY <1>1, <2>1, ObserveAddsNone DEF Observe
  <2>2. CASE ~Observe
    BY <1>1, <2>2, UnchangedAddsNone DEF Publish, RefusedByGateway, Ask, Apply
  <2>. QED
    BY <2>1, <2>2
<1>3. Follows
  <2>1. CASE Rest
    BY <2>1, StayFollows
  <2>2. CASE ~Rest
    <3>1. daemon.pc \in Step \ {"down", "ready"}
      BY <2>2 DEF Publish, RefusedByGateway, Ask, Apply, Observe, Step
    <3>2. daemon.snap \in Snapshot /\ Fits(daemon.snap.captured)
      BY <3>1, InHandFits
    <3>3. daemon \in [pc : Step, snap : Snapshot \cup {NoSnapshot},
                      answer : Gateway]
      BY AtHand DEF DaemonOK
    <3>4. daemon'.snap.captured = daemon.snap.captured
      <4>1. CASE Apply
        <5>1. daemon'.snap = Applied(daemon.snap, daemon.answer)
          BY <2>2, <4>1 DEF Apply, Work
        <5>. QED
          BY <3>2, <5>1 DEF Applied, Snapshot
      <4>2. CASE ~Apply
        BY <2>2, <3>3, <4>2
           DEF Publish, RefusedByGateway, Ask, Observe, GoTo
      <4>. QED
        BY <4>1, <4>2
    <3>5. pull => daemon'.pc \notin {"confirm", "renew", "observe"}
      <4>1. CASE Publish
        BY <3>3, <4>1 DEF Publish, GoTo, Then
      <4>2. CASE Ask
        BY <3>3, <4>2 DEF Ask
      <4>3. CASE Apply
        BY <2>2, <4>3 DEF Apply, Work
      <4>4. CASE Observe
        BY <2>2, <3>3, <4>4 DEF Observe, GoTo
      <4>. QED
        BY <2>2, <4>1, <4>2, <4>3, <4>4 DEF RefusedByGateway
    <3>. QED
      BY <3>2, <3>4, <3>5 DEF Follows
  <2>. QED
    BY <2>1, <2>2
<1>. QED
  BY <1>1, <1>2, <1>3, QuietAges

-----------------------------------------------------------------------------
(* What is imported, and the whole.                                        *)

LEMMA LostAges == ASSUME IInv, AgeInv, Lost PROVE AgeInv'
<1>1. snapshots' = <<>> /\ daemon' = Down /\ UNCHANGED <<pull, hosting>>
  BY DEF Lost, outside
<1>2. DOMAIN snapshots' = {} /\ Valid' = {}
  BY <1>1 DEF Valid
<1>3. DaemonFits'
  BY <1>1 DEF DaemonFits, Works, Down
<1>. QED
  BY <1>1, <1>2, <1>3 DEF AgeInv, OldBindings, AgesInOrder

LEMMA RestoreAges == ASSUME IInv, AgeInv, Restore PROVE AgeInv'
<1>. DEFINE row == [snap |-> bundle.snap, damaged |-> FALSE]
<1>1. snapshots' = <<row>> /\ accepted' = row.snap.binding
  BY DEF Restore, ReplaceFromDatabase
<1>. HIDE DEF row
<1>2. DOMAIN snapshots' = {1} /\ snapshots'[1] = row
  BY <1>1
<1>3. pull' /\ UNCHANGED <<pull, hosting, daemon>> /\ daemon.pc = "down"
  BY DEF Restore, AgeInv, outside
<1>4. OldBindings'
  BY <1>1, <1>2 DEF OldBindings
<1>5. AgesInOrder' /\ DaemonFits'
  BY <1>2, <1>3 DEF AgesInOrder, DaemonFits, Works, Age
<1>. QED
  BY <1>3, <1>4, <1>5 DEF AgeInv

LEMMA StepAges ==
  IInv /\ IInv' /\ AgeInv /\ [Next]_vars =>
    AgeInv' /\ (NoneRises \/ Rewrites \/ Renewed \/ Imported)
<1> SUFFICES ASSUME IInv, IInv', AgeInv, [Next]_vars
             PROVE  Ages \/ (AgeInv' /\ Imported)
  BY DEF Ages
<1>1. CASE Administration \/ UseCatalog \/ TimePasses
  BY <1>1, OutsideAges
<1>2. CASE Start
  BY <1>2, StartAges
<1>3. CASE Synchronization
  BY <1>3, BindAges, NextSyncAges, SynchronizingAges, RenewAges,
     CommitStepAges
     DEF Synchronization
<1>4. CASE Restore
  BY <1>4, RestoreAges DEF Imported
<1>5. CASE Fault
  BY <1>5, FaultAges, LostAges DEF Imported
<1>6. CASE UNCHANGED vars
  <2>1. UNCHANGED <<pull, hosting, daemon>> /\ UNCHANGED storeVars
    BY <1>6 DEF vars, outside
  <2>. QED
    BY <2>1, AtHand, StayFollows, UnchangedAddsNone, QuietAges
<1>. QED
  BY <1>1, <1>2, <1>3, <1>4, <1>5, <1>6 DEF Next

(***************************************************************************)
(* The order of the stored authorities holds in every state: the Owner's   *)
(* computer has one, which nothing renews; on a controlled node those of   *)
(* the valid snapshots rise, what is shown and what the daemon has in hand *)
(* being the latest, and a snapshot with outdated bindings is never valid  *)
(* again.                                                                  *)
(***************************************************************************)
THEOREM AgesInvariance == Spec => []AgeInv
<1>1. Init => AgeInv
  BY InitAges
<1>2. IInv /\ IInv' /\ AgeInv /\ [Next]_vars => AgeInv'
  BY StepAges
<1>. QED
  BY <1>1, <1>2, Invariance, PTL DEF Spec

(***************************************************************************)
(* Authority that was seen to expire stays expired through every step but  *)
(* the commit of a renewed directory, an import, and a daemon that starts  *)
(* and writes back an authority that has not expired itself                *)
(* (ObserveAuthorizationTime keeps the clock from going back;              *)
(* LoadLatestValidSnapshot only falls back to earlier authority).          *)
(***************************************************************************)
THEOREM ExpiryStands == Spec => ExpiredStaysExpired
<1>. DEFINE Stays == Expired /\ View' # NoSnapshot /\ ~Expired'
                       => Renewed \/ Imported \/ WrittenBack
<1>1. IInv /\ IInv' /\ AgeInv /\ [Next]_vars => [Stays]_vars
  <2> SUFFICES ASSUME IInv, IInv', AgeInv, [Next]_vars, Expired,
                      View' # NoSnapshot, ~Expired', ~Renewed, ~Imported
               PROVE  WrittenBack
    OBVIOUS
  <2>0. TTL \in Nat
    BY DirectoryAssumption
  <2>1. View # NoSnapshot /\ View.captured + TTL <= clock
        /\ ~(View'.captured + TTL <= clock')
    BY DEF Expired
  <2>2. NoneRises \/ Rewrites
    BY StepAges
  <2>3. CASE NoneRises
    BY <2>0, <2>1, <2>3 DEF NoneRises
  <2>4. CASE Rewrites
    <3>1. daemon.snap.captured \in Nat
      BY <2>4, InHandFits DEF Rewrites, Bind, Step, Snapshot
    <3>. QED
      BY <2>0, <2>1, <2>4, <3>1 DEF Rewrites, WrittenBack
  <2>. QED
    BY <2>2, <2>3, <2>4
<1>. QED
  BY <1>1, Invariance, AgesInvariance, PTL DEF Spec, ExpiredStaysExpired

=============================================================================
