-------------------------- MODULE RouteLeaseProofs --------------------------
(***************************************************************************)
(* Proofs about RouteLease, for every value of its constants: any number   *)
(* of concurrent calls, leases, request keys and any bounds.               *)
(***************************************************************************)
EXTENDS RouteLease, FiniteSetTheorems, SequenceTheorems, TLAPS

Issuing == {"recording", "opening", "undoing"}

\* What is known at each step of a call.
CallInv ==
  \A c \in Call :
    /\ call[c].now <= now
    /\ call[c].step # "opening" => call[c].closing = {}
    /\ call[c].step # "idle" => call[c].lease \in drawn
    /\ call[c].step \in Issuing => call[c].lease \notin given
    /\ call[c].step = "recording" => /\ call[c].key \in Key
                                     /\ call[c].lease \notin active
    /\ call[c].step = "releasing" => call[c].lease \in given
    /\ call[c].step = "closing" => call[c].lease \notin active

\* A lease being issued belongs to one call only.
OneIssuer ==
  \A c, d \in Call :
    /\ c # d
    /\ call[c].step \in Issuing
    /\ call[d].step # "idle"
    => call[c].lease # call[d].lease

\* A lease pruned while its own call is still opening it has expired.
OpeningIsActive ==
  \A c \in Call :
    /\ call[c].step = "opening"
    /\ now < expires[call[c].lease]
    => call[c].lease \in active

LeaseInv ==
  /\ active \subseteq drawn /\ given \subseteq drawn /\ proxies \subseteq drawn
  /\ released \subseteq given
  /\ \A l \in proxies : now < expires[l]

\* The lease Manager's inductive invariant.
IInv ==
  /\ TypeOK
  /\ IsFiniteSet(active) /\ ActiveWithinCapacity
  /\ CallInv
  /\ OneIssuer
  /\ OpeningIsActive
  /\ LeaseInv
  /\ NoForgottenProxy
  /\ ReleasedStaysClosed

-----------------------------------------------------------------------------

\* A refusal for capacity has pruned nothing.
LEMMA FullPrunesNothing ==
  ASSUME IsFiniteSet(active), ActiveWithinCapacity, NEW rest \in SUBSET active,
         Full(rest)
  PROVE  rest = active
<1>1. /\ Cardinality(rest) <= Cardinality(active)
      /\ Cardinality(active) = Cardinality(rest) => active = rest
      /\ Cardinality(rest) \in Nat /\ Cardinality(active) \in Nat
  BY FS_Subset, FS_CardinalityType
<1> QED
  BY <1>1, RouteLeaseAssumption DEF ActiveWithinCapacity, Full

\* Recording a lease keeps the active leases within capacity.
LEMMA RoomForOne ==
  ASSUME IsFiniteSet(active), NEW rest \in SUBSET active, ~Full(rest), NEW l
  PROVE  /\ IsFiniteSet(rest \cup {l})
         /\ Cardinality(rest \cup {l}) <= MaxActive
<1>1. IsFiniteSet(rest) /\ Cardinality(rest) \in Nat
  BY FS_Subset, FS_CardinalityType
<1>2. /\ IsFiniteSet(rest \cup {l})
      /\ Cardinality(rest \cup {l})
           = IF l \in rest THEN Cardinality(rest) ELSE Cardinality(rest) + 1
  BY <1>1, FS_AddElement
<1>3. Cardinality(rest \cup {l}) \in Nat
  BY <1>2, FS_CardinalityType
<1> QED
  BY <1>1, <1>2, <1>3, RouteLeaseAssumption DEF Full

\* Fewer active leases are still within capacity.
LEMMA FewerActive ==
  ASSUME IsFiniteSet(active), ActiveWithinCapacity, NEW rest \in SUBSET active
  PROVE  IsFiniteSet(rest) /\ Cardinality(rest) <= MaxActive
<1>1. /\ IsFiniteSet(rest)
      /\ Cardinality(rest) <= Cardinality(active)
      /\ Cardinality(rest) \in Nat /\ Cardinality(active) \in Nat
  BY FS_Subset, FS_CardinalityType
<1> QED
  BY <1>1, RouteLeaseAssumption DEF ActiveWithinCapacity

LEMMA InitIInv == Init => IInv
<1> SUFFICES ASSUME Init PROVE IInv
  OBVIOUS
<1>1. TypeOK
  <2>1. <<>> \in Seq(Key)
    OBVIOUS
  <2>2. Idle \in [step : Step, key : Key \cup {NoKey},
                  lease : Lease \cup {NoLease}, now : Nat,
                  closing : SUBSET Lease]
    BY DEF Idle, Step
  <2> QED
    BY <2>1, <2>2 DEF Init, TypeOK
<1>2. IsFiniteSet(active) /\ ActiveWithinCapacity
  BY FS_EmptySet, RouteLeaseAssumption DEF Init, ActiveWithinCapacity
<1>3. CallInv /\ OneIssuer /\ OpeningIsActive
  BY DEF Init, Idle, CallInv, OneIssuer, OpeningIsActive, Issuing
<1>4. LeaseInv /\ NoForgottenProxy /\ ReleasedStaysClosed
  BY DEF Init, LeaseInv, NoForgottenProxy, ReleasedStaysClosed
<1> QED
  BY <1>1, <1>2, <1>3, <1>4 DEF IInv

-----------------------------------------------------------------------------
(* The steps.                                                              *)

LEMMA BeginIssueKeeps ==
  ASSUME IInv, NEW c \in Call, NEW k \in Key, NEW l \in Lease,
         NEW u \in Nat, BeginIssue(c, k, l, u)
  PROVE  IInv'
<1> USE DEF BeginIssue, Expiry, history
<1> DEFINE me == [step |-> "recording", key |-> k, lease |-> l, now |-> now,
                  closing |-> {}]
<1>1. /\ TypeOK /\ CallInv /\ OneIssuer /\ OpeningIsActive /\ LeaseInv
      /\ call' = [call EXCEPT ![c] = me] /\ call[c] = Idle
  BY DEF IInv
<1>2. /\ call'[c] = me
      /\ \A d \in Call : d # c => call'[d] = call[d]
  BY <1>1 DEF TypeOK
<1>3. TypeOK'
  <2>1. me \in [step : Step, key : Key \cup {NoKey},
                lease : Lease \cup {NoLease}, now : Nat,
                closing : SUBSET Lease]
    BY <1>1 DEF TypeOK, Step
  <2> HIDE DEF me
  <2>2. expires' \in [Lease -> Nat]
    BY <1>1, RouteLeaseAssumption DEF TypeOK
  <2>3. call' \in [Call -> [step : Step, key : Key \cup {NoKey},
                            lease : Lease \cup {NoLease}, now : Nat,
                            closing : SUBSET Lease]]
    BY <1>1, <2>1 DEF TypeOK
  <2> QED
    BY <1>1, <2>2, <2>3 DEF TypeOK
<1>4. IsFiniteSet(active)' /\ ActiveWithinCapacity'
  BY DEF IInv, ActiveWithinCapacity
<1>5. CallInv'
  BY <1>1, <1>2 DEF CallInv, LeaseInv, Issuing, TypeOK
<1>6. OneIssuer'
  BY <1>1, <1>2 DEF OneIssuer, CallInv, Issuing
<1>7. OpeningIsActive'
  BY <1>1, <1>2 DEF OpeningIsActive, CallInv, TypeOK
<1>8. LeaseInv'
  BY <1>1 DEF LeaseInv, TypeOK
<1>9. NoForgottenProxy' /\ ReleasedStaysClosed'
  <2>1. \A x : ~Handles(c, x)
    BY <1>1 DEF Handles, Idle
  <2>2. \A x \in proxies, d \in Call : Handles(d, x) => Handles(d, x)'
    BY <1>2, <2>1 DEF Handles
  <2> QED
    BY <2>2 DEF IInv, NoForgottenProxy, ReleasedStaysClosed
<1> QED
  BY <1>3, <1>4, <1>5, <1>6, <1>7, <1>8, <1>9 DEF IInv

LEMMA RecordLeaseKeeps ==
  ASSUME IInv, NEW c \in Call, RecordLease(c)
  PROVE  IInv'
<1> USE DEF RecordLease, history
<1> DEFINE me == call[c]
<1> DEFINE expired == ExpiredLeases(me.now)
<1> DEFINE rest == active \ expired
<1>1. /\ TypeOK /\ CallInv /\ OneIssuer /\ OpeningIsActive /\ LeaseInv
      /\ IsFiniteSet(active) /\ ActiveWithinCapacity
      /\ NoForgottenProxy /\ ReleasedStaysClosed
      /\ me.step = "recording" /\ me.closing = {}
      /\ me.key \in Key /\ me.lease \in Lease /\ me.lease \in drawn
      /\ me.lease \notin given /\ me.lease \notin active /\ me.now <= now
      /\ UNCHANGED <<expires, proxies, now, drawn, given, released, failed,
                     orphaned>>
  BY DEF IInv, CallInv, LeaseInv, TypeOK, Issuing
<1>2. Idle \in [step : Step, key : Key \cup {NoKey},
                lease : Lease \cup {NoLease}, now : Nat,
                closing : SUBSET Lease]
  BY DEF Idle, Step
<1>3. CASE /\ active' = active
           /\ call' = [call EXCEPT ![c] = Idle]
           /\ UNCHANGED <<replayList, recorded>>
  <2>1. /\ call'[c] = Idle
        /\ \A d \in Call : d # c => call'[d] = call[d]
    BY <1>1, <1>3 DEF TypeOK
  <2>2. TypeOK'
    BY <1>1, <1>2, <1>3 DEF TypeOK
  <2>3. IsFiniteSet(active)' /\ ActiveWithinCapacity'
    BY <1>1, <1>3 DEF ActiveWithinCapacity
  <2>4. CallInv' /\ OneIssuer' /\ OpeningIsActive'
    BY <1>1, <1>3, <2>1
       DEF CallInv, OneIssuer, OpeningIsActive, Idle, Issuing, TypeOK
  <2>5. LeaseInv' /\ ReleasedStaysClosed'
    BY <1>1, <1>3 DEF LeaseInv, ReleasedStaysClosed
  <2>6. NoForgottenProxy'
    <3>1. \A x : ~Handles(c, x)
      BY <1>1 DEF Handles
    <3>2. \A x \in proxies, d \in Call : Handles(d, x) => Handles(d, x)'
      BY <2>1, <3>1 DEF Handles
    <3> QED
      BY <1>1, <1>3, <3>2 DEF NoForgottenProxy
  <2> QED
    BY <2>2, <2>3, <2>4, <2>5, <2>6 DEF IInv
<1>4. CASE /\ ~Full(rest)
           /\ active' = rest \cup {me.lease}
           /\ RecordReplay(me.key)
           /\ recorded' = Append(recorded, me.key)
           /\ call' = [call EXCEPT ![c].step = "opening",
                                   ![c].closing = expired]
  <2>1. /\ call'[c] = [me EXCEPT !.step = "opening", !.closing = expired]
        /\ \A d \in Call : d # c => call'[d] = call[d]
        /\ expired \subseteq active /\ expired \subseteq Lease
        /\ \A l \in expired : me.now >= expires[l]
    BY <1>1, <1>4 DEF TypeOK, ExpiredLeases
  <2>2. /\ call'[c].step = "opening" /\ call'[c].closing = expired
        /\ call'[c].lease = me.lease /\ call'[c].now = me.now
    BY <1>1, <2>1 DEF TypeOK
  <2>3. TypeOK'
    <3>1. call'[c] \in [step : Step, key : Key \cup {NoKey},
                        lease : Lease \cup {NoLease}, now : Nat,
                        closing : SUBSET Lease]
      BY <1>1, <2>1 DEF TypeOK, Step
    <3>2. call' \in [Call -> [step : Step, key : Key \cup {NoKey},
                              lease : Lease \cup {NoLease}, now : Nat,
                              closing : SUBSET Lease]]
      BY <1>1, <1>4, <2>1, <3>1 DEF TypeOK
    <3>3. replayList' \in Seq(Key) /\ recorded' \in Seq(Key)
      <4>1. CASE Len(replayList) >= MaxReplayIDs
        <5>1. replayList # <<>>
          BY <1>1, <4>1, RouteLeaseAssumption, EmptySeq DEF TypeOK
        <5>2. Tail(replayList) \in Seq(Key)
          BY <1>1, <5>1, HeadTailProperties DEF TypeOK
        <5> QED
          BY <1>1, <1>4, <4>1, <5>2 DEF TypeOK, RecordReplay
      <4>2. CASE ~(Len(replayList) >= MaxReplayIDs)
        BY <1>1, <1>4, <4>2 DEF TypeOK, RecordReplay
      <4> QED
        BY <4>1, <4>2
    <3>4. active' \subseteq Lease
      BY <1>1, <1>4 DEF TypeOK
    <3> QED
      BY <1>1, <3>2, <3>3, <3>4 DEF TypeOK
  <2>4. IsFiniteSet(active)' /\ ActiveWithinCapacity'
    BY <1>1, <1>4, RoomForOne DEF ActiveWithinCapacity
  <2> HIDE DEF me, expired, rest
  <2>5. \A d \in Call : d # c /\ call[d].step # "idle"
                          => call[d].lease # me.lease
    BY <1>1 DEF OneIssuer, Issuing, me
  <2>6. CallInv'
    <3>1. active' \subseteq active \cup {me.lease}
      BY <1>4 DEF rest
    <3>2. ASSUME NEW d \in Call, d # c
          PROVE  /\ call[d].step = "recording" => call[d].lease \notin active'
                 /\ call[d].step = "closing" => call[d].lease \notin active'
      BY <1>1, <2>5, <3>1, <3>2 DEF CallInv
    <3>3. call'[c].now <= now'
      BY <1>1, <2>2
    <3>4. /\ call'[c].lease \in drawn'
          /\ call'[c].lease \notin given'
      BY <1>1, <2>2
    <3>5. ASSUME NEW d \in Call, d # c
          PROVE  /\ call'[d] = call[d]
                 /\ call[d].now <= now'
                 /\ call[d].step # "opening" => call[d].closing = {}
                 /\ call[d].step # "idle" => call[d].lease \in drawn'
                 /\ call[d].step \in Issuing => call[d].lease \notin given'
                 /\ call[d].step = "recording" => call[d].key \in Key
                 /\ call[d].step = "releasing" => call[d].lease \in given'
      BY <1>1, <2>1, <3>5 DEF CallInv
    <3> QED
      BY <2>2, <3>2, <3>3, <3>4, <3>5 DEF CallInv, Issuing
  <2>7. OneIssuer'
    <3>1. ASSUME NEW d \in Call, d # c, call[d].step # "idle"
          PROVE  call'[d].lease # call'[c].lease
      BY <2>1, <2>2, <2>5, <3>1
    <3>2. ASSUME NEW d \in Call, NEW e \in Call, d # e, d # c, e # c,
                 call'[d].step \in Issuing, call'[e].step # "idle"
          PROVE  call'[d].lease # call'[e].lease
      BY <1>1, <2>1, <3>2 DEF OneIssuer
    <3>3. \A d \in Call : d # c => call'[d].step = call[d].step
      BY <2>1
    <3>4. \A d \in Call : call[d].step \in Issuing => call[d].step # "idle"
      BY DEF Issuing
    <3> QED
      BY <3>1, <3>2, <3>3, <3>4 DEF OneIssuer
  <2>8. OpeningIsActive'
    <3>1. ASSUME NEW d \in Call, d # c, call[d].step = "opening",
                 now < expires[call[d].lease]
          PROVE  call[d].lease \in active'
      <4>1. call[d].lease \in active
        BY <1>1, <3>1 DEF OpeningIsActive
      <4>2. call[d].lease \notin expired
        <5>1. /\ call[d].lease \in Lease
              /\ expires[call[d].lease] \in Nat /\ now \in Nat
              /\ me.now \in Nat
          BY <1>1, <4>1 DEF TypeOK, me
        <5> QED
          BY <1>1, <2>1, <3>1, <5>1
      <4> QED
        BY <1>4, <4>1, <4>2 DEF rest
    <3> QED
      BY <1>1, <1>4, <2>1, <2>2, <3>1 DEF OpeningIsActive
  <2>9. LeaseInv' /\ ReleasedStaysClosed'
    BY <1>1, <1>4 DEF LeaseInv, ReleasedStaysClosed, rest
  <2>10. NoForgottenProxy'
    <3>1. \A x : ~Handles(c, x)
      BY <1>1 DEF Handles, me
    <3>2. \A x \in proxies, d \in Call : Handles(d, x) => Handles(d, x)'
      BY <2>1, <3>1 DEF Handles
    <3>3. \A x \in active : x \in active' \/ Handles(c, x)'
      BY <1>4, <2>2 DEF Handles, rest
    <3> QED
      BY <1>1, <3>2, <3>3 DEF NoForgottenProxy
  <2> QED
    BY <2>3, <2>4, <2>6, <2>7, <2>8, <2>9, <2>10 DEF IInv
<1>5. ASSUME Full(rest) PROVE rest = active
  BY <1>1, <1>5, FullPrunesNothing
<1> QED
  BY <1>3, <1>4, <1>5

\* Closing a pruned lease takes only it out of the caller's hands.
LEMMA CloseExpiredKeeps ==
  ASSUME IInv, NEW c \in Call, NEW ok \in BOOLEAN, CloseExpired(c, ok)
  PROVE  IInv'
<1> USE DEF CloseExpired, history
<1>1. /\ TypeOK /\ CallInv /\ OneIssuer /\ OpeningIsActive /\ LeaseInv
      /\ IsFiniteSet(active) /\ ActiveWithinCapacity
      /\ NoForgottenProxy /\ ReleasedStaysClosed
      /\ call[c].step = "opening"
      /\ UNCHANGED <<active, expires, replayList, now, drawn, given, recorded,
                     released, orphaned>>
  BY DEF IInv
<1>2. PICK l \in call[c].closing :
        /\ Close(l, ok)
        /\ call' = [call EXCEPT ![c].closing = @ \ {l}]
  OBVIOUS
<1>3. /\ call'[c] = [call[c] EXCEPT !.closing = @ \ {l}]
      /\ \A d \in Call : d # c => call'[d] = call[d]
      /\ l \in Lease
      /\ proxies' \subseteq proxies
      /\ l \notin proxies' \/ l \in failed'
      /\ proxies \ {l} \subseteq proxies'
      /\ failed \subseteq failed' /\ failed' \subseteq Lease
  BY <1>1, <1>2 DEF TypeOK, Close
<1>4. /\ call'[c].step = "opening" /\ call'[c].lease = call[c].lease
      /\ call'[c].closing = call[c].closing \ {l}
      /\ call'[c].now = call[c].now
  BY <1>1, <1>3 DEF TypeOK
<1>5. TypeOK'
  <2>1. call'[c] \in [step : Step, key : Key \cup {NoKey},
                      lease : Lease \cup {NoLease}, now : Nat,
                      closing : SUBSET Lease]
    <3>1. call[c] \in [step : Step, key : Key \cup {NoKey},
                       lease : Lease \cup {NoLease}, now : Nat,
                       closing : SUBSET Lease]
      BY <1>1 DEF TypeOK
    <3>2. call'[c] = [call[c] EXCEPT !.closing = @ \ {l}]
      BY <1>3
    <3> QED
      BY <3>1, <3>2
  <2>2. call' \in [Call -> [step : Step, key : Key \cup {NoKey},
                            lease : Lease \cup {NoLease}, now : Nat,
                            closing : SUBSET Lease]]
    BY <1>1, <1>2, <1>3, <2>1 DEF TypeOK
  <2> QED
    BY <1>1, <1>3, <2>2 DEF TypeOK
<1>6. IsFiniteSet(active)' /\ ActiveWithinCapacity'
  BY <1>1 DEF ActiveWithinCapacity
<1>7. CallInv'
  BY <1>1, <1>3, <1>4 DEF CallInv, Issuing
<1>8. OneIssuer' /\ OpeningIsActive'
  BY <1>1, <1>3, <1>4 DEF OneIssuer, OpeningIsActive, Issuing
<1>9. LeaseInv' /\ ReleasedStaysClosed'
  BY <1>1, <1>3 DEF LeaseInv, ReleasedStaysClosed
<1>10. NoForgottenProxy'
  <2>1. \A x, d : d \in Call /\ x # l /\ Handles(d, x) => Handles(d, x)'
    BY <1>3, <1>4 DEF Handles
  <2> QED
    BY <1>1, <1>3, <2>1 DEF NoForgottenProxy
<1> QED
  BY <1>5, <1>6, <1>7, <1>8, <1>9, <1>10 DEF IInv

\* A call that becomes idle drops nothing that another call handles.
LEMMA OthersHandle ==
  ASSUME NEW c \in Call, \A d \in Call : d # c => call'[d] = call[d],
         NEW d \in Call, d # c, NEW x, Handles(d, x)
  PROVE  Handles(d, x)'
BY DEF Handles

LEMMA OpenProxyKeeps ==
  ASSUME IInv, NEW c \in Call, NEW ok \in BOOLEAN, OpenProxy(c, ok)
  PROVE  IInv'
<1> USE DEF OpenProxy, history
<1> DEFINE me == call[c]
<1> DEFINE l == me.lease
<1>1. /\ TypeOK /\ CallInv /\ OneIssuer /\ OpeningIsActive /\ LeaseInv
      /\ IsFiniteSet(active) /\ ActiveWithinCapacity
      /\ NoForgottenProxy /\ ReleasedStaysClosed
      /\ me.step = "opening" /\ me.closing = {} /\ me.now <= now
      /\ l \in drawn /\ l \notin given /\ l \in Lease
      /\ now < expires[l] => l \in active
      /\ UNCHANGED <<active, expires, replayList, now, drawn, recorded,
                     released, failed, orphaned>>
  BY DEF IInv, CallInv, OpeningIsActive, TypeOK, Issuing
<1>2. /\ proxies \subseteq proxies' /\ proxies' \subseteq proxies \cup {l}
      /\ l \in proxies' => l \in proxies \/ now < expires[l]
      /\ given \subseteq given' /\ given' \subseteq given \cup {l}
  OBVIOUS
<1>3. \/ /\ call' = [call EXCEPT ![c] = Idle]
         /\ call'[c] = Idle
      \/ /\ call' = [call EXCEPT ![c].step = "undoing"]
         /\ call'[c] = [me EXCEPT !.step = "undoing"]
         /\ given' = given
  BY <1>1 DEF TypeOK
<1>4. \A d \in Call : d # c => call'[d] = call[d]
  BY <1>1 DEF TypeOK
<1>5. \/ call'[c] = Idle
      \/ /\ call'[c].step = "undoing" /\ call'[c].lease = l
         /\ call'[c].closing = {} /\ call'[c].now <= now
         /\ given' = given
  <2>1. me \in [step : Step, key : Key \cup {NoKey},
                lease : Lease \cup {NoLease}, now : Nat,
                closing : SUBSET Lease]
    BY <1>1 DEF TypeOK
  <2> QED
    BY <1>1, <1>3, <2>1
<1>6. TypeOK'
  <2>1. call'[c] \in [step : Step, key : Key \cup {NoKey},
                      lease : Lease \cup {NoLease}, now : Nat,
                      closing : SUBSET Lease]
    <3>1. /\ me \in [step : Step, key : Key \cup {NoKey},
                    lease : Lease \cup {NoLease}, now : Nat,
                    closing : SUBSET Lease]
          /\ "undoing" \in Step
      BY <1>1 DEF TypeOK, Step
    <3>2. Idle \in [step : Step, key : Key \cup {NoKey},
                    lease : Lease \cup {NoLease}, now : Nat,
                    closing : SUBSET Lease]
      BY DEF Idle, Step
    <3> QED
      BY <1>3, <3>1, <3>2
  <2>2. call' \in [Call -> [step : Step, key : Key \cup {NoKey},
                            lease : Lease \cup {NoLease}, now : Nat,
                            closing : SUBSET Lease]]
    BY <1>1, <1>3, <1>4, <2>1 DEF TypeOK
  <2> QED
    BY <1>1, <1>2, <2>2 DEF TypeOK
<1> HIDE DEF OpenProxy
<1>7. IsFiniteSet(active)' /\ ActiveWithinCapacity'
  BY <1>1 DEF ActiveWithinCapacity
<1>8. \A d \in Call : d # c /\ call[d].step # "idle" => call[d].lease # l
  BY <1>1 DEF OneIssuer, Issuing
<1> HIDE DEF l, me
<1>9. CallInv'
  <2>1. ASSUME NEW d \in Call, d # c
        PROVE  /\ call'[d] = call[d]
               /\ call[d].now <= now'
               /\ call[d].step # "opening" => call[d].closing = {}
               /\ call[d].step # "idle" => call[d].lease \in drawn'
               /\ call[d].step \in Issuing => call[d].lease \notin given'
               /\ call[d].step = "recording" => /\ call[d].key \in Key
                                                /\ call[d].lease \notin active'
               /\ call[d].step = "releasing" => call[d].lease \in given'
               /\ call[d].step = "closing" => call[d].lease \notin active'
    <3>1. call[d].step \in Issuing => call[d].step # "idle"
      BY DEF Issuing
    <3> QED
      BY <1>1, <1>2, <1>4, <1>8, <2>1, <3>1 DEF CallInv
  <2>2. /\ call'[c].now <= now'
        /\ call'[c].closing = {}
        /\ call'[c].step \notin {"recording", "releasing", "closing"}
        /\ call'[c].step # "idle" => /\ call'[c].lease \in drawn'
                                     /\ call'[c].lease \notin given'
    BY <1>1, <1>5 DEF Idle, TypeOK
  <2>3. call'[c].step \in Issuing => call'[c].step # "idle"
    BY DEF Issuing
  <2> QED
    BY <2>1, <2>2, <2>3 DEF CallInv
<1>10. OneIssuer'
  BY <1>1, <1>4, <1>5, <1>8 DEF OneIssuer, Issuing, Idle
<1>11. OpeningIsActive'
  BY <1>1, <1>4, <1>5 DEF OpeningIsActive, Idle
<1>12. LeaseInv' /\ ReleasedStaysClosed'
  BY <1>1, <1>2 DEF LeaseInv, ReleasedStaysClosed
<1>13. NoForgottenProxy'
  <2>1. \A x : Handles(c, x) => x = l
    BY <1>1 DEF Handles, me, l
  <2>2. l \in proxies' => l \in active
    BY <1>1, <1>2 DEF LeaseInv
  <2>3. ASSUME NEW x \in proxies', x # l
        PROVE  x \in active' \cup failed' \cup orphaned'
                 \/ \E d \in Call : Handles(d, x)'
    <3>1. x \in proxies
      BY <1>2, <2>3
    <3>2. x \in active \cup failed \cup orphaned
            \/ \E d \in Call : d # c /\ Handles(d, x)
      BY <1>1, <2>1, <2>3, <3>1 DEF NoForgottenProxy
    <3> QED
      BY <1>1, <1>4, <3>2, OthersHandle
  <2> QED
    BY <1>1, <2>2, <2>3 DEF NoForgottenProxy
<1> QED
  BY <1>6, <1>7, <1>9, <1>10, <1>11, <1>12, <1>13 DEF IInv

\* A lease taken off the active leases goes into the hands of the call that
\* deletes it: the common part of a failed Issue and of a Release.
LEMMA TakeOffKeeps ==
  ASSUME IInv, NEW c \in Call, call[c].step \in {"undoing", "releasing"},
         active' = active \ {call[c].lease},
         call' = [call EXCEPT ![c].step = "closing"],
         UNCHANGED <<expires, replayList, proxies, now, drawn, given,
                     recorded, released, failed, orphaned>>
  PROVE  IInv'
<1> DEFINE l == call[c].lease
<1>1. /\ TypeOK /\ CallInv /\ OneIssuer /\ OpeningIsActive /\ LeaseInv
      /\ IsFiniteSet(active) /\ ActiveWithinCapacity
      /\ NoForgottenProxy /\ ReleasedStaysClosed
      /\ call[c].closing = {} /\ call[c].now <= now /\ l \in drawn
      /\ active' \subseteq active
  BY DEF IInv, CallInv
<1>2. /\ call'[c] = [call[c] EXCEPT !.step = "closing"]
      /\ \A d \in Call : d # c => call'[d] = call[d]
  BY <1>1 DEF TypeOK
<1>3. /\ call'[c].step = "closing" /\ call'[c].lease = l
      /\ call'[c].closing = {} /\ call'[c].now = call[c].now
  BY <1>1, <1>2 DEF TypeOK
<1>4. \A d \in Call : d # c /\ call[d].step \in Issuing => call[d].lease # l
  <2>1. CASE call[c].step = "undoing"
    BY <1>1, <2>1 DEF OneIssuer
  <2>2. CASE call[c].step = "releasing"
    BY <1>1, <2>2 DEF CallInv
  <2> QED
    BY <2>1, <2>2
<1>5. TypeOK'
  <2>1. call'[c] \in [step : Step, key : Key \cup {NoKey},
                      lease : Lease \cup {NoLease}, now : Nat,
                      closing : SUBSET Lease]
    <3>1. /\ call[c] \in [step : Step, key : Key \cup {NoKey},
                         lease : Lease \cup {NoLease}, now : Nat,
                         closing : SUBSET Lease]
          /\ "closing" \in Step
      BY <1>1 DEF TypeOK, Step
    <3> QED
      BY <1>2, <3>1
  <2>2. call' \in [Call -> [step : Step, key : Key \cup {NoKey},
                            lease : Lease \cup {NoLease}, now : Nat,
                            closing : SUBSET Lease]]
    BY <1>1, <1>2, <2>1 DEF TypeOK
  <2> QED
    BY <1>1, <2>2 DEF TypeOK
<1>6. IsFiniteSet(active)' /\ ActiveWithinCapacity'
  BY <1>1, FewerActive DEF ActiveWithinCapacity
<1>7. CallInv'
  BY <1>1, <1>2, <1>3 DEF CallInv, Issuing
<1>8. OneIssuer'
  <2>1. call[c].step # "idle"
    OBVIOUS
  <2> QED
    BY <1>1, <1>2, <1>3, <1>4, <2>1 DEF OneIssuer, Issuing
<1>9. OpeningIsActive'
  BY <1>1, <1>2, <1>3, <1>4 DEF OpeningIsActive, Issuing
<1>10. LeaseInv' /\ ReleasedStaysClosed'
  BY <1>1 DEF LeaseInv, ReleasedStaysClosed
<1>11. NoForgottenProxy'
  <2>1. Handles(c, l)'
    BY <1>3 DEF Handles
  <2>2. \A x : Handles(c, x) => x = l
    BY <1>1 DEF Handles
  <2>3. ASSUME NEW x \in proxies', x # l
        PROVE  x \in active' \cup failed' \cup orphaned'
                 \/ \E d \in Call : Handles(d, x)'
    <3>1. x \in active \cup failed \cup orphaned
            \/ \E d \in Call : d # c /\ Handles(d, x)
      BY <1>1, <2>2, <2>3 DEF NoForgottenProxy
    <3> QED
      BY <1>1, <1>2, <2>3, <3>1, OthersHandle
  <2> QED
    BY <2>1, <2>3 DEF NoForgottenProxy
<1> QED
  BY <1>5, <1>6, <1>7, <1>8, <1>9, <1>10, <1>11 DEF IInv

LEMMA UndoLeaseKeeps ==
  ASSUME IInv, NEW c \in Call, UndoLease(c)
  PROVE  IInv'
BY TakeOffKeeps DEF UndoLease, history

\* A refused Release changes nothing but its own call.
LEMMA NotFoundKeeps ==
  ASSUME IInv, NEW c \in Call, NEW l \in Lease, NotFound(l),
         \/ UNCHANGED call
         \/ /\ call[c].step = "releasing"
            /\ call' = [call EXCEPT ![c] = Idle],
         UNCHANGED <<expires, replayList, proxies, now, drawn, given,
                     recorded, released, failed, orphaned>>
  PROVE  IInv'
<1>1. /\ TypeOK /\ CallInv /\ OneIssuer /\ OpeningIsActive /\ LeaseInv
      /\ IsFiniteSet(active) /\ ActiveWithinCapacity
      /\ NoForgottenProxy /\ ReleasedStaysClosed
      /\ UNCHANGED active
      /\ call[c].step = "releasing" => call[c].closing = {}
  BY DEF IInv, NotFound, CallInv
<1>2. \A d \in Call : \/ call'[d] = call[d]
                      \/ /\ d = c /\ call[c].step = "releasing"
                         /\ call'[d] = Idle
  BY <1>1 DEF TypeOK
<1>3. TypeOK'
  <2>1. Idle \in [step : Step, key : Key \cup {NoKey},
                  lease : Lease \cup {NoLease}, now : Nat,
                  closing : SUBSET Lease]
    BY DEF Idle, Step
  <2>3. call' \in [Call -> [step : Step, key : Key \cup {NoKey},
                            lease : Lease \cup {NoLease}, now : Nat,
                            closing : SUBSET Lease]]
    BY <1>1, <2>1 DEF TypeOK
  <2> QED
    BY <1>1, <2>3 DEF TypeOK
<1>4. IsFiniteSet(active)' /\ ActiveWithinCapacity'
  BY <1>1 DEF ActiveWithinCapacity
<1>5. CallInv'
  BY <1>1, <1>2 DEF CallInv, Idle, Issuing, TypeOK
<1>6. OneIssuer' /\ OpeningIsActive'
  BY <1>1, <1>2 DEF OneIssuer, OpeningIsActive, Idle, Issuing
<1>7. LeaseInv' /\ ReleasedStaysClosed'
  BY <1>1 DEF LeaseInv, ReleasedStaysClosed
<1>8. NoForgottenProxy'
  <2>1. \A d \in Call : \A x : Handles(d, x) => Handles(d, x)'
    BY <1>1, <1>2 DEF Handles
  <2> QED
    BY <1>1, <2>1 DEF NoForgottenProxy
<1> QED
  BY <1>3, <1>4, <1>5, <1>6, <1>7, <1>8 DEF IInv

LEMMA BeginReleaseKeeps ==
  ASSUME IInv, NEW c \in Call, NEW l \in Lease, BeginRelease(c, l)
  PROVE  IInv'
<1> USE DEF BeginRelease, history
<1>1. CASE l \notin active
  BY <1>1, NotFoundKeeps
<1>2. CASE l \in active
  <2> DEFINE me == [step |-> "releasing", key |-> NoKey, lease |-> l,
                    now |-> 0, closing |-> {}]
  <2>1. /\ TypeOK /\ CallInv /\ OneIssuer /\ OpeningIsActive /\ LeaseInv
        /\ IsFiniteSet(active) /\ ActiveWithinCapacity
        /\ NoForgottenProxy /\ ReleasedStaysClosed
        /\ l \in given /\ l \in drawn /\ call[c] = Idle
        /\ call' = [call EXCEPT ![c] = me]
        /\ UNCHANGED <<active, expires, replayList, proxies, now, drawn,
                       given, recorded, released, failed, orphaned>>
    BY <1>2 DEF IInv, LeaseInv, NotFound
  <2>2. me = [step |-> "releasing", key |-> NoKey, lease |-> l, now |-> 0,
              closing |-> {}]
    OBVIOUS
  <2> HIDE DEF me
  <2>3. /\ call'[c] = me
        /\ \A d \in Call : d # c => call'[d] = call[d]
    BY <2>1 DEF TypeOK
  <2>4. TypeOK'
    <3>1. me \in [step : Step, key : Key \cup {NoKey},
                  lease : Lease \cup {NoLease}, now : Nat,
                  closing : SUBSET Lease]
      BY <2>2 DEF Step
    <3> QED
      BY <2>1, <3>1 DEF TypeOK
  <2>5. IsFiniteSet(active)' /\ ActiveWithinCapacity'
    BY <2>1 DEF ActiveWithinCapacity
  <2>6. CallInv'
    BY <2>1, <2>2, <2>3 DEF CallInv, Issuing, TypeOK
  <2>7. OneIssuer' /\ OpeningIsActive'
    BY <2>1, <2>2, <2>3 DEF OneIssuer, OpeningIsActive, CallInv, Issuing
  <2>8. LeaseInv' /\ ReleasedStaysClosed'
    BY <2>1 DEF LeaseInv, ReleasedStaysClosed
  <2>9. NoForgottenProxy'
    <3>1. \A x : ~Handles(c, x)
      BY <2>1 DEF Handles, Idle
    <3>2. \A d \in Call : \A x : Handles(d, x) => Handles(d, x)'
      BY <2>3, <3>1, OthersHandle
    <3> QED
      BY <2>1, <3>2 DEF NoForgottenProxy
  <2> QED
    BY <2>4, <2>5, <2>6, <2>7, <2>8, <2>9 DEF IInv
<1> QED
  BY <1>1, <1>2

LEMMA DeleteLeaseKeeps ==
  ASSUME IInv, NEW c \in Call, DeleteLease(c)
  PROVE  IInv'
<1> USE DEF DeleteLease
<1>1. call[c].lease \in Lease
  BY DEF IInv, TypeOK, CallInv, LeaseInv
<1>2. CASE call[c].lease \notin active
  BY <1>1, <1>2, NotFoundKeeps
<1>3. CASE call[c].lease \in active
  BY <1>3, TakeOffKeeps DEF NotFound
<1> QED
  BY <1>2, <1>3

LEMMA CloseLeaseKeeps ==
  ASSUME IInv, NEW c \in Call, NEW ok \in BOOLEAN, CloseLease(c, ok)
  PROVE  IInv'
<1> USE DEF CloseLease, Close, AnswerRelease
<1> DEFINE l == call[c].lease
<1>1. /\ TypeOK /\ CallInv /\ OneIssuer /\ OpeningIsActive /\ LeaseInv
      /\ IsFiniteSet(active) /\ ActiveWithinCapacity
      /\ NoForgottenProxy /\ ReleasedStaysClosed
      /\ call[c].step = "closing" /\ call[c].closing = {}
      /\ l \notin active /\ l \in Lease
      /\ call' = [call EXCEPT ![c] = Idle]
      /\ UNCHANGED <<active, expires, replayList, now, drawn, given, recorded,
                     orphaned>>
  BY DEF IInv, CallInv, LeaseInv, TypeOK
<1>2. /\ proxies' \subseteq proxies /\ proxies \ {l} \subseteq proxies'
      /\ l \notin proxies' \/ l \in failed'
      /\ failed \subseteq failed' /\ failed' \subseteq failed \cup {l}
      /\ released' \subseteq released \cup {l}
      /\ l \in released' => \/ l \in released
                            \/ /\ l \in given
                               /\ l \notin proxies'
  <2>1. CASE ok = TRUE
    BY <2>1
  <2>2. CASE ok = FALSE
    <3>1. proxies' = proxies /\ failed' = failed \cup {l}
          /\ released' = released
      BY <2>2
    <3> QED
      BY <3>1
  <2> QED
    BY <2>1, <2>2
<1>3. /\ call'[c] = Idle
      /\ \A d \in Call : d # c => call'[d] = call[d]
  BY <1>1 DEF TypeOK
<1> HIDE DEF CloseLease, Close, AnswerRelease
<1>4. TypeOK'
  <2>1. Idle \in [step : Step, key : Key \cup {NoKey},
                  lease : Lease \cup {NoLease}, now : Nat,
                  closing : SUBSET Lease]
    BY DEF Idle, Step
  <2>2. call' \in [Call -> [step : Step, key : Key \cup {NoKey},
                            lease : Lease \cup {NoLease}, now : Nat,
                            closing : SUBSET Lease]]
    BY <1>1, <2>1 DEF TypeOK
  <2> QED
    BY <1>1, <1>2, <2>2 DEF TypeOK
<1>5. IsFiniteSet(active)' /\ ActiveWithinCapacity'
  BY <1>1 DEF ActiveWithinCapacity
<1>6. CallInv'
  BY <1>1, <1>3 DEF CallInv, Idle, Issuing, TypeOK
<1>7. OneIssuer' /\ OpeningIsActive'
  BY <1>1, <1>3 DEF OneIssuer, OpeningIsActive, Idle, Issuing
<1>8. LeaseInv' /\ ReleasedStaysClosed'
  BY <1>1, <1>2 DEF LeaseInv, ReleasedStaysClosed
<1>9. NoForgottenProxy'
  <2>1. \A x : Handles(c, x) => x = l
    BY <1>1 DEF Handles
  <2>2. ASSUME NEW x \in proxies', x # l
        PROVE  x \in active' \cup failed' \cup orphaned'
                 \/ \E d \in Call : Handles(d, x)'
    <3>1. x \in active \cup failed \cup orphaned
            \/ \E d \in Call : d # c /\ Handles(d, x)
      BY <1>1, <1>2, <2>1, <2>2 DEF NoForgottenProxy
    <3> QED
      BY <1>1, <1>2, <1>3, <3>1, OthersHandle
  <2> QED
    BY <1>2, <2>2 DEF NoForgottenProxy
<1> QED
  BY <1>4, <1>5, <1>6, <1>7, <1>8, <1>9 DEF IInv

LEMMA CrashKeeps ==
  ASSUME IInv, Crash
  PROVE  IInv'
<1> USE DEF Crash
<1>1. /\ TypeOK /\ LeaseInv /\ ReleasedStaysClosed
      /\ call' = [c \in Call |-> Idle] /\ active' = {}
      /\ orphaned' = orphaned \cup proxies
      /\ UNCHANGED <<expires, proxies, now, drawn, given, released, failed>>
  BY DEF IInv
<1>2. TypeOK'
  <2>1. <<>> \in Seq(Key)
    OBVIOUS
  <2>2. Idle \in [step : Step, key : Key \cup {NoKey},
                  lease : Lease \cup {NoLease}, now : Nat,
                  closing : SUBSET Lease]
    BY DEF Idle, Step
  <2> QED
    BY <1>1, <2>1, <2>2 DEF TypeOK
<1>3. IsFiniteSet(active)' /\ ActiveWithinCapacity'
  BY <1>1, FS_EmptySet, RouteLeaseAssumption DEF ActiveWithinCapacity
<1>4. CallInv' /\ OneIssuer' /\ OpeningIsActive'
  BY <1>1 DEF Idle, CallInv, OneIssuer, OpeningIsActive, Issuing, TypeOK
<1>5. LeaseInv' /\ NoForgottenProxy' /\ ReleasedStaysClosed'
  BY <1>1 DEF LeaseInv, NoForgottenProxy, ReleasedStaysClosed
<1> QED
  BY <1>2, <1>3, <1>4, <1>5 DEF IInv

LEMMA TickKeeps ==
  ASSUME IInv, Tick
  PROVE  IInv'
<1> USE DEF Tick, history
<1>1. /\ TypeOK /\ CallInv /\ OneIssuer /\ OpeningIsActive /\ LeaseInv
      /\ IsFiniteSet(active) /\ ActiveWithinCapacity
      /\ NoForgottenProxy /\ ReleasedStaysClosed
      /\ now \in Nat /\ now' = now + 1
      /\ proxies' = {l \in proxies : now + 1 < expires[l]}
      /\ UNCHANGED <<active, expires, replayList, call, drawn, given,
                     recorded, released, failed, orphaned>>
  BY DEF IInv, TypeOK
<1> HIDE DEF Tick, history
<1>2. TypeOK'
  BY <1>1 DEF TypeOK
<1>3. IsFiniteSet(active)' /\ ActiveWithinCapacity'
  BY <1>1 DEF ActiveWithinCapacity
<1>4. CallInv'
  <2>1. \A c \in Call : call[c].now \in Nat /\ call'[c].now <= now'
    BY <1>1 DEF CallInv, TypeOK
  <2> QED
    BY <1>1, <2>1 DEF CallInv
<1>5. OneIssuer'
  BY <1>1 DEF OneIssuer
<1>6. OpeningIsActive'
  <2>1. ASSUME NEW c \in Call, call[c].step = "opening",
               now + 1 < expires[call[c].lease]
        PROVE  now < expires[call[c].lease]
    <3>1. call[c].lease \in Lease
      BY <1>1, <2>1 DEF CallInv, TypeOK
    <3>2. expires[call[c].lease] \in Nat
      BY <1>1, <3>1 DEF TypeOK
    <3> QED
      BY <1>1, <2>1, <3>2
  <2> QED
    BY <1>1, <2>1 DEF OpeningIsActive
<1>7. LeaseInv' /\ ReleasedStaysClosed'
  BY <1>1 DEF LeaseInv, ReleasedStaysClosed
<1>8. NoForgottenProxy'
  BY <1>1 DEF NoForgottenProxy, Handles
<1> QED
  BY <1>2, <1>3, <1>4, <1>5, <1>6, <1>7, <1>8 DEF IInv

LEMMA StutterKeeps ==
  ASSUME IInv, UNCHANGED vars
  PROVE  IInv'
BY DEF IInv, vars, history, TypeOK, ActiveWithinCapacity, CallInv, OneIssuer,
       OpeningIsActive, LeaseInv, NoForgottenProxy, Handles,
       ReleasedStaysClosed

LEMMA NextKeeps ==
  ASSUME IInv, [Next]_vars
  PROVE  IInv'
<1>1. ASSUME NEW c \in Call, NEW k \in Key, NEW l \in Lease,
             NEW u \in 1..(MaxTime + TTL), BeginIssue(c, k, l, u)
      PROVE  IInv'
  <2>1. u \in Nat
    BY RouteLeaseAssumption
  <2> QED
    BY <1>1, <2>1, BeginIssueKeeps
<1>2. ASSUME NEW c \in Call,
             RecordLease(c) \/ UndoLease(c) \/ DeleteLease(c)
      PROVE  IInv'
  BY <1>2, RecordLeaseKeeps, UndoLeaseKeeps, DeleteLeaseKeeps
<1>3. ASSUME NEW c \in Call, NEW ok \in BOOLEAN,
             CloseExpired(c, ok) \/ OpenProxy(c, ok) \/ CloseLease(c, ok)
      PROVE  IInv'
  BY <1>3, CloseExpiredKeeps, OpenProxyKeeps, CloseLeaseKeeps
<1>4. ASSUME NEW c \in Call, NEW l \in Lease, BeginRelease(c, l)
      PROVE  IInv'
  BY <1>4, BeginReleaseKeeps
<1> QED
  BY <1>1, <1>2, <1>3, <1>4, CrashKeeps, TickKeeps, StutterKeeps DEF Next

-----------------------------------------------------------------------------
(* The theorems.                                                           *)

\* The inductive invariant holds in every reachable state of the Manager.
THEOREM Invariance == Spec => []IInv
<1>1. Init => IInv
  BY InitIInv
<1>2. IInv /\ [Next]_vars => IInv'
  BY NextKeeps
<1> QED
  BY <1>1, <1>2, PTL DEF Spec

\* Every variable of the Manager keeps its type.
THEOREM TypeCorrect == Spec => []TypeOK
<1>1. IInv => TypeOK
  BY DEF IInv
<1> QED
  BY <1>1, Invariance, PTL

\* However Issues interleave, the Manager stays within its capacity.
THEOREM CapacityHolds == Spec => []ActiveWithinCapacity
<1>1. IInv => ActiveWithinCapacity
  BY DEF IInv
<1> QED
  BY <1>1, Invariance, PTL

\* No open proxy is forgotten by the Manager, except through a failed Close
\* or a crash.
THEOREM ProxiesAreOwned == Spec => []NoForgottenProxy
<1>1. IInv => NoForgottenProxy
  BY DEF IInv
<1> QED
  BY <1>1, Invariance, PTL

\* The proxy of a lease answered as released never comes back.
THEOREM ReleaseIsFinal == Spec => []ReleasedStaysClosed
<1>1. IInv => ReleasedStaysClosed
  BY DEF IInv
<1> QED
  BY <1>1, Invariance, PTL

\* Only a crash drops an active lease without a call that closes it.
THEOREM PrunedAreClosed == Spec => PrunedLeasesAreClosed
<1> DEFINE Taken ==
      \/ Crash
      \/ \A l \in active \ active' : \E c \in Call : Handles(c, l)'
<1>1. ASSUME IInv, NEW c \in Call, RecordLease(c)
      PROVE  Taken
  <2>1. call[c].step = "recording" /\ call \in [Call -> [step : Step,
              key : Key \cup {NoKey}, lease : Lease \cup {NoLease},
              now : Nat, closing : SUBSET Lease]]
    BY <1>1 DEF RecordLease, IInv, TypeOK
  <2> DEFINE expired == ExpiredLeases(call[c].now)
             rest == active \ expired
  <2>2. CASE Full(rest)
    <3>1. rest = active
      BY <1>1, <2>2, FullPrunesNothing DEF IInv
    <3>2. active' = active
      BY <1>1, <2>2, <3>1 DEF RecordLease
    <3> QED
      BY <3>2
  <2>3. CASE ~Full(rest)
    <3>1. CASE active' = active
      BY <3>1
    <3>2. CASE active' # active
      <4>1. /\ active' = rest \cup {call[c].lease}
            /\ call' = [call EXCEPT ![c].step = "opening",
                                    ![c].closing = expired]
        BY <1>1, <2>3, <3>2 DEF RecordLease
      <4>2. call'[c].closing = expired
        BY <2>1, <4>1
      <4>3. \A l \in active \ active' : l \in expired
        BY <4>1
      <4> QED
        BY <4>2, <4>3 DEF Handles
    <3> QED
      BY <3>1, <3>2
  <2> QED
    BY <2>2, <2>3
<1>2. ASSUME IInv, NEW c \in Call, UndoLease(c) \/ DeleteLease(c)
      PROVE  Taken
  <2>1. CASE active' = active
    BY <2>1
  <2>2. CASE active' # active
    <3>1. /\ active' = active \ {call[c].lease}
          /\ call' = [call EXCEPT ![c].step = "closing"]
      BY <1>2, <2>2 DEF UndoLease, DeleteLease, NotFound
    <3>2. call'[c].step = "closing" /\ call'[c].lease = call[c].lease
      BY <1>2, <3>1 DEF IInv, TypeOK
    <3> QED
      BY <3>1, <3>2 DEF Handles
  <2> QED
    BY <2>1, <2>2
<1>3. ASSUME NEW c \in Call, NEW k \in Key, NEW l \in Lease,
             NEW u \in 1..(MaxTime + TTL),
             BeginIssue(c, k, l, u) \/ BeginRelease(c, l)
      PROVE  active' = active
  BY <1>3 DEF BeginIssue, BeginRelease, NotFound
<1>4. ASSUME NEW c \in Call, NEW ok \in BOOLEAN,
             CloseExpired(c, ok) \/ OpenProxy(c, ok) \/ CloseLease(c, ok)
      PROVE  active' = active
  BY <1>4 DEF CloseExpired, OpenProxy, CloseLease
<1>5. ASSUME NEW c \in Call, NEW l \in Lease, BeginRelease(c, l)
      PROVE  active' = active
  BY <1>5 DEF BeginRelease, NotFound
<1>6. Tick \/ UNCHANGED vars => active' = active
  BY DEF Tick, vars
<1>7. active' = active => Taken
  OBVIOUS
<1> HIDE DEF Taken
<1>8. Crash => Taken
  BY DEF Taken
<1>9. IInv /\ [Next]_vars => [Taken]_vars
  BY <1>1, <1>2, <1>3, <1>4, <1>5, <1>6, <1>7, <1>8 DEF Next
<1> USE DEF Taken
<1> QED
  BY <1>9, Invariance, PTL DEF Spec, PrunedLeasesAreClosed

-----------------------------------------------------------------------------
(* The replay window.                                                      *)

\* The Manager's list holds the most recently recorded keys, all of them
\* until it is full.
WindowInv ==
  /\ replayList \in Seq(Key) /\ recorded \in Seq(Key)
  /\ Len(replayList) <= Len(recorded)
  /\ Len(replayList) <= MaxReplayIDs
  /\ Len(replayList) < MaxReplayIDs => Len(replayList) = Len(recorded)
  /\ \A i \in 1..Len(replayList) :
       replayList[i] = recorded[Len(recorded) - Len(replayList) + i]

\* A key that is not in the list was last recorded before the window.
LEMMA FreshKeyIsOld ==
  ASSUME WindowInv, NEW k, k \notin Range(replayList),
         NEW i \in 1..Len(recorded), recorded[i] = k
  PROVE  Len(recorded) + 1 - i > MaxReplayIDs
<1> DEFINE n == Len(replayList)
           m == Len(recorded)
<1>1. n \in Nat /\ m \in Nat /\ MaxReplayIDs \in Nat
  <2>1. replayList \in Seq(Key) /\ recorded \in Seq(Key)
    BY DEF WindowInv
  <2>2. MaxReplayIDs \in Nat
    BY RouteLeaseAssumption
  <2> QED
    BY <2>1, <2>2
<1>2. i <= m - n
  <2> SUFFICES ASSUME i > m - n PROVE FALSE
    BY <1>1
  <2>1. i - (m - n) \in 1..n
    BY <1>1 DEF WindowInv
  <2>2. replayList[i - (m - n)] = recorded[m - n + (i - (m - n))]
    BY <2>1 DEF WindowInv
  <2>3. m - n + (i - (m - n)) = i
    BY <1>1
  <2>4. DOMAIN replayList = 1..n
    BY DEF WindowInv
  <2> QED
    BY <2>1, <2>2, <2>3, <2>4 DEF Range
<1>3. n = MaxReplayIDs
  BY <1>1, <1>2 DEF WindowInv
<1> QED
  BY <1>1, <1>2, <1>3

LEMMA RecordKeepsWindow ==
  ASSUME WindowInv, ReplayWindowHolds, NEW k \in Key,
         k \notin Range(replayList), RecordReplay(k),
         recorded' = Append(recorded, k)
  PROVE  WindowInv' /\ ReplayWindowHolds'
<1> DEFINE n == Len(replayList)
           m == Len(recorded)
           W == MaxReplayIDs
<1>1. /\ n \in Nat /\ m \in Nat /\ W \in Nat \ {0}
      /\ n <= m /\ n <= W /\ (n < W => n = m)
      /\ replayList \in Seq(Key) /\ recorded \in Seq(Key)
      /\ \A i \in 1..n : replayList[i] = recorded[m - n + i]
  <2>1. /\ replayList \in Seq(Key) /\ recorded \in Seq(Key)
        /\ n <= m /\ n <= W /\ (n < W => n = m)
        /\ \A i \in 1..n : replayList[i] = recorded[m - n + i]
    BY DEF WindowInv
  <2>2. W \in Nat \ {0}
    BY RouteLeaseAssumption
  <2>3. n \in Nat /\ m \in Nat
    BY <2>1
  <2> QED
    BY <2>1, <2>2, <2>3
<1>2. /\ recorded' \in Seq(Key) /\ Len(recorded') = m + 1
      /\ \A i \in 1..m : recorded'[i] = recorded[i]
      /\ recorded'[m + 1] = k
      /\ DOMAIN recorded' = 1..(m + 1)
  BY <1>1
<1>3. WindowInv'
  <2>1. CASE n >= W
    <3>1. n = W /\ replayList # <<>>
      BY <1>1, <2>1
    <3>2. /\ Tail(replayList) \in Seq(Key)
          /\ Len(Tail(replayList)) = n - 1
          /\ \A i \in 1..(n - 1) : Tail(replayList)[i] = replayList[i + 1]
      BY <1>1, <3>1, HeadTailProperties
    <3>3. replayList' = Append(Tail(replayList), k)
      BY <2>1 DEF RecordReplay
    <3>4. /\ replayList' \in Seq(Key) /\ Len(replayList') = n
          /\ \A i \in 1..(n - 1) : replayList'[i] = replayList[i + 1]
          /\ replayList'[n] = k
      BY <1>1, <3>1, <3>2, <3>3
    <3>5. ASSUME NEW i \in 1..n
          PROVE  replayList'[i] = recorded'[(m + 1) - n + i]
      <4>1. CASE i = n
        BY <1>1, <1>2, <3>4, <4>1
      <4>2. CASE i # n
        <5>1. i \in 1..(n - 1) /\ i + 1 \in 1..n
          BY <1>1, <4>2
        <5>2. replayList'[i] = recorded[m - n + (i + 1)]
          BY <1>1, <3>4, <5>1
        <5>3. /\ m - n + (i + 1) = (m + 1) - n + i
              /\ (m + 1) - n + i \in 1..m
          BY <1>1, <5>1
        <5> QED
          BY <1>2, <5>2, <5>3
      <4> QED
        BY <4>1, <4>2
    <3>6. /\ n <= m + 1 /\ ~(n < W)
          /\ Len(recorded)' = m + 1 /\ Len(replayList)' = n
      BY <1>1, <1>2, <3>1, <3>4
    <3> HIDE DEF n, m, W
    <3> QED
      BY <1>1, <1>2, <3>4, <3>5, <3>6 DEF WindowInv, W
  <2>2. CASE n < W
    <3>1. replayList' = Append(replayList, k) /\ n = m
      BY <1>1, <2>2 DEF RecordReplay
    <3>2. /\ replayList' \in Seq(Key) /\ Len(replayList') = n + 1
          /\ \A i \in 1..n : replayList'[i] = replayList[i]
          /\ replayList'[n + 1] = k
      BY <1>1, <3>1
    <3>3. ASSUME NEW i \in 1..(n + 1)
          PROVE  replayList'[i] = recorded'[(m + 1) - (n + 1) + i]
      <4>1. (m + 1) - (n + 1) + i = i /\ m - n + i = i
        BY <1>1, <3>1
      <4>2. CASE i = n + 1
        BY <1>2, <3>1, <3>2, <4>1, <4>2
      <4>3. CASE i # n + 1
        <5>1. i \in 1..n /\ i \in 1..m
          BY <1>1, <3>1, <4>3
        <5> QED
          BY <1>1, <1>2, <3>2, <4>1, <5>1
      <4> QED
        BY <4>2, <4>3
    <3> QED
      BY <1>1, <1>2, <2>2, <3>1, <3>2, <3>3 DEF WindowInv
  <2> QED
    BY <1>1, <2>1, <2>2
<1>4. ReplayWindowHolds'
  <2> SUFFICES ASSUME NEW i \in DOMAIN recorded', NEW j \in DOMAIN recorded',
                      i < j, recorded'[i] = recorded'[j]
               PROVE  j - i > W
    BY DEF ReplayWindowHolds
  <2>1. i \in 1..m
    BY <1>1, <1>2
  <2>2. CASE j = m + 1
    BY <1>2, <2>1, <2>2, FreshKeyIsOld
  <2>3. CASE j # m + 1
    <3>1. j \in 1..m /\ DOMAIN recorded = 1..m
      BY <1>1, <1>2, <2>3
    <3> QED
      BY <1>2, <2>1, <3>1 DEF ReplayWindowHolds
  <2> QED
    BY <2>2, <2>3
<1> QED
  BY <1>3, <1>4

\* In one life of the Gateway a signed Issue request is accepted again only
\* after more than MaxReplayIDs - 1 others.
THEOREM ReplayWindow == Spec => []ReplayWindowHolds
<1> DEFINE Inv == WindowInv /\ ReplayWindowHolds
<1>1. Init => Inv
  <2> SUFFICES ASSUME Init PROVE Inv
    OBVIOUS
  <2>1. recorded = <<>> /\ replayList = <<>>
    BY DEF Init
  <2> QED
    BY <2>1, RouteLeaseAssumption DEF WindowInv, ReplayWindowHolds
<1>2. TypeOK /\ CallInv /\ Inv /\ [Next]_vars => Inv'
  <2> SUFFICES ASSUME TypeOK, CallInv, Inv, [Next]_vars PROVE Inv'
    OBVIOUS
  <2>1. ASSUME UNCHANGED <<replayList, recorded>>
        PROVE  Inv'
    BY <2>1 DEF WindowInv, ReplayWindowHolds
  <2>2. ASSUME NEW c \in Call, RecordLease(c)
        PROVE  Inv'
    <3>1. call[c].key \in Key
      BY <2>2 DEF RecordLease, CallInv
    <3>2. CASE UNCHANGED <<replayList, recorded>>
      BY <2>1, <3>2
    <3>3. CASE ~UNCHANGED <<replayList, recorded>>
      <4>1. /\ call[c].key \notin Range(replayList)
            /\ RecordReplay(call[c].key)
            /\ recorded' = Append(recorded, call[c].key)
        BY <2>2, <3>3 DEF RecordLease
      <4> QED
        BY <3>1, <4>1, RecordKeepsWindow
    <3> QED
      BY <3>2, <3>3
  <2>3. Crash => Inv'
    <3> SUFFICES ASSUME Crash PROVE Inv'
      OBVIOUS
    <3>1. recorded' = <<>> /\ replayList' = <<>>
      BY DEF Crash
    <3> QED
      BY <3>1, RouteLeaseAssumption DEF WindowInv, ReplayWindowHolds
  <2>4. ASSUME NEW c \in Call, NEW k \in Key, NEW l \in Lease,
               NEW u \in 1..(MaxTime + TTL), BeginIssue(c, k, l, u)
        PROVE  UNCHANGED <<replayList, recorded>>
    BY <2>4 DEF BeginIssue, history
  <2>5. ASSUME NEW c \in Call, NEW ok \in BOOLEAN,
               CloseExpired(c, ok) \/ OpenProxy(c, ok) \/ CloseLease(c, ok)
        PROVE  UNCHANGED <<replayList, recorded>>
    BY <2>5 DEF CloseExpired, OpenProxy, CloseLease, history
  <2>6. ASSUME NEW c \in Call, UndoLease(c) \/ DeleteLease(c)
        PROVE  UNCHANGED <<replayList, recorded>>
    BY <2>6 DEF UndoLease, DeleteLease, history
  <2>7. ASSUME NEW c \in Call, NEW l \in Lease, BeginRelease(c, l)
        PROVE  UNCHANGED <<replayList, recorded>>
    BY <2>7 DEF BeginRelease
  <2>8. Tick \/ UNCHANGED vars => UNCHANGED <<replayList, recorded>>
    BY DEF Tick, vars, history
  <2> HIDE DEF Inv
  <2> QED
    BY <2>1, <2>2, <2>3, <2>4, <2>5, <2>6, <2>7, <2>8 DEF Next
<1>3. IInv => TypeOK /\ CallInv
  BY DEF IInv
<1>4. Inv => ReplayWindowHolds
  OBVIOUS
<1> HIDE DEF Inv
<1> QED
  BY <1>1, <1>2, <1>3, <1>4, Invariance, PTL DEF Spec

=============================================================================
