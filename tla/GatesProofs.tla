---------------------------- MODULE GatesProofs -----------------------------
(* Theorems about the two stores of nonces, for any requests, rules,          *)
(* proposals, ages and capacities: how long they must keep what, so that      *)
(* nothing passes twice.                                                      *)
EXTENDS OwnerAuth, VerifiedIntents, FiniteSetTheorems, TLAPS

-----------------------------------------------------------------------------
(* Requests.                                                                  *)

\* A request that was verified in this life is in the store until it has expired.
Kept ==
    \A m \in Request : \A i \in DOMAIN served[m] :
        /\ served[m][i].at <= now
        /\ served[m][i].life <= cpRestarts
        /\ served[m][i].life = cpRestarts =>
              expiry[m.nonce] >= m.ts + AuthMaxAge \/ now >= m.ts + AuthMaxAge

\* What AuthTypeOK says of the variables that the nonces depend on.
StoreTypeOK ==
    /\ now \in Time
    /\ expiry \in [RequestNonce -> Nat]
    /\ cpRestarts \in 0..MaxCpRestarts
    /\ served \in [Request -> Seq([at : Time, life : 0..MaxCpRestarts])]

AuthInv == StoreTypeOK /\ Kept /\ ServedOnce

LEMMA ElementType ==
    ASSUME NEW S, NEW s \in Seq(S), NEW i \in DOMAIN s PROVE s[i] \in S
  OBVIOUS

\* The history's entries are points in time and lives.
LEMMA ServedType ==
    ASSUME StoreTypeOK, NEW m \in Request, NEW i \in DOMAIN served[m]
    PROVE  /\ served[m][i].at \in Nat /\ served[m][i].life \in Nat
           /\ served[m][i].life <= MaxCpRestarts
<1>1. served[m] \in Seq([at : Time, life : 0..MaxCpRestarts])
  BY DEF StoreTypeOK
<1>2. served[m][i] \in [at : Time, life : 0..MaxCpRestarts]
  BY <1>1, ElementType
<1> QED
  BY <1>2, ClockAssumption, OwnerAuthAssumption
  DEF ClockAssumption, OwnerAuthAssumption, Time

LEMMA AuthInitInv == now = 0 /\ AuthInit => AuthInv
  BY ClockAssumption, OwnerAuthAssumption
  DEF ClockAssumption, OwnerAuthAssumption, AuthInit, AuthInv, StoreTypeOK, Kept, ServedOnce, Time

\* Dropping what has expired.
LEMMA PrunedKeeps ==
    ASSUME NEW grown \in [RequestNonce -> Nat], now \in Time
    PROVE  /\ Pruned(grown) \in [RequestNonce -> Nat]
           /\ \A n \in RequestNonce :
                 Pruned(grown)[n] = grown[n] \/ grown[n] <= now
  BY ClockAssumption DEF ClockAssumption, Pruned, Time

LEMMA AdmitInv == ASSUME AuthInv, NEW m \in Request, Admit(m) PROVE AuthInv'
<1> DEFINE n == m.nonce
           grown == [expiry EXCEPT ![n] = m.ts + AuthMaxAge]
           entry == [at |-> now, life |-> cpRestarts]
<1>1. /\ m.ts \in Nat /\ AuthMaxAge \in Nat /\ n \in RequestNonce 
      /\ now \in Nat /\ now \in Time /\ cpRestarts \in Nat /\ cpRestarts \in 0..MaxCpRestarts
      /\ \A q \in Request : q.ts \in Nat /\ q.nonce \in RequestNonce
      /\ expiry \in [RequestNonce -> Nat]
  BY ClockAssumption, OwnerAuthAssumption
  DEF ClockAssumption, OwnerAuthAssumption, RequestNonce, AuthInv, StoreTypeOK, Time
<1>2. /\ now <= m.ts + AuthMaxAge /\ expiry[n] <= now
      /\ expiry' = Pruned(grown) /\ UNCHANGED <<now, cpRestarts>>
  BY <1>1 DEF Admit, FreshRequest, Seen
<1>3. grown \in [RequestNonce -> Nat]
  BY <1>1
<1>4. /\ expiry' \in [RequestNonce -> Nat]
      /\ \A k \in RequestNonce : expiry'[k] = grown[k] \/ grown[k] <= now
  BY <1>1, <1>2, <1>3, PrunedKeeps
<1>5. /\ \A k \in RequestNonce \ {n} : expiry'[k] = expiry[k] \/ expiry[k] <= now
      /\ expiry'[n] = m.ts + AuthMaxAge \/ m.ts + AuthMaxAge <= now
  BY <1>1, <1>4
<1>6. ASSUME NEW q \in Request,
             expiry[q.nonce] >= q.ts + AuthMaxAge \/ now >= q.ts + AuthMaxAge
      PROVE  expiry'[q.nonce] >= q.ts + AuthMaxAge \/ now >= q.ts + AuthMaxAge
  <2>1. expiry[q.nonce] \in Nat /\ expiry'[q.nonce] \in Nat /\ q.ts \in Nat
    BY <1>1, <1>4
  <2>2. CASE q.nonce = n
    BY <1>1, <1>2, <1>6, <2>1, <2>2
  <2>3. CASE q.nonce # n
    BY <1>1, <1>5, <1>6, <2>1, <2>3
  <2> QED
    BY <2>2, <2>3
<1>7. served \in [Request -> Seq([at : Time, life : 0..MaxCpRestarts])]
  BY DEF AuthInv, StoreTypeOK
<1>8. CASE UNCHANGED served
  <2>1. Kept'
    BY <1>2, <1>6, <1>8 DEF AuthInv, Kept
  <2> QED
    BY <1>1, <1>2, <1>4, <1>8, <2>1 DEF AuthInv, StoreTypeOK, ServedOnce
<1>9. CASE served' = [served EXCEPT ![m] = Append(@, entry)] 
  <2>1. /\ entry \in [at : Time, life : 0..MaxCpRestarts]
        /\ served[m] \in Seq([at : Time, life : 0..MaxCpRestarts])
    BY <1>1, <1>7
  <2>2. /\ served'[m] = Append(served[m], entry)
        /\ DOMAIN served'[m] = DOMAIN served[m] \cup {Len(served[m]) + 1}
        /\ \A i \in DOMAIN served[m] : served'[m][i] = served[m][i] /\ i \in Nat
        /\ served'[m][Len(served[m]) + 1] = entry
        /\ DOMAIN served[m] = 1..Len(served[m]) /\ Len(served[m]) \in Nat
    BY <1>7, <1>9, <2>1
  <2>3. \A q \in Request \ {m} : served'[q] = served[q]
    BY <1>7, <1>9
  <2>4. StoreTypeOK'
    <3>1. Append(served[m], entry) \in Seq([at : Time, life : 0..MaxCpRestarts])
      BY <2>1
    <3>2. served' \in [Request -> Seq([at : Time, life : 0..MaxCpRestarts])]
      BY <1>7, <1>9, <3>1
    <3> QED
      BY <1>1, <1>2, <1>4, <3>2 DEF StoreTypeOK
  <2>5. Kept'
    <3>1. ASSUME NEW q \in Request, NEW i \in DOMAIN served'[q]
          PROVE  /\ served'[q][i].at <= now /\ served'[q][i].life <= cpRestarts
                 /\ served'[q][i].life = cpRestarts =>
                      expiry'[q.nonce] >= q.ts + AuthMaxAge \/ now >= q.ts + AuthMaxAge
      <4>1. CASE i \in DOMAIN served[q] /\ served'[q][i] = served[q][i]
        BY <1>6, <4>1 DEF AuthInv, Kept
      <4>2. CASE q = m /\ served'[q][i] = entry
        BY <1>1, <1>4, <1>5, <4>2
      <4> QED
        BY <2>2, <2>3, <4>1, <4>2
    <3> QED
      BY <1>2, <3>1 DEF Kept
  <2>6. ServedOnce'
    <3>1. ASSUME NEW q \in Request, NEW i \in DOMAIN served'[q], NEW j \in DOMAIN served'[q], i < j
          PROVE  \/ served'[q][i].life < served'[q][j].life
                 \/ served'[q][j].at = q.ts + AuthMaxAge
      <4>1. CASE q # m
        BY <2>3, <3>1, <4>1 DEF AuthInv, ServedOnce
      <4>2. CASE q = m /\ j \in DOMAIN served[m]
        <5>1. i \in DOMAIN served[m]
          BY <2>2, <3>1, <4>2
        <5> QED
          BY <2>2, <3>1, <4>2, <5>1 DEF AuthInv, ServedOnce
      <4>3. CASE q = m /\ j = Len(served[m]) + 1
        <5>1. i \in DOMAIN served[m]
          BY <2>2, <3>1, <4>3
        <5>2. served'[q][i] = served[m][i] /\ served'[q][j] = entry
          BY <2>2, <4>3, <5>1
        <5>3. served[m][i].life \in Nat /\ served[m][i].life <= cpRestarts
          BY <5>1, ServedType DEF AuthInv, Kept
        <5>4. CASE served[m][i].life = cpRestarts
          <6>1. expiry[n] >= m.ts + AuthMaxAge \/ now >= m.ts + AuthMaxAge
            BY <5>1, <5>4 DEF AuthInv, Kept
          <6>2. now = m.ts + AuthMaxAge
            BY <1>1, <1>2, <6>1
          <6> QED
            BY <4>3, <5>2, <6>2
        <5>5. CASE served[m][i].life # cpRestarts
          BY <1>1, <5>2, <5>3, <5>5
        <5> QED
          BY <5>4, <5>5
      <4> QED
        BY <2>2, <4>1, <4>2, <4>3
    <3> QED
      BY <3>1 DEF ServedOnce
  <2> QED
    BY <1>1, <1>2, <2>4, <2>5, <2>6 DEF AuthInv
<1> QED
  BY <1>8, <1>9 DEF Admit

LEMMA AuthNextInv == AuthInv /\ [AuthNext]_<<now, authVars>> => AuthInv'
<1> SUFFICES ASSUME AuthInv, [AuthNext]_<<now, authVars>> PROVE AuthInv'
  OBVIOUS
<1>1. CASE CpRestart
  <2>1. /\ cpRestarts' = cpRestarts + 1 /\ cpRestarts' \in 0..MaxCpRestarts
        /\ cpRestarts \in Nat /\ UNCHANGED <<now, served>>
        /\ expiry' = [n \in RequestNonce |-> 0]
    BY <1>1, OwnerAuthAssumption
    DEF OwnerAuthAssumption, CpRestart, AuthInv, StoreTypeOK
  <2>2. StoreTypeOK'
    BY <2>1 DEF AuthInv, StoreTypeOK
  <2>3. Kept'
    BY <2>1, ServedType DEF AuthInv, Kept
  <2> QED
    BY <2>1, <2>2, <2>3 DEF AuthInv, ServedOnce
<1>2. CASE Ticks /\ UNCHANGED authVars
  <2>1. /\ now' = now + 1 /\ now' \in Time /\ now \in Nat
        /\ UNCHANGED <<expiry, cpRestarts, served>>
    BY <1>2, ClockAssumption DEF ClockAssumption, Ticks, authVars, AuthInv, StoreTypeOK, Time
  <2>3. \A m \in Request : m.ts + AuthMaxAge \in Nat
    BY OwnerAuthAssumption DEF OwnerAuthAssumption
  <2>4. Kept'
    BY <2>1, <2>3, ServedType DEF AuthInv, Kept
  <2> QED
    BY <2>1, <2>4 DEF AuthInv, StoreTypeOK, ServedOnce
<1>3. CASE UNCHANGED <<now, authVars>>
  BY <1>3 DEF authVars, AuthInv, StoreTypeOK, Kept, ServedOnce
<1> QED
  BY <1>1, <1>2, <1>3, AdmitInv DEF AuthNext

\* "A one-time nonce" (lib/owner-auth.js): however many nonces the store may hold
\* before it forgets the old ones, and whatever the clients' clocks, a signed
\* request passes once in a life of the control plane, but for the last instant
\* at which it is fresh.
THEOREM RequestsServedOnce == AuthSpec => []ServedOnce
  BY AuthInitInv, AuthNextInv, PTL DEF AuthSpec, AuthInv

-----------------------------------------------------------------------------
(* Evidence.                                                                  *)

GateStoreOK ==
    /\ now \in Time
    /\ added \in [EvidenceNonce -> Time \cup {None}]
    /\ signerRestarts \in 0..MaxSignerRestarts
    /\ uses \in [EvidenceNonce -> Seq(Use)]
    /\ spent \subseteq EvidenceNonce

\* The store holds what was examined in this life, except what has become stale;
\* evidence is not from later than its examination allows.
StoreIsRight ==
    /\ \A n \in EvidenceNonce : added[n] # None => n \in spent
    /\ \A e \in Evidence :
          /\ added[e.nonce] # None => e.ts <= added[e.nonce] + Ahead
          /\ KeptLongEnough /\ e.nonce \in spent => added[e.nonce] # None \/ Stale(e)

UsedIsSpent ==
    \A n \in EvidenceNonce : \A i \in DOMAIN uses[n] :
        /\ uses[n][i].life <= signerRestarts
        /\ uses[n][i].life = signerRestarts => n \in spent

GateInv == GateStoreOK /\ StoreIsRight /\ UsedIsSpent /\ EvidenceUsedOnce

LEMMA GateInitInv == now = 0 /\ GateInit => GateInv
<1> SUFFICES ASSUME now = 0, GateInit PROVE GateInv
  OBVIOUS
<1>1. GateStoreOK
  BY ClockAssumption, VerifiedIntentsAssumption
  DEF ClockAssumption, VerifiedIntentsAssumption, GateInit, GateStoreOK, Time
<1>2. \A e \in Evidence : e.nonce \in EvidenceNonce
  BY DEF EvidenceNonce
<1> QED
  BY <1>1, <1>2 DEF GateInit, GateInv, StoreIsRight, UsedIsSpent, EvidenceUsedOnce

\* The numbers and the evidence of a proposal.
LEMMA GateFacts ==
    ASSUME GateStoreOK
    PROVE  /\ now \in Nat /\ EvidenceMaxAge \in Nat /\ Ahead \in Nat /\ NonceKeep \in Nat
           /\ \A t \in Time : t \in Nat /\ t # None
           /\ \A e \in Evidence : e.ts \in Nat /\ e.nonce \in EvidenceNonce
           /\ \A e, f \in Evidence : e.nonce = f.nonce => e = f
           /\ \A p \in Proposal :
                 /\ p.evidence \in Seq(Evidence) /\ Len(p.evidence) \in Nat
                 /\ DOMAIN p.evidence = 1..Len(p.evidence)
                 /\ \A i \in DOMAIN p.evidence : p.evidence[i] \in Evidence
<1>0. /\ EvidenceMaxAge \in Nat /\ Ahead \in Nat /\ NonceKeep \in Nat
      /\ \A e, f \in Evidence : e.nonce = f.nonce => e = f
      /\ \A e \in Evidence : e.ts \in Nat
      /\ \A p \in Proposal : p.evidence \in Seq(Evidence)
      /\ None \notin Time
  BY VerifiedIntentsAssumption DEF VerifiedIntentsAssumption
<1>1. now \in Nat /\ \A t \in Time : t \in Nat /\ t # None
  BY <1>0, ClockAssumption DEF ClockAssumption, GateStoreOK, Time
<1>2. \A e \in Evidence : e.nonce \in EvidenceNonce
  BY DEF EvidenceNonce
<1>3. \A p \in Proposal : \A i \in DOMAIN p.evidence : p.evidence[i] \in Evidence
  BY <1>0, ElementType
<1>4. \A p \in Proposal :
          Len(p.evidence) \in Nat /\ DOMAIN p.evidence = 1..Len(p.evidence)
  BY <1>0
<1> QED
  BY <1>0, <1>1, <1>2, <1>3, <1>4

\* What the store holds once the first k pieces of evidence have been added.
LEMMA StoreHolds ==
    ASSUME GateStoreOK, NEW evidence, NEW k \in Nat, NEW n \in EvidenceNonce
    PROVE  /\ Store(evidence, k) \in [EvidenceNonce -> Time \cup {None}]
           /\ (\E i \in 1..k : evidence[i].nonce = n) => Store(evidence, k)[n] = now
           /\ ~(\E i \in 1..k : evidence[i].nonce = n) =>
                 \/ Store(evidence, k)[n] = added[n]
                 \/ /\ Store(evidence, k)[n] = None /\ added[n] # None
                    /\ now - added[n] > NonceKeep
<1> DEFINE grown == [m \in EvidenceNonce |->
              IF \E i \in 1..k : evidence[i].nonce = m THEN now ELSE added[m]]
<1>1. Store(evidence, k) = Dropped(grown)
  BY DEF Store
<1>2. grown \in [EvidenceNonce -> Time \cup {None}]
  BY DEF GateStoreOK
<1>3. /\ Dropped(grown) \in [EvidenceNonce -> Time \cup {None}]
      /\ \/ Dropped(grown)[n] = grown[n]
         \/ /\ Dropped(grown)[n] = None
            /\ grown[n] # None /\ now - grown[n] > NonceKeep
  BY <1>2 DEF Dropped
<1>4. ~(now - now > NonceKeep)
  BY GateFacts
<1> QED
  BY <1>1, <1>3, <1>4

\* Evidence passes if it is in order, was not examined before, and does not come
\* twice in one proposal.
LEMMA VerifiedIsNew ==
    ASSUME GateStoreOK, StoreIsRight, KeptLongEnough,
           NEW p \in Proposal, NEW i \in DOMAIN p.evidence
    PROVE  LET e == p.evidence[i]
           IN  Verified(p.evidence, i) <=>
                  /\ Trusted(e) /\ Authentic(e) /\ ~Stale(e) /\ e.nonce \notin spent
                  /\ \A j \in 1..(i - 1) : p.evidence[j].nonce # e.nonce
<1> DEFINE e == p.evidence[i]  n == e.nonce
<1>1. /\ e \in Evidence /\ n \in EvidenceNonce /\ i \in Nat /\ i - 1 \in Nat
      /\ e.ts \in Nat /\ now \in Nat /\ now # None
      /\ EvidenceMaxAge \in Nat /\ Ahead \in Nat /\ NonceKeep \in Nat
  BY GateFacts DEF GateStoreOK
<1>2. ASSUME ~Stale(e) PROVE added[n] = None <=> n \notin spent
  BY <1>1, <1>2 DEF StoreIsRight
<1>3. ASSUME added[n] # None, now - added[n] > NonceKeep PROVE Stale(e)
  <2>1. added[n] \in Nat
    BY <1>1, <1>3, GateFacts DEF GateStoreOK
  <2>2. e.ts <= added[n] + Ahead
    BY <1>1, <1>3 DEF StoreIsRight
  <2> QED
    BY <1>1, <1>3, <2>1, <2>2 DEF Stale, KeptLongEnough
<1>4. CASE i = 1
  BY <1>2, <1>4 DEF Verified
<1>5. CASE i # 1
  <2> DEFINE store == Store(p.evidence, i - 1)
  <2>1. /\ (\E j \in 1..(i - 1) : p.evidence[j].nonce = n) => store[n] = now
        /\ ~(\E j \in 1..(i - 1) : p.evidence[j].nonce = n) =>
              \/ store[n] = added[n]
              \/ store[n] = None /\ added[n] # None /\ now - added[n] > NonceKeep
    BY <1>1, StoreHolds
  <2>2. Verified(p.evidence, i) <=>
            Trusted(e) /\ Authentic(e) /\ ~Stale(e) /\ store[n] = None
    BY <1>5 DEF Verified
  <2> QED
    BY <1>1, <1>2, <1>3, <2>1, <2>2
<1> QED
  BY <1>4, <1>5

\* How many pieces pass.
LEMMA PassedCount ==
    ASSUME GateStoreOK, NEW p \in Proposal
    PROVE  /\ Cardinality(Passed(p.evidence)) \in 0..Len(p.evidence)
           /\ Passed(p.evidence) = DOMAIN p.evidence =>
                 Cardinality(Passed(p.evidence)) = Len(p.evidence)
<1> DEFINE ev == p.evidence
<1>1. Len(ev) \in Nat /\ DOMAIN ev = 1..Len(ev)
  BY GateFacts
<1>2. IsFiniteSet(DOMAIN ev) /\ Cardinality(DOMAIN ev) = Len(ev)
  BY <1>1, FS_Interval
<1>3. Passed(ev) \subseteq DOMAIN ev
  BY DEF Passed
<1>4. IsFiniteSet(Passed(ev)) /\ Cardinality(Passed(ev)) <= Cardinality(DOMAIN ev)
  BY <1>2, <1>3, FS_Subset
<1>5. Cardinality(Passed(ev)) \in Nat
  BY <1>4, FS_CardinalityType
<1> QED
  BY <1>1, <1>2, <1>4, <1>5

\* Examining evidence keeps the store right; all of it is spent if all passes.
LEMMA ExamineKeeps ==
    ASSUME GateStoreOK, StoreIsRight, NEW p \in Proposal, Possible(p), Examine(p),
           UNCHANGED <<now, signerRestarts>>, uses' \in [EvidenceNonce -> Seq(Use)]
    PROVE  /\ GateStoreOK' /\ StoreIsRight' /\ spent \subseteq spent'
           /\ Accepts(p) => NoncesOf(p) \subseteq spent'
<1> DEFINE ev == p.evidence  k == Cardinality(Passed(ev))
           new == {ev[i].nonce : i \in 1..k}
<1>1. k \in 0..Len(ev) /\ k \in Nat /\ (Passed(ev) = DOMAIN ev => k = Len(ev))
  BY PassedCount, GateFacts
<1>2. DOMAIN ev = 1..Len(ev) /\ Len(ev) \in Nat
  BY GateFacts
<1>3. CASE p.rule = Rule.id /\ k > 0
  <2>1. added' = Store(ev, k) /\ spent' = spent \cup new
    BY <1>3 DEF Examine
  <2>2. \A i \in 1..k : ev[i] \in Evidence /\ ev[i].nonce \in EvidenceNonce
    BY <1>1, <1>2, GateFacts
  <2>3. /\ added' \in [EvidenceNonce -> Time \cup {None}]
        /\ \A n \in new : added'[n] = now
        /\ \A n \in EvidenceNonce \ new :
              \/ added'[n] = added[n]
              \/ added'[n] = None /\ added[n] # None /\ now - added[n] > NonceKeep
    <3>1. \A n \in EvidenceNonce : n \in new <=> \E i \in 1..k : ev[i].nonce = n
      OBVIOUS
    <3>2. ASSUME NEW n \in EvidenceNonce
          PROVE  /\ added' \in [EvidenceNonce -> Time \cup {None}]
                 /\ n \in new => added'[n] = now
                 /\ n \notin new =>
                      \/ added'[n] = added[n]
                      \/ added'[n] = None /\ added[n] # None /\ now - added[n] > NonceKeep
      BY <1>1, <2>1, <3>1, StoreHolds
    <3>3. EvidenceNonce # {}
      BY <1>1, <1>3, <2>2
    <3> QED
      BY <2>2, <3>2, <3>3
  <2>4. GateStoreOK'
    BY <2>1, <2>2, <2>3 DEF GateStoreOK
  <2>5. \A n \in EvidenceNonce : added'[n] # None => n \in spent'
    BY <2>1, <2>3 DEF StoreIsRight
  <2>6. ASSUME NEW e \in Evidence
        PROVE  /\ added'[e.nonce] # None => e.ts <= added'[e.nonce] + Ahead
               /\ KeptLongEnough /\ e.nonce \in spent' =>
                     added'[e.nonce] # None \/ Stale(e)'
    <3> DEFINE n == e.nonce
    <3>1. /\ n \in EvidenceNonce /\ now \in Nat /\ now # None /\ e.ts \in Nat
          /\ EvidenceMaxAge \in Nat /\ Ahead \in Nat /\ NonceKeep \in Nat
          /\ now' = now
      BY GateFacts DEF GateStoreOK
    <3>2. CASE n \in new
      <4>1. PICK i \in 1..k : ev[i].nonce = n
        BY <3>2
      <4>2. ev[i] = e
        BY <2>2, <4>1, GateFacts
      <4>3. e.ts <= now + Ahead
        BY <1>1, <1>2, <4>2 DEF Possible
      <4> QED
        BY <2>3, <3>1, <3>2, <4>3
    <3>3. CASE n \notin new /\ added'[n] = added[n]
      BY <2>1, <3>1, <3>3 DEF StoreIsRight, Stale
    <3>4. CASE added'[n] = None /\ added[n] # None /\ now - added[n] > NonceKeep
      <4>1. added[n] \in Nat
        BY <3>1, <3>4, GateFacts DEF GateStoreOK
      <4>2. e.ts <= added[n] + Ahead
        BY <3>4 DEF StoreIsRight
      <4>3. KeptLongEnough => Stale(e)'
        BY <3>1, <3>4, <4>1, <4>2 DEF KeptLongEnough, Stale
      <4> QED
        BY <3>4, <4>3
    <3> QED
      BY <2>3, <3>1, <3>2, <3>3, <3>4
  <2>7. Accepts(p) => NoncesOf(p) \subseteq spent'
    BY <1>1, <1>2, <2>1 DEF Accepts, NoncesOf
  <2> QED
    BY <2>1, <2>4, <2>5, <2>6, <2>7 DEF StoreIsRight
<1>4. CASE ~(p.rule = Rule.id /\ k > 0)
  <2>1. UNCHANGED <<added, spent>>
    BY <1>4 DEF Examine
  <2>2. Accepts(p) => NoncesOf(p) = {}
    BY <1>1, <1>2, <1>4 DEF Accepts, NoncesOf
  <2> QED
    BY <2>1, <2>2 DEF GateStoreOK, StoreIsRight, Stale
<1> QED
  BY <1>3, <1>4

\* What the gate accepts comes with evidence nobody has used.
LEMMA AcceptedIsNew ==
    ASSUME GateStoreOK, StoreIsRight, KeptLongEnough, NEW p \in Proposal, Accepts(p)
    PROVE  NoncesOf(p) \cap spent = {}
<1>1. \A i \in DOMAIN p.evidence : i \in 1..i /\ Verified(p.evidence, i)
  BY GateFacts DEF Accepts, Passed
<1> QED
  BY <1>1, VerifiedIsNew DEF NoncesOf

LEMMA UsesType ==
    ASSUME GateStoreOK, NEW n \in EvidenceNonce, NEW i \in DOMAIN uses[n]
    PROVE  uses[n][i].life \in Nat /\ uses[n][i].life <= MaxSignerRestarts
<1>1. uses[n] \in Seq(Use)
  BY DEF GateStoreOK
<1>2. uses[n][i] \in Use
  BY <1>1, ElementType
<1> QED
  BY <1>2, VerifiedIntentsAssumption DEF VerifiedIntentsAssumption, Use

LEMMA SignInv == ASSUME GateInv, NEW p \in Proposal, Sign(p) PROVE GateInv'
<1> DEFINE entry == [at |-> now, life |-> signerRestarts]
<1>1. /\ Possible(p) /\ Accepts(p) /\ Examine(p) /\ UNCHANGED <<now, signerRestarts>>
      /\ uses' = [n \in EvidenceNonce |->
            IF n \in NoncesOf(p) THEN Append(uses[n], entry) ELSE uses[n]]
  BY DEF Sign
<1>2. /\ GateStoreOK /\ StoreIsRight /\ UsedIsSpent /\ EvidenceUsedOnce
      /\ entry \in Use /\ signerRestarts \in Nat
      /\ \A n \in EvidenceNonce : uses[n] \in Seq(Use)
  <2>1. GateStoreOK /\ StoreIsRight /\ UsedIsSpent /\ EvidenceUsedOnce
    BY DEF GateInv
  <2>2. signerRestarts \in Nat /\ entry \in Use
    BY <2>1, VerifiedIntentsAssumption DEF VerifiedIntentsAssumption, GateStoreOK, Use
  <2> QED
    BY <2>1, <2>2 DEF GateStoreOK
<1>3. ASSUME NEW n \in EvidenceNonce, n \in NoncesOf(p)
      PROVE  /\ uses'[n] \in Seq(Use)
             /\ DOMAIN uses'[n] = DOMAIN uses[n] \cup {Len(uses[n]) + 1}
             /\ \A i \in DOMAIN uses[n] : uses'[n][i] = uses[n][i]
             /\ uses'[n][Len(uses[n]) + 1] = entry
             /\ DOMAIN uses[n] = 1..Len(uses[n]) /\ Len(uses[n]) \in Nat
  BY <1>1, <1>2, <1>3
<1>4. \A n \in EvidenceNonce : n \notin NoncesOf(p) => uses'[n] = uses[n]
  BY <1>1
<1>5. uses' \in [EvidenceNonce -> Seq(Use)]
  BY <1>1, <1>2, <1>3, <1>4
<1>6. /\ GateStoreOK' /\ StoreIsRight' /\ spent \subseteq spent'
      /\ NoncesOf(p) \subseteq spent'
  BY <1>1, <1>2, <1>5, ExamineKeeps
<1>7. UsedIsSpent'
  <2>1. ASSUME NEW n \in EvidenceNonce, NEW i \in DOMAIN uses'[n]
        PROVE  /\ uses'[n][i].life <= signerRestarts
               /\ uses'[n][i].life = signerRestarts => n \in spent'
    <3>1. CASE i \in DOMAIN uses[n] /\ uses'[n][i] = uses[n][i]
      BY <1>2, <1>6, <3>1 DEF UsedIsSpent
    <3>2. CASE n \in NoncesOf(p) /\ uses'[n][i] = entry
      BY <1>2, <1>6, <3>2
    <3> QED
      BY <1>3, <1>4, <3>1, <3>2
  <2> QED
    BY <1>1, <2>1 DEF UsedIsSpent
<1>8. EvidenceUsedOnce'
  <2> SUFFICES ASSUME KeptLongEnough, NEW n \in EvidenceNonce,
                      NEW i \in DOMAIN uses'[n], NEW j \in DOMAIN uses'[n], i < j
               PROVE  uses'[n][i].life < uses'[n][j].life
    BY DEF EvidenceUsedOnce, KeptLongEnough
  <2>1. CASE n \notin NoncesOf(p)
    BY <1>2, <1>4, <2>1 DEF EvidenceUsedOnce
  <2>2. CASE n \in NoncesOf(p) /\ j \in DOMAIN uses[n]
    <3>1. i \in DOMAIN uses[n]
      BY <1>3, <2>2
    <3> QED
      BY <1>2, <1>3, <2>2, <3>1 DEF EvidenceUsedOnce
  <2>3. CASE n \in NoncesOf(p) /\ j = Len(uses[n]) + 1
    <3>1. i \in DOMAIN uses[n]
      BY <1>3, <2>3
    <3>2. n \notin spent
      BY <1>1, <1>2, <2>3, AcceptedIsNew
    <3>3. uses[n][i].life <= signerRestarts /\ uses[n][i].life # signerRestarts
      BY <1>2, <3>1, <3>2 DEF UsedIsSpent
    <3>4. uses[n][i].life \in Nat
      BY <1>2, <3>1, UsesType
    <3>5. uses'[n][i] = uses[n][i] /\ uses'[n][j] = entry
      BY <1>3, <2>3, <3>1
    <3> QED
      BY <1>2, <3>3, <3>4, <3>5
  <2> QED
    BY <1>3, <2>1, <2>2, <2>3
<1> QED
  BY <1>6, <1>7, <1>8 DEF GateInv

LEMMA RejectInv == ASSUME GateInv, NEW p \in Proposal, Reject(p) PROVE GateInv'
<1>1. /\ Possible(p) /\ Examine(p) /\ UNCHANGED <<now, signerRestarts, uses>>
      /\ GateStoreOK /\ StoreIsRight
  BY DEF Reject, GateInv
<1>2. GateStoreOK' /\ StoreIsRight' /\ spent \subseteq spent'
  BY <1>1, ExamineKeeps DEF GateStoreOK
<1> QED
  BY <1>1, <1>2 DEF GateInv, UsedIsSpent, EvidenceUsedOnce, KeptLongEnough

LEMMA GateOthersInv ==
    ASSUME GateInv, \/ SignerRestart \/ (Ticks /\ UNCHANGED gateVars)
                    \/ UNCHANGED <<now, gateVars>>
    PROVE  GateInv'
<1> USE DEF KeptLongEnough
<1>1. CASE SignerRestart
  <2>1. /\ signerRestarts' = signerRestarts + 1 /\ signerRestarts' \in 0..MaxSignerRestarts
        /\ signerRestarts \in Nat /\ UNCHANGED <<now, uses>>
        /\ added' = [n \in EvidenceNonce |-> None] /\ spent' = {}
    BY <1>1, VerifiedIntentsAssumption
    DEF VerifiedIntentsAssumption, SignerRestart, GateInv, GateStoreOK
  <2>2. GateStoreOK'
    BY <2>1 DEF GateInv, GateStoreOK
  <2>3. StoreIsRight'
    BY <2>1 DEF StoreIsRight, EvidenceNonce
  <2>4. UsedIsSpent'
    BY <2>1, UsesType DEF GateInv, UsedIsSpent
  <2> QED
    BY <2>1, <2>2, <2>3, <2>4 DEF GateInv, EvidenceUsedOnce
<1>2. CASE Ticks /\ UNCHANGED gateVars
  <2>1. /\ now' = now + 1 /\ now' \in Time
        /\ UNCHANGED <<added, signerRestarts, uses, spent>>
    BY <1>2, ClockAssumption
    DEF ClockAssumption, Ticks, gateVars, GateInv, GateStoreOK, Time
  <2>2. \A e \in Evidence : Stale(e) => Stale(e)'
    <3>1. \A e \in Evidence : e.ts \in Nat /\ now \in Nat /\ EvidenceMaxAge \in Nat
      BY GateFacts DEF GateInv
    <3> QED
      BY <2>1, <3>1 DEF Stale
  <2> QED
    BY <2>1, <2>2
    DEF GateInv, GateStoreOK, StoreIsRight, UsedIsSpent, EvidenceUsedOnce
<1>3. CASE UNCHANGED <<now, gateVars>>
  BY <1>3
  DEF gateVars, GateInv, GateStoreOK, StoreIsRight, UsedIsSpent, EvidenceUsedOnce, Stale
<1> QED
  BY <1>1, <1>2, <1>3

LEMMA GateAlways == GateSpec => []GateInv
<1>1. GateInv /\ [GateNext]_<<now, gateVars>> => GateInv'
  BY SignInv, RejectInv, GateOthersInv DEF GateNext
<1> QED
  BY GateInitInv, <1>1, PTL DEF GateSpec

\* "A reused nonce means a host is replaying" (signer/server.js:107): if nonces
\* are kept at least as long as evidence may be old, plus what a producer's clock
\* may be ahead, a piece of evidence gets one trade signed in a life of the signer.
THEOREM EvidenceCountsOnce == GateSpec => []EvidenceUsedOnce
  BY GateAlways, PTL DEF GateInv

\* The parts of the intent that a rule yields.
LEMMA OutcomeParts ==
    ASSUME NEW p \in Proposal
    PROVE  SameIntent(Outcome(p.inputs), p.intent) <=>
              LET then == Rule.then
              IN  /\ p.intent.kind = then.kind
                  /\ p.intent.token = Part(then.token, then.tokenInput, p.inputs, ToText)
                  /\ p.intent.size = Part(then.size, then.sizeInput, p.inputs, ToNum)
                  /\ p.intent.size # NaN
<1>1. p.intent = [kind |-> p.intent.kind, token |-> p.intent.token, size |-> p.intent.size]
  BY VerifiedIntentsAssumption DEF VerifiedIntentsAssumption
<1> QED
  BY <1>1 DEF SameIntent, Outcome

LEMMA AcceptsWhatIsRight ==
    ASSUME GateStoreOK, StoreIsRight, KeptLongEnough, NEW p \in Proposal
    PROVE  Accepts(p) <=> Right(p)
<1> DEFINE ev == p.evidence  then == Rule.then
<1>1. DOMAIN ev = 1..Len(ev) /\ Len(ev) \in Nat
  BY GateFacts
<1>2. Passed(ev) = DOMAIN ev <=> \A i \in DOMAIN ev : Verified(ev, i)
  BY <1>1 DEF Passed
<1>3. (\A i \in DOMAIN ev : Verified(ev, i)) <=>
        /\ \A i, j \in DOMAIN ev : ev[i].nonce = ev[j].nonce => i = j
        /\ \A i \in DOMAIN ev : /\ Trusted(ev[i]) /\ Authentic(ev[i]) /\ ~Stale(ev[i])
                                 /\ ev[i].nonce \notin spent
  <2>1. (\A i \in DOMAIN ev : \A j \in 1..(i - 1) : ev[j].nonce # ev[i].nonce) <=>
            \A i, j \in DOMAIN ev : ev[i].nonce = ev[j].nonce => i = j
    <3>1. \A i, j \in DOMAIN ev : i = j \/ j \in 1..(i - 1) \/ i \in 1..(j - 1)
      BY <1>1
    <3>2. \A i \in DOMAIN ev : \A j \in 1..(i - 1) : j \in DOMAIN ev /\ j # i
      BY <1>1
    <3> QED
      BY <3>1, <3>2, Zenon
  <2> QED
    BY <2>1, VerifiedIsNew
<1>4. (\A input \in Rule.requires : Backed(ev, input, p.inputs[input])) <=>
        \A input \in Rule.requires :
            \E i \in DOMAIN ev :
                p.inputs[input] # None /\ ev[i].says[input] = p.inputs[input]
  BY DEF Backed
<1>5. p.intent.token = Part(then.token, then.tokenInput, p.inputs, ToText) <=>
        \/ p.intent.token = then.token /\ (then.token # None \/ then.tokenInput = None)
        \/ then.token = None /\ then.tokenInput # None
           /\ p.intent.token = ToText(p.inputs[then.tokenInput])
  BY DEF Part
<1>6. p.intent.size = Part(then.size, then.sizeInput, p.inputs, ToNum) <=>
        \/ p.intent.size = then.size /\ (then.size # None \/ then.sizeInput = None)
        \/ then.size = None /\ then.sizeInput # None
           /\ p.intent.size = ToNum(p.inputs[then.sizeInput])
  BY DEF Part
<1> QED
  BY <1>2, <1>3, <1>4, <1>5, <1>6, OutcomeParts DEF Accepts, Right

\* "It accepts only if the rule, run on AUTHENTICATED inputs, produces this exact
\* intent" (signer/server.js:283): the gate accepts exactly the trades that the
\* rule on file yields from inputs backed by evidence that is trusted, fresh and
\* not examined before, for every rule, set of keys and order of proposals.
THEOREM GateDecidesRight == GateSpec => []GateIsRight
<1>1. GateInv => GateIsRight
  BY AcceptsWhatIsRight DEF GateInv, GateIsRight
<1> QED
  BY <1>1, GateAlways, PTL
=============================================================================
