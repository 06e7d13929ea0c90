------------------------ MODULE HelperAuthorityProofs ------------------------
(***************************************************************************)
(* Machine-checked proofs about HelperAuthority, for every set of          *)
(* generations and nonces and every bound.                                 *)
(***************************************************************************)
EXTENDS HelperAuthority, HelperStoreProofs

\* The inductive invariant: the store is typed, accepted by a restart and exact.
\* Restorable is what makes the rest inductive: an acknowledgement in the store rests on
\* a row that no later retrieval replaces, and the live credential is not a retired one.
Inv ==
    /\ Good(store)
    /\ permits \subseteq Permits
    /\ shown \subseteq (Nonces \X Gens \X Credentials)
    /\ now \in 0..Horizon

\* The empty store of a fresh port satisfies the invariant.
LEMMA InitInv == Init => Inv
BY EmptyGood, HelperAssumption DEF Init, Inv

\* A minted permit is a permit.
LEMMA PermitTyped ==
    \A n \in Nonces, g \in Gens, c \in Credentials, p \in {"Fresh", "ExactReplay"} :
        PermitOf(n, g, c, p) \in Permits
BY DEF PermitOf, Permits

\* Every call keeps the invariant: by the lemma about its store, or because it leaves
\* the store alone.
LEMMA NextInv ==
    ASSUME Inv, [Next]_vars
    PROVE  Inv'
<1> USE DEF Inv
<1>1. ASSUME NEW g \in Gens, PersistArm(g) PROVE Inv'
  BY <1>1, ArmAndFactsGood DEF PersistArm
<1>2. ASSUME NEW g \in Gens, NEW proved \in Cursors, AdmitClaim(g, proved) PROVE Inv'
  BY <1>2, AdmittedGood DEF AdmitClaim
<1>3. ASSUME NEW g \in Gens, RevokeControllerAttachment(g) PROVE Inv'
  BY <1>3, ArmAndFactsGood DEF RevokeControllerAttachment
<1>4. ASSUME NEW g \in Gens, NEW f \in Facts, RecordNativeTurnFact(g, f) PROVE Inv'
  BY <1>4, ArmAndFactsGood DEF RecordNativeTurnFact
<1>5. ASSUME NEW g \in Gens, TryRearmJoin(g) PROVE Inv'
  BY <1>5, RearmedGood DEF TryRearmJoin
<1>6. ASSUME NEW g \in Gens, NEW c \in Credentials, NEW lease \in 1..Horizon,
             NEW operations \in Operations, PersistHelperGrant(g, c, lease, operations)
      PROVE  Inv'
  <2> DEFINE grant == [cred |-> c, lease |-> lease, operations |-> operations,
                       revoked |-> FALSE]
  <2>1. grant \in Grants BY DEF Grants
  <2>2. MintOk(store, g, grant, now) /\ store' = Minted(store, g, grant)
    BY <1>6 DEF PersistHelperGrant
  <2>3. Good(store') BY <2>1, <2>2, MintedGood
  <2> QED BY <1>6, <2>3 DEF PersistHelperGrant
<1>7. ASSUME NEW g \in Gens, NEW c \in Credentials, RevokeHelperGrant(g, c) PROVE Inv'
  BY <1>7, GrantRevokedGood DEF RevokeHelperGrant
<1>8. ASSUME NEW g \in Gens, NEW c \in Credentials, NEW n \in Nonces, RecordRetrieve(n, g, c)
      PROVE  Inv'
  BY <1>8, RetrievedGood, PermitTyped DEF RecordRetrieve
<1>9. ASSUME NEW g \in Gens, NEW c \in Credentials, NEW n \in Nonces, ReplayRetrieve(n, g, c)
      PROVE  Inv'
  BY <1>9, PermitTyped DEF ReplayRetrieve
<1>10. ASSUME NEW g \in Gens, NEW c \in Credentials, NEW n \in Nonces, NEW retrieval \in Nonces,
              NEW cursor \in Cursors, AcknowledgeRetrievedBatch(n, g, c, retrieval, cursor)
       PROVE  Inv'
  BY <1>10, AcknowledgedGood DEF AcknowledgeRetrievedBatch
<1>11. ASSUME NEW permit \in permits, MaterializeClaimedBatch(permit) PROVE Inv'
  <2>1. permit \in Permits OBVIOUS
  <2>2. <<permit.nonce, permit.attempt, permit.cred>> \in Nonces \X Gens \X Credentials
    BY <2>1 DEF Permits
  <2>3. shown' \subseteq (Nonces \X Gens \X Credentials)
    BY <1>11, <2>2 DEF MaterializeClaimedBatch
  <2> QED BY <1>11, <2>3 DEF MaterializeClaimedBatch
<1>12. CASE Restart BY <1>12 DEF Restart
<1>13. CASE Tick BY <1>13, HelperAssumption DEF Tick
<1>14. CASE UNCHANGED vars BY <1>14 DEF vars
<1> QED
  BY <1>1, <1>2, <1>3, <1>4, <1>5, <1>6, <1>7, <1>8, <1>9, <1>10, <1>11, <1>12, <1>13, <1>14
     DEF Next

\* The invariant holds in every reachable state.
THEOREM InvHolds == Spec => []Inv
BY InitInv, NextInv, PTL DEF Spec

\* Every row keeps its type, whatever calls and restarts come.
THEOREM TypeCorrect == Spec => []TypeOK
<1>1. Inv => TypeOK BY DEF Inv, Good, TypeOK
<1> QED BY <1>1, InvHolds, PTL

\* A restart accepts every store that calls can build: validate_restored_helper_invariants
\* refuses none of them.
THEOREM RestartAccepted == Spec => []AlwaysRestorable
<1>1. Inv => AlwaysRestorable BY DEF Inv, Good, AlwaysRestorable
<1> QED BY <1>1, InvHolds, PTL

\* The handled cursor of an attempt is the furthest one that was acknowledged with the
\* credential of its retrieval.
THEOREM HandledIsFurthest == Spec => []HandledExact
<1>1. Inv => HandledExact
  BY DEF Inv, Good, Covered, CoveredBy, HandledExact, AcksOf
<1> QED BY <1>1, InvHolds, PTL

-----------------------------------------------------------------------------
(* Action properties *)

\* The rows the action properties read stay; facts and withdrawn attachments only grow.
RowsKept ==
    /\ store'.grants = store.grants /\ store'.retired = store.retired
    /\ store'.retrieves = store.retrieves /\ store'.acks = store.acks
    /\ store'.handled = store.handled
    /\ store.revoked \subseteq store'.revoked
    /\ \A g \in Gens : store.facts[g] \subseteq store'.facts[g]

\* All but five of the operations leave those rows and the bodies shown alone.
LEMMA StepShape ==
    ASSUME Inv, [Next]_vars
    PROVE  \/ RowsKept /\ shown' = shown
           \/ \E g \in Gens, c \in Credentials :
                \/ \E lease \in 1..Horizon, operations \in Operations :
                      PersistHelperGrant(g, c, lease, operations)
                \/ RevokeHelperGrant(g, c)
                \/ \E n \in Nonces :
                     \/ RecordRetrieve(n, g, c)
                     \/ \E retrieval \in Nonces, cursor \in Cursors :
                          AcknowledgeRetrievedBatch(n, g, c, retrieval, cursor)
           \/ \E permit \in permits : MaterializeClaimedBatch(permit)
<1>0. store \in Stores BY DEF Inv, Good
<1>1. ASSUME NEW g \in Gens, PersistArm(g) PROVE RowsKept /\ shown' = shown
  BY <1>0, <1>1 DEF PersistArm, Registered, RowsKept, Stores
<1>2. ASSUME NEW g \in Gens, NEW proved \in Cursors, AdmitClaim(g, proved)
      PROVE  RowsKept /\ shown' = shown
  BY <1>0, <1>2 DEF AdmitClaim, Admitted, RowsKept, Stores
<1>3. ASSUME NEW g \in Gens, RevokeControllerAttachment(g) PROVE RowsKept /\ shown' = shown
  BY <1>0, <1>3 DEF RevokeControllerAttachment, AttachmentRevoked, RowsKept, Stores
<1>4. ASSUME NEW g \in Gens, NEW f \in Facts, RecordNativeTurnFact(g, f)
      PROVE  RowsKept /\ shown' = shown
  BY <1>0, <1>4 DEF RecordNativeTurnFact, FactRecorded, RowsKept, Stores
<1>5. ASSUME NEW g \in Gens, TryRearmJoin(g) PROVE RowsKept /\ shown' = shown
  BY <1>0, <1>5 DEF TryRearmJoin, Rearmed, RowsKept, Stores
<1>6. ASSUME NEW g \in Gens, NEW c \in Credentials, NEW n \in Nonces, ReplayRetrieve(n, g, c)
      PROVE  RowsKept /\ shown' = shown
  BY <1>6 DEF ReplayRetrieve, RowsKept
<1>7. Restart => RowsKept /\ shown' = shown BY DEF Restart, RowsKept
<1>8. Tick => RowsKept /\ shown' = shown BY DEF Tick, RowsKept
<1>9. UNCHANGED vars => RowsKept /\ shown' = shown BY DEF vars, RowsKept
<1> QED BY <1>1, <1>2, <1>3, <1>4, <1>5, <1>6, <1>7, <1>8, <1>9 DEF Next

\* A nonce's row is neither replaced nor shared: only a fresh retrieval or a fresh
\* acknowledgement writes one, and both ask that the nonce is free.
THEOREM ReplaysStable == Spec => ReplayStable
<1> DEFINE Kept == \A n \in Nonces :
       /\ store.retrieves[n] # NoRetrieve =>
             store'.retrieves[n] = store.retrieves[n] /\ store'.acks[n] = NoAck
       /\ store.acks[n] # NoAck =>
             store'.acks[n] = store.acks[n] /\ store'.retrieves[n] = NoRetrieve
<1>1. ASSUME Inv, [Next]_vars PROVE Kept
  <2>1. store \in Stores BY <1>1 DEF Inv, Good
  <2>2. \A n \in Nonces : store.retrieves[n] # NoRetrieve => store.acks[n] = NoAck
    BY <1>1 DEF Inv, Good, Restorable, RestorableRetrieves
  <2>3. CASE store'.retrieves = store.retrieves /\ store'.acks = store.acks
    BY <2>2, <2>3
  <2>4. CASE RowsKept BY <2>3, <2>4 DEF RowsKept
  <2>5. ASSUME NEW g \in Gens, NEW c \in Credentials, NEW lease \in 1..Horizon,
               NEW operations \in Operations, PersistHelperGrant(g, c, lease, operations)
        PROVE  Kept
    BY <2>1, <2>3, <2>5 DEF PersistHelperGrant, Minted, Stores
  <2>6. ASSUME NEW g \in Gens, NEW c \in Credentials, RevokeHelperGrant(g, c) PROVE Kept
    BY <2>1, <2>3, <2>6 DEF RevokeHelperGrant, GrantRevoked, Stores
  <2>7. ASSUME NEW g \in Gens, NEW c \in Credentials, NEW n \in Nonces, RecordRetrieve(n, g, c)
        PROVE  Kept
    <3>1. /\ store'.retrieves = [store.retrieves EXCEPT ![n] = Origin(store, g, c)]
          /\ store'.acks = store.acks
      BY <2>1, <2>7 DEF RecordRetrieve, Retrieved, Stores
    <3>2. store.retrieves[n] = NoRetrieve /\ store.acks[n] = NoAck
      BY <2>7 DEF RecordRetrieve, RetrieveFresh, RetrieveOk
    <3> QED BY <2>1, <2>2, <3>1, <3>2 DEF Stores
  <2>8. ASSUME NEW g \in Gens, NEW c \in Credentials, NEW n \in Nonces, NEW retrieval \in Nonces,
               NEW cursor \in Cursors, AcknowledgeRetrievedBatch(n, g, c, retrieval, cursor)
        PROVE  Kept
    <3> DEFINE ack == [attempt |-> g, cred |-> c, retrieval |-> retrieval, cursor |-> cursor]
    <3>1. /\ store'.acks = [store.acks EXCEPT ![n] = ack]
          /\ store'.retrieves = store.retrieves
      BY <2>1, <2>8 DEF AcknowledgeRetrievedBatch, Acknowledged, Stores
    <3>2. store.retrieves[n] = NoRetrieve /\ store.acks[n] = NoAck
      BY <2>8 DEF AcknowledgeRetrievedBatch, AcknowledgeFresh
    <3> QED BY <2>1, <2>2, <3>1, <3>2 DEF Stores
  <2>9. ASSUME NEW permit \in permits, MaterializeClaimedBatch(permit) PROVE Kept
    BY <2>3, <2>9 DEF MaterializeClaimedBatch
  <2> QED BY <1>1, <2>4, <2>5, <2>6, <2>7, <2>8, <2>9, StepShape
<1>2. Inv /\ [Next]_vars => [Kept]_vars BY <1>1
<1> QED BY <1>2, InvHolds, PTL DEF Spec, ReplayStable

\* A closed attempt stays closed: every mint and every fresh use ask that it is open,
\* and the facts and the coverage that closed it only grow.
THEOREM ClosedForGood == Spec => ClosedStaysClosed
<1> DEFINE Kept == \A g \in Gens : Closed(store, g) =>
       /\ Closed(store', g)
       /\ store'.grants[g].cred = store.grants[g].cred
       /\ store'.handled[g] = store.handled[g]
<1>1. ASSUME Inv, [Next]_vars PROVE Kept
  <2>1. store \in Stores BY <1>1 DEF Inv, Good
  <2>2. ASSUME \A h \in Gens : store.facts[h] \subseteq store'.facts[h],
               \A h \in Gens : Closed(store, h) =>
                  /\ store'.grants[h].cred = store.grants[h].cred
                  /\ store'.handled[h] = store.handled[h]
        PROVE  Kept
    BY <2>2 DEF Closed, HandledComplete
  <2>4. CASE RowsKept BY <2>2, <2>4 DEF RowsKept
  <2>5. ASSUME NEW g \in Gens, NEW c \in Credentials, NEW lease \in 1..Horizon,
               NEW operations \in Operations, PersistHelperGrant(g, c, lease, operations)
        PROVE  Kept
    <3> DEFINE grant == [cred |-> c, lease |-> lease, operations |-> operations,
                         revoked |-> FALSE]
    <3>1. MintOk(store, g, grant, now) /\ store' = Minted(store, g, grant)
      BY <2>5 DEF PersistHelperGrant
    <3>2. ~Closed(store, g) BY <3>1 DEF MintOk
    <3> HIDE DEF grant
    <3>3. /\ store'.facts = store.facts /\ store'.handled = store.handled
          /\ store'.grants = [store.grants EXCEPT ![g] = grant]
      BY <2>1, <3>1 DEF Minted, Stores
    <3>4. \A h \in Gens : h # g => store'.grants[h] = store.grants[h]
      BY <2>1, <3>3 DEF Stores
    <3> QED BY <2>2, <3>2, <3>3, <3>4
  <2>6. ASSUME NEW g \in Gens, NEW c \in Credentials, RevokeHelperGrant(g, c) PROVE Kept
    <3>1. /\ store'.facts = store.facts /\ store'.handled = store.handled
          /\ store'.grants = [store.grants EXCEPT ![g].revoked = TRUE]
      BY <2>1, <2>6 DEF RevokeHelperGrant, GrantRevoked, Stores
    <3>2. \A h \in Gens : store'.grants[h].cred = store.grants[h].cred
      <4>1. store.grants[g] \in Grants
        BY <2>1, <2>6 DEF RevokeHelperGrant, RevokeGrantOk, Stores
      <4> QED BY <2>1, <3>1, <4>1 DEF Stores, Grants
    <3> QED BY <2>2, <3>1, <3>2
  <2>7. ASSUME NEW g \in Gens, NEW c \in Credentials, NEW n \in Nonces, RecordRetrieve(n, g, c)
        PROVE  Kept
    <3>1. /\ store'.facts = store.facts /\ store'.handled = store.handled
          /\ store'.grants = store.grants
      BY <2>1, <2>7 DEF RecordRetrieve, Retrieved, Stores
    <3> QED BY <2>2, <3>1
  <2>8. ASSUME NEW g \in Gens, NEW c \in Credentials, NEW n \in Nonces, NEW retrieval \in Nonces,
               NEW cursor \in Cursors, AcknowledgeRetrievedBatch(n, g, c, retrieval, cursor)
        PROVE  Kept
    <3>1. ~Closed(store, g)
      BY <2>8 DEF AcknowledgeRetrievedBatch, AcknowledgeFresh, FreshUse
    <3>2. /\ store'.facts = store.facts /\ store'.grants = store.grants
          /\ \A h \in Gens : h # g => store'.handled[h] = store.handled[h]
      BY <2>1, <2>8 DEF AcknowledgeRetrievedBatch, Acknowledged, Stores
    <3> QED BY <2>2, <3>1, <3>2
  <2>9. ASSUME NEW permit \in permits, MaterializeClaimedBatch(permit) PROVE Kept
    BY <2>2, <2>9 DEF MaterializeClaimedBatch
  <2> QED BY <1>1, <2>4, <2>5, <2>6, <2>7, <2>8, <2>9, StepShape
<1>2. Inv /\ [Next]_vars => [Kept]_vars BY <1>1
<1> QED BY <1>2, InvHolds, PTL DEF Spec, ClosedStaysClosed, Closed, HandledComplete

\* Nothing is authenticated with a withdrawn credential: a retired one is not the live
\* one, and a revoked one is refused.
LEMMA WithdrawnUnusable ==
    ASSUME Inv, NEW g \in Gens, NEW c \in Credentials, Withdrawn(store, g, c)
    PROVE  ~(Authentic(store, g, c) /\ Unrevoked(store, g))
<1>1. <<g, store.grants[g].cred>> \notin store.retired
  BY DEF Inv, Good, Restorable, RestorableGrants
<1> QED BY <1>1 DEF Withdrawn, Authentic, Unrevoked

\* What was done with a credential changes with the rows and the bodies shown only.
LEMMA UsesKept ==
    ASSUME NEW g \in Gens, NEW c \in Credentials,
           \A n \in Nonces :
              /\ (store'.retrieves[n].attempt = g /\ store'.retrieves[n].cred = c)
                 <=> (store.retrieves[n].attempt = g /\ store.retrieves[n].cred = c)
              /\ (store'.acks[n].attempt = g /\ store'.acks[n].cred = c)
                 <=> (store.acks[n].attempt = g /\ store.acks[n].cred = c)
              /\ <<n, g, c>> \in shown' <=> <<n, g, c>> \in shown
    PROVE  UsesOf(g, c)' = UsesOf(g, c)
BY DEF UsesOf

\* A withdrawn credential stays withdrawn and unused: no mint replaces a revoked grant or
\* brings a retired credential back, and every use, replays and permits included, asks
\* for the live credential, unrevoked.
THEOREM WithdrawnForGood == Spec => WithdrawalSticks
<1> DEFINE Kept == \A g \in Gens, c \in Credentials :
       Withdrawn(store, g, c) => /\ Withdrawn(store', g, c)
                                 /\ UsesOf(g, c)' = UsesOf(g, c)
<1>1. ASSUME Inv, [Next]_vars, NEW h \in Gens, NEW d \in Credentials, Withdrawn(store, h, d)
      PROVE  Withdrawn(store', h, d) /\ UsesOf(h, d)' = UsesOf(h, d)
  <2>1. store \in Stores BY <1>1 DEF Inv, Good
  <2>2. 0 \notin Gens /\ 0 \notin Credentials BY HelperAssumption DEF Credentials
  <2>3. CASE RowsKept /\ shown' = shown
    <3>1. UsesOf(h, d)' = UsesOf(h, d) BY <2>3, UsesKept DEF RowsKept
    <3> QED BY <1>1, <2>3, <3>1 DEF RowsKept, Withdrawn
  <2>4. ASSUME NEW g \in Gens, NEW c \in Credentials, NEW lease \in 1..Horizon,
               NEW operations \in Operations, PersistHelperGrant(g, c, lease, operations)
        PROVE  Withdrawn(store', h, d) /\ UsesOf(h, d)' = UsesOf(h, d)
    <3> DEFINE grant == [cred |-> c, lease |-> lease, operations |-> operations,
                         revoked |-> FALSE]
    <3>1. MintOk(store, g, grant, now) /\ store' = Minted(store, g, grant) /\ shown' = shown
      BY <2>4 DEF PersistHelperGrant
    <3>2. grant.revoked = FALSE OBVIOUS
    <3> HIDE DEF grant
    <3>3. /\ store'.retrieves = store.retrieves /\ store'.acks = store.acks
          /\ store'.revoked = store.revoked /\ store.retired \subseteq store'.retired
          /\ store'.grants = [store.grants EXCEPT ![g] = grant]
      BY <2>1, <3>1 DEF Minted, Stores
    <3>4. UsesOf(h, d)' = UsesOf(h, d) BY <3>1, <3>3, UsesKept
    <3>5. CASE <<h, d>> \in store.retired BY <3>3, <3>4, <3>5 DEF Withdrawn
    <3>6. CASE h # g BY <1>1, <2>1, <3>3, <3>4, <3>6 DEF Withdrawn, Stores
    <3>7. CASE h = g /\ <<h, d>> \notin store.retired
      <4>1. store.grants[g].cred = d /\ store.grants[g].revoked
        BY <1>1, <3>1, <3>7 DEF Withdrawn, MintOk
      <4>2. store.grants[g] # NoGrant BY <2>2, <4>1 DEF NoGrant
      <4>3. FALSE BY <3>1, <3>2, <4>1, <4>2 DEF MintOk, Mintable
      <4> QED BY <4>3
    <3> QED BY <3>5, <3>6, <3>7
  <2>5. ASSUME NEW g \in Gens, NEW c \in Credentials, RevokeHelperGrant(g, c)
        PROVE  Withdrawn(store', h, d) /\ UsesOf(h, d)' = UsesOf(h, d)
    <3>1. /\ store'.retrieves = store.retrieves /\ store'.acks = store.acks
          /\ store'.revoked = store.revoked /\ store'.retired = store.retired
          /\ store'.grants = [store.grants EXCEPT ![g].revoked = TRUE] /\ shown' = shown
      BY <2>1, <2>5 DEF RevokeHelperGrant, GrantRevoked, Stores
    <3>2. UsesOf(h, d)' = UsesOf(h, d) BY <3>1, UsesKept
    <3>3. store.grants[g] \in Grants
      BY <2>1, <2>5 DEF RevokeHelperGrant, RevokeGrantOk, Stores
    <3>4. /\ store'.grants[h].cred = store.grants[h].cred
          /\ store.grants[h].revoked => store'.grants[h].revoked
      BY <2>1, <3>1, <3>3 DEF Stores, Grants
    <3> QED BY <1>1, <3>1, <3>2, <3>4 DEF Withdrawn
  <2>6. ASSUME NEW g \in Gens, NEW c \in Credentials, NEW n \in Nonces, RecordRetrieve(n, g, c)
        PROVE  Withdrawn(store', h, d) /\ UsesOf(h, d)' = UsesOf(h, d)
    <3>1. /\ store'.retrieves = [store.retrieves EXCEPT ![n] = Origin(store, g, c)]
          /\ store'.acks = store.acks /\ store'.grants = store.grants
          /\ store'.revoked = store.revoked /\ store'.retired = store.retired
          /\ shown' = shown
      BY <2>1, <2>6 DEF RecordRetrieve, Retrieved, Stores
    <3>2. /\ store.retrieves[n] = NoRetrieve
          /\ Authentic(store, g, c) /\ Unrevoked(store, g)
      BY <2>6 DEF RecordRetrieve, RetrieveFresh, RetrieveOk
    <3>3. ~(h = g /\ d = c) BY <1>1, <3>2, WithdrawnUnusable
    <3>4. store'.retrieves[n] = Origin(store, g, c) BY <2>1, <3>1 DEF Stores
    <3>5. \A m \in Nonces : m # n => store'.retrieves[m] = store.retrieves[m]
      BY <2>1, <3>1 DEF Stores
    <3>6. UsesOf(h, d)' = UsesOf(h, d)
      BY <2>2, <3>1, <3>2, <3>3, <3>4, <3>5, UsesKept DEF Origin, NoRetrieve
    <3> QED BY <1>1, <3>1, <3>6 DEF Withdrawn
  <2>7. ASSUME NEW g \in Gens, NEW c \in Credentials, NEW n \in Nonces, NEW retrieval \in Nonces,
               NEW cursor \in Cursors, AcknowledgeRetrievedBatch(n, g, c, retrieval, cursor)
        PROVE  Withdrawn(store', h, d) /\ UsesOf(h, d)' = UsesOf(h, d)
    <3> DEFINE ack == [attempt |-> g, cred |-> c, retrieval |-> retrieval, cursor |-> cursor]
    <3>1. /\ store'.acks = [store.acks EXCEPT ![n] = ack]
          /\ store'.retrieves = store.retrieves /\ store'.grants = store.grants
          /\ store'.revoked = store.revoked /\ store'.retired = store.retired
          /\ shown' = shown
      BY <2>1, <2>7 DEF AcknowledgeRetrievedBatch, Acknowledged, Stores
    <3>2. /\ store.acks[n] = NoAck
          /\ Authentic(store, g, c) /\ Unrevoked(store, g)
      BY <2>7 DEF AcknowledgeRetrievedBatch, AcknowledgeFresh
    <3>3. ~(h = g /\ d = c) BY <1>1, <3>2, WithdrawnUnusable
    <3>4. store'.acks[n].attempt = g /\ store'.acks[n].cred = c BY <2>1, <3>1 DEF Stores
    <3>5. \A m \in Nonces : m # n => store'.acks[m] = store.acks[m]
      BY <2>1, <3>1 DEF Stores
    <3> HIDE DEF ack
    <3>6. UsesOf(h, d)' = UsesOf(h, d)
      BY <2>2, <3>1, <3>2, <3>3, <3>4, <3>5, UsesKept DEF NoAck
    <3> QED BY <1>1, <3>1, <3>6 DEF Withdrawn
  <2>8. ASSUME NEW permit \in permits, MaterializeClaimedBatch(permit)
        PROVE  Withdrawn(store', h, d) /\ UsesOf(h, d)' = UsesOf(h, d)
    <3>1. store' = store BY <2>8 DEF MaterializeClaimedBatch
    <3>2. <<h, d>> = <<permit.attempt, permit.cred>> => ~MaterializeOk(store, permit, now)
      BY <1>1, WithdrawnUnusable DEF MaterializeOk
    <3>3. \A n \in Nonces : <<n, h, d>> \in shown' <=> <<n, h, d>> \in shown
      BY <2>8, <3>2 DEF MaterializeClaimedBatch
    <3>4. UsesOf(h, d)' = UsesOf(h, d) BY <3>1, <3>3, UsesKept
    <3> QED BY <1>1, <3>1, <3>4
  <2> QED BY <1>1, <2>3, <2>4, <2>5, <2>6, <2>7, <2>8, StepShape
<1>2. Inv /\ [Next]_vars => [Kept]_vars BY <1>1
<1> QED BY <1>2, InvHolds, PTL DEF Spec, WithdrawalSticks, Withdrawn, UsesOf

\* A stale attempt has no fresh use left.
LEMMA StaleRefused ==
    ASSUME Inv, NEW g \in Gens, Stale(g), Authentic(store, g, store.grants[g].cred)
    PROVE  ~FreshUse(store, g, now)
<1>1. store.grants[g] \in Grants BY DEF Inv, Good, Stores, Authentic
<1>2. store.grants[g].lease \in Nat /\ now \in Nat
  BY <1>1, HelperAssumption DEF Inv, Grants
<1> QED BY <1>2 DEF Stale, FreshUse, Current

\* A stale attempt only repeats: what is recorded for it, and what a fresh permit of it
\* shows, would be a fresh use.
THEOREM StaleRepeats == Spec => StaleOnlyReplays
<1> DEFINE Kept == \A g \in Gens, c \in Credentials : Stale(g) =>
          /\ UsesOf(g, c)'.retrieves = UsesOf(g, c).retrieves
          /\ UsesOf(g, c)'.acks = UsesOf(g, c).acks
          /\ UsesOf(g, c)'.shown # UsesOf(g, c).shown =>
                \E permit \in permits \ permits' : permit.provenance = "ExactReplay"
<1> DEFINE Same(h, d) == UsesOf(h, d)' = UsesOf(h, d)
<1>1. ASSUME Inv, [Next]_vars, NEW h \in Gens, NEW d \in Credentials, Stale(h)
      PROVE  /\ UsesOf(h, d)'.retrieves = UsesOf(h, d).retrieves
             /\ UsesOf(h, d)'.acks = UsesOf(h, d).acks
             /\ UsesOf(h, d)'.shown # UsesOf(h, d).shown =>
                   \E permit \in permits \ permits' : permit.provenance = "ExactReplay"
  <2>1. store \in Stores BY <1>1 DEF Inv, Good
  <2>2. 0 \notin Gens BY HelperAssumption
  <2>3. RowsKept /\ shown' = shown => Same(h, d) BY UsesKept DEF RowsKept
  <2>4. ASSUME NEW g \in Gens, NEW c \in Credentials, NEW lease \in 1..Horizon,
               NEW operations \in Operations, PersistHelperGrant(g, c, lease, operations)
        PROVE  Same(h, d)
    BY <2>1, <2>4, UsesKept DEF PersistHelperGrant, Minted, Stores
  <2>5. ASSUME NEW g \in Gens, NEW c \in Credentials, RevokeHelperGrant(g, c)
        PROVE  Same(h, d)
    BY <2>1, <2>5, UsesKept DEF RevokeHelperGrant, GrantRevoked, Stores
  <2>6. ASSUME NEW g \in Gens, NEW c \in Credentials, NEW n \in Nonces, RecordRetrieve(n, g, c)
        PROVE  Same(h, d)
    <3>1. /\ store'.retrieves = [store.retrieves EXCEPT ![n] = Origin(store, g, c)]
          /\ store'.acks = store.acks /\ shown' = shown
      BY <2>1, <2>6 DEF RecordRetrieve, Retrieved, Stores
    <3>2. /\ store.retrieves[n] = NoRetrieve /\ FreshUse(store, g, now)
          /\ Authentic(store, g, store.grants[g].cred)
      BY <2>6 DEF RecordRetrieve, RetrieveFresh, RetrieveOk, Authentic
    <3>3. h # g BY <1>1, <3>2, StaleRefused
    <3>4. store'.retrieves[n] = Origin(store, g, c) BY <2>1, <3>1 DEF Stores
    <3>5. \A m \in Nonces : m # n => store'.retrieves[m] = store.retrieves[m]
      BY <2>1, <3>1 DEF Stores
    <3> QED
      BY <2>2, <3>1, <3>2, <3>3, <3>4, <3>5, UsesKept DEF Origin, NoRetrieve
  <2>7. ASSUME NEW g \in Gens, NEW c \in Credentials, NEW n \in Nonces, NEW retrieval \in Nonces,
               NEW cursor \in Cursors, AcknowledgeRetrievedBatch(n, g, c, retrieval, cursor)
        PROVE  Same(h, d)
    <3> DEFINE ack == [attempt |-> g, cred |-> c, retrieval |-> retrieval, cursor |-> cursor]
    <3>1. /\ store'.acks = [store.acks EXCEPT ![n] = ack]
          /\ store'.retrieves = store.retrieves /\ shown' = shown
      BY <2>1, <2>7 DEF AcknowledgeRetrievedBatch, Acknowledged, Stores
    <3>2. /\ store.acks[n] = NoAck /\ FreshUse(store, g, now)
          /\ Authentic(store, g, store.grants[g].cred)
      BY <2>7 DEF AcknowledgeRetrievedBatch, AcknowledgeFresh, Authentic
    <3>3. h # g BY <1>1, <3>2, StaleRefused
    <3>4. store'.acks[n].attempt = g BY <2>1, <3>1 DEF Stores
    <3>5. \A m \in Nonces : m # n => store'.acks[m] = store.acks[m]
      BY <2>1, <3>1 DEF Stores
    <3> HIDE DEF ack
    <3> QED BY <2>2, <3>1, <3>2, <3>3, <3>4, <3>5, UsesKept DEF NoAck
  <2>8. ASSUME NEW permit \in permits, MaterializeClaimedBatch(permit)
        PROVE  \/ Same(h, d)
               \/ permit \in permits \ permits' /\ permit.provenance = "ExactReplay"
    <3>1. store' = store /\ permit \in permits \ permits'
      BY <2>8 DEF MaterializeClaimedBatch
    <3>2. CASE permit.attempt = h /\ MaterializeOk(store, permit, now)
      <4>1. Authentic(store, h, store.grants[h].cred)
        BY <3>2 DEF MaterializeOk, Authentic
      <4>2. permit.provenance # "Fresh" BY <1>1, <3>2, <4>1, StaleRefused DEF MaterializeOk
      <4>3. permit.provenance \in {"Fresh", "ExactReplay"} BY <1>1 DEF Inv, Permits
      <4> QED BY <3>1, <4>2, <4>3
    <3>3. CASE ~(permit.attempt = h /\ MaterializeOk(store, permit, now))
      <4>1. \A n \in Nonces : <<n, h, d>> \in shown' <=> <<n, h, d>> \in shown
        BY <2>8, <3>3 DEF MaterializeClaimedBatch
      <4> QED BY <3>1, <4>1, UsesKept
    <3> QED BY <3>2, <3>3
  <2>9. ASSUME NEW permit \in permits, MaterializeClaimedBatch(permit)
        PROVE  /\ UsesOf(h, d)'.retrieves = UsesOf(h, d).retrieves
               /\ UsesOf(h, d)'.acks = UsesOf(h, d).acks
    BY <2>9 DEF MaterializeClaimedBatch, UsesOf
  <2>10. CASE Same(h, d) BY <2>10
  <2>11. CASE \E permit \in permits : MaterializeClaimedBatch(permit)
    BY <2>8, <2>9, <2>10, <2>11
  <2> HIDE DEF Same
  <2> QED BY <1>1, <2>3, <2>4, <2>5, <2>6, <2>7, <2>10, <2>11, StepShape
<1>2. Inv /\ [Next]_vars => [Kept]_vars BY <1>1
<1> QED BY <1>2, InvHolds, PTL DEF Spec, StaleOnlyReplays, Stale, UsesOf, Closed, HandledComplete

\* What is over stays over, of credentials and of attempts.
THEOREM NothingReopens == Spec => NeverReopened
BY WithdrawnForGood, ClosedForGood DEF NeverReopened

\* A retry or a permit that comes late only repeats what was recorded in time.
THEOREM RetriesRepeat == Spec => RetriesOnlyRepeat
BY StaleRepeats, ReplaysStable DEF RetriesOnlyRepeat
=============================================================================
