-------------------------- MODULE HelperStoreProofs --------------------------
(***************************************************************************)
(* Every operation of the helper sections leaves a store that a restart    *)
(* accepts and whose handled cursors are exact, for all sets of            *)
(* generations and nonces and all bounds.                                  *)
(***************************************************************************)
EXTENDS HelperStore, TLAPS

\* HandledExact of HelperAuthority, of the sections it reads.
CoveredBy(acks, retrieves, handled) ==
    \A g \in Gens :
        /\ \A n \in Nonces : acks[n].attempt = g =>
              /\ acks[n].cursor <= handled[g]
              /\ retrieves[acks[n].retrieval].attempt = g
              /\ retrieves[acks[n].retrieval].cred = acks[n].cred
        /\ handled[g] # 0 =>
              \E n \in Nonces : acks[n].attempt = g /\ acks[n].cursor = handled[g]
Covered(s) == CoveredBy(s.acks, s.retrieves, s.handled)

Good(s) == s \in Stores /\ Restorable(s) /\ Covered(s)

-----------------------------------------------------------------------------
(* Operations that leave credentials, rows, coverage and joins alone *)

\* The sections the invariant reads are the same and the turn facts only grow.
SameRows(s, t) ==
    /\ t.claims = s.claims /\ t.grants = s.grants /\ t.retired = s.retired
    /\ t.retrieves = s.retrieves /\ t.acks = s.acks
    /\ t.handled = s.handled /\ t.rearmed = s.rearmed
    /\ \A g \in Gens : s.facts[g] \subseteq t.facts[g]

\* Such an operation keeps the store good: more facts never undo a join.
LEMMA SameRowsGood ==
    ASSUME NEW s, NEW t, Good(s), t \in Stores, SameRows(s, t)
    PROVE  Good(t)
<1>1. s.rearmed \subseteq Gens BY DEF Good, Stores
<1>2. RestorableGrants(t) /\ RestorableRetrieves(t) /\ RestorableAcks(t) /\ RestorableHandled(t)
  BY DEF Good, SameRows, Restorable, RestorableGrants, RestorableRetrieves, RestorableAcks,
         RestorableHandled
<1>3. RestorableJoins(t)
  BY <1>1 DEF Good, SameRows, Restorable, RestorableJoins, RearmResult, HandledComplete
<1>4. Covered(s) BY DEF Good
<1>5. t.acks = s.acks /\ t.handled = s.handled /\ t.retrieves = s.retrieves BY DEF SameRows
<1>6. Covered(t) BY <1>4, <1>5 DEF Covered
<1> QED BY <1>2, <1>3, <1>6 DEF Good, Restorable

\* The empty store is good.
LEMMA EmptyGood == Good(EmptyStore)
<1>1. EmptyStore \in Stores
  BY HelperAssumption DEF EmptyStore, Stores
<1>2. 0 \notin Gens BY HelperAssumption
<1>3. Restorable(EmptyStore)
  BY DEF EmptyStore, Restorable, RestorableGrants, RestorableRetrieves, RestorableAcks,
         RestorableHandled, RestorableJoins
<1>4. Covered(EmptyStore)
  BY <1>2 DEF EmptyStore, Covered, CoveredBy, NoAck
<1> QED BY <1>1, <1>3, <1>4 DEF Good

\* Registration, revocation of the attachment and turn facts keep the store good.
LEMMA ArmAndFactsGood ==
    ASSUME NEW s, Good(s), NEW g \in Gens
    PROVE  /\ Good(Registered(s, g))
           /\ Good(AttachmentRevoked(s, g))
           /\ \A f \in Facts : Good(FactRecorded(s, g, f))
<1>1. s \in Stores BY DEF Good
<1>2. Registered(s, g) \in Stores /\ SameRows(s, Registered(s, g))
  BY <1>1 DEF Registered, Stores, SameRows
<1>3. AttachmentRevoked(s, g) \in Stores /\ SameRows(s, AttachmentRevoked(s, g))
  BY <1>1 DEF AttachmentRevoked, Stores, SameRows
<1>4. ASSUME NEW f \in Facts
      PROVE  FactRecorded(s, g, f) \in Stores /\ SameRows(s, FactRecorded(s, g, f))
  BY <1>1 DEF FactRecorded, Stores, SameRows
<1> QED BY <1>2, <1>3, <1>4, SameRowsGood

\* An attempt is admitted once, so what was proved for an earlier claim stays proved.
LEMMA AdmittedGood ==
    ASSUME NEW s, Good(s), NEW g \in Gens, NEW proved \in Cursors, AdmitOk(s, g)
    PROVE  Good(Admitted(s, g, proved))
<1> DEFINE t == Admitted(s, g, proved)
<1>1. s \in Stores BY DEF Good
<1>2. t \in Stores BY <1>1, HelperAssumption DEF Admitted, Stores, Cursors
<1>3. /\ t.claims = [s.claims EXCEPT ![g] = proved] /\ t.facts = s.facts
      /\ t.grants = s.grants /\ t.retired = s.retired /\ t.retrieves = s.retrieves
      /\ t.acks = s.acks /\ t.handled = s.handled /\ t.rearmed = s.rearmed
  BY <1>1 DEF Admitted, Stores
<1>4. \A h \in Gens : s.claims[h] # 0 => t.claims[h] = s.claims[h]
  BY <1>1, <1>3 DEF AdmitOk, Stores
<1>5. RestorableGrants(t) BY <1>3 DEF Good, Restorable, RestorableGrants
<1>6. RestorableRetrieves(t)
  BY <1>1, <1>3, <1>4 DEF Good, Restorable, RestorableRetrieves, Stores, Retrieves
<1>7. RestorableAcks(t)
  BY <1>1, <1>3, <1>4 DEF Good, Restorable, RestorableAcks, Stores, Acks
<1>8. RestorableHandled(t)
  BY <1>3, <1>4 DEF Good, Restorable, RestorableHandled
<1>9. RestorableJoins(t)
  BY <1>1, <1>3, <1>4 DEF Good, Restorable, RestorableJoins, RearmResult, HandledComplete, Stores
<1>10. Covered(t) BY <1>3 DEF Good, Covered
<1> HIDE DEF t
<1> QED BY <1>2, <1>5, <1>6, <1>7, <1>8, <1>9, <1>10 DEF Good, Restorable, t

-----------------------------------------------------------------------------
(* Credentials *)

\* A change of the grants alone keeps the store good if no live credential is retired.
LEMMA GrantsGood ==
    ASSUME NEW s, NEW t, Good(s), t \in Stores, RestorableGrants(t),
           t.claims = s.claims, t.facts = s.facts, t.retrieves = s.retrieves,
           t.acks = s.acks, t.handled = s.handled, t.rearmed = s.rearmed
    PROVE  Good(t)
<1>1. RestorableRetrieves(t) /\ RestorableAcks(t) /\ RestorableHandled(t)
  BY DEF Good, Restorable, RestorableRetrieves, RestorableAcks, RestorableHandled
<1>2. RestorableJoins(t)
  BY DEF Good, Restorable, RestorableJoins, RearmResult, HandledComplete
<1>3. Covered(s) BY DEF Good
<1>4. Covered(t) BY <1>3 DEF Covered
<1> QED BY <1>1, <1>2, <1>4 DEF Good, Restorable

\* A rotation retires a credential that is not minted again: a grant that names a
\* retired one is refused.
LEMMA MintedGood ==
    ASSUME NEW s, Good(s), NEW g \in Gens, NEW grant \in Grants, NEW now,
           MintOk(s, g, grant, now)
    PROVE  Good(Minted(s, g, grant))
<1> DEFINE t == Minted(s, g, grant)
<1>1. s \in Stores BY DEF Good
<1>2. Replaced(s, g, grant) \subseteq Gens \X Credentials
  <2>1. CASE s.grants[g] = NoGrant BY <2>1 DEF Replaced
  <2>2. CASE s.grants[g] # NoGrant
    <3>1. s.grants[g] \in Grants BY <1>1, <2>2 DEF Stores
    <3> QED BY <3>1 DEF Replaced, Grants
  <2> QED BY <2>1, <2>2
<1>3. t \in Stores BY <1>1, <1>2 DEF Minted, Stores
<1>4. /\ t.grants = [s.grants EXCEPT ![g] = grant]
      /\ t.retired = s.retired \cup Replaced(s, g, grant)
      /\ t.claims = s.claims /\ t.facts = s.facts /\ t.retrieves = s.retrieves
      /\ t.acks = s.acks /\ t.handled = s.handled /\ t.rearmed = s.rearmed
  BY <1>1 DEF Minted, Stores
<1>5. ASSUME NEW h \in Gens PROVE <<h, t.grants[h].cred>> \notin t.retired
  <2>1. <<h, s.grants[h].cred>> \notin s.retired
    BY DEF Good, Restorable, RestorableGrants
  <2>2. CASE h = g
    <3>1. <<g, grant.cred>> \notin s.retired BY DEF MintOk
    <3>2. <<g, grant.cred>> \notin Replaced(s, g, grant) BY DEF MintOk, Mintable, Replaced
    <3>3. t.grants[h] = grant BY <1>1, <1>4, <2>2 DEF Stores
    <3> QED BY <1>4, <2>2, <3>1, <3>2, <3>3
  <2>3. CASE h # g
    <3>1. <<h, s.grants[h].cred>> \notin Replaced(s, g, grant) BY <2>3 DEF Replaced
    <3>2. t.grants[h] = s.grants[h] BY <1>1, <1>4, <2>3 DEF Stores
    <3> QED BY <1>4, <2>1, <3>1, <3>2
  <2> QED BY <2>2, <2>3
<1>6. RestorableGrants(t) BY <1>5 DEF RestorableGrants
<1> QED BY <1>3, <1>4, <1>6, GrantsGood

\* A revocation changes no credential.
LEMMA GrantRevokedGood ==
    ASSUME NEW s, Good(s), NEW g \in Gens, NEW c, RevokeGrantOk(s, g, c)
    PROVE  Good(GrantRevoked(s, g))
<1> DEFINE t == GrantRevoked(s, g)
<1>1. s \in Stores BY DEF Good
<1>2. s.grants[g] \in Grants BY <1>1 DEF Stores, RevokeGrantOk
<1>3. [s.grants[g] EXCEPT !.revoked = TRUE] \in Grants BY <1>2 DEF Grants
<1>4. t \in Stores BY <1>1, <1>3 DEF GrantRevoked, Stores
<1>5. /\ t.grants = [s.grants EXCEPT ![g] = [s.grants[g] EXCEPT !.revoked = TRUE]]
      /\ t.retired = s.retired
      /\ t.claims = s.claims /\ t.facts = s.facts /\ t.retrieves = s.retrieves
      /\ t.acks = s.acks /\ t.handled = s.handled /\ t.rearmed = s.rearmed
  BY <1>1 DEF GrantRevoked, Stores
<1>6. \A h \in Gens : t.grants[h].cred = s.grants[h].cred
  BY <1>1, <1>2, <1>5 DEF Stores, Grants
<1>7. RestorableGrants(t) BY <1>5, <1>6 DEF Good, Restorable, RestorableGrants
<1> QED BY <1>4, <1>5, <1>7, GrantsGood

-----------------------------------------------------------------------------
(* Retrievals and acknowledgements *)

\* The new row is under a nonce that no row has, so no acknowledgement rests on the
\* row it replaces.
LEMMA RetrievedGood ==
    ASSUME NEW s, Good(s), NEW n \in Nonces, NEW g \in Gens, NEW c \in Credentials, NEW now,
           RetrieveFresh(s, n, g, c, now)
    PROVE  Good(Retrieved(s, n, g, c))
<1> DEFINE t == Retrieved(s, n, g, c)
           row == Origin(s, g, c)
<1>1. s \in Stores BY DEF Good
<1>2. /\ s.claims[g] # 0 /\ s.acks[n] = NoAck /\ s.retrieves[n] = NoRetrieve
      /\ s.grants[g] \in Grants /\ Allows(s.grants[g].operations, "retrieve")
  BY <1>1 DEF RetrieveFresh, RetrieveOk, Authentic, Stores
<1>3. row \in Retrieves BY <1>2 DEF Origin, Retrieves, Grants
<1>4. t \in Stores BY <1>1, <1>3 DEF Retrieved, Stores
<1>5. /\ t.retrieves = [s.retrieves EXCEPT ![n] = row]
      /\ t.claims = s.claims /\ t.facts = s.facts /\ t.grants = s.grants
      /\ t.retired = s.retired /\ t.acks = s.acks /\ t.handled = s.handled
      /\ t.rearmed = s.rearmed
  BY <1>1 DEF Retrieved, Stores
<1>6. RestorableGrants(t) BY <1>5 DEF Good, Restorable, RestorableGrants
<1>7. RestorableRetrieves(t)
  <2> SUFFICES ASSUME NEW m \in Nonces, t.retrieves[m] # NoRetrieve
               PROVE  /\ t.acks[m] = NoAck
                      /\ t.claims[t.retrieves[m].attempt] # 0
                      /\ Allows(t.retrieves[m].operations, "retrieve")
    BY DEF RestorableRetrieves
  <2>1. CASE m = n
    <3>1. t.retrieves[m] = row BY <1>1, <1>5, <2>1 DEF Stores
    <3> QED BY <1>2, <1>5, <2>1, <3>1 DEF Origin
  <2>2. CASE m # n
    <3>1. t.retrieves[m] = s.retrieves[m] BY <1>1, <1>5, <2>2 DEF Stores
    <3> QED BY <1>5, <3>1 DEF Good, Restorable, RestorableRetrieves
  <2> QED BY <2>1, <2>2
<1>8. \A m \in Nonces : s.acks[m] # NoAck =>
         t.retrieves[s.acks[m].retrieval] = s.retrieves[s.acks[m].retrieval]
  <2> SUFFICES ASSUME NEW m \in Nonces, s.acks[m] # NoAck
               PROVE  t.retrieves[s.acks[m].retrieval] = s.retrieves[s.acks[m].retrieval]
    OBVIOUS
  <2>1. s.acks[m] \in Acks BY <1>1 DEF Stores
  <2>2. s.retrieves[s.acks[m].retrieval].attempt = s.acks[m].attempt
    BY DEF Good, Restorable, RestorableAcks
  <2>3. s.acks[m].retrieval # n
    BY <1>2, <2>1, <2>2, HelperAssumption DEF NoRetrieve, Acks
  <2> QED BY <1>1, <1>5, <2>1, <2>3 DEF Stores, Acks
<1>9. RestorableAcks(t) BY <1>5, <1>8 DEF Good, Restorable, RestorableAcks
<1>10. RestorableHandled(t) BY <1>5 DEF Good, Restorable, RestorableHandled
<1>11. RestorableJoins(t)
  BY <1>5 DEF Good, Restorable, RestorableJoins, RearmResult, HandledComplete
<1>12. Covered(t)
  <2> DEFINE A == s.acks   H == s.handled   R == s.retrieves   Q == t.retrieves
  <2>1. ASSUME NEW m \in Nonces, A[m].attempt \in Gens
        PROVE  Q[A[m].retrieval] = R[A[m].retrieval]
    BY <1>8, <2>1, HelperAssumption DEF NoAck
  <2>2. CoveredBy(A, R, H) BY DEF Good, Covered
  <2> HIDE DEF A, H, R, Q
  <2>3. ASSUME NEW h \in Gens, NEW m \in Nonces, A[m].attempt = h
        PROVE  /\ A[m].cursor <= H[h]
               /\ Q[A[m].retrieval].attempt = h
               /\ Q[A[m].retrieval].cred = A[m].cred
    <3>1. Q[A[m].retrieval] = R[A[m].retrieval] BY <2>1, <2>3
    <3> QED BY <2>2, <2>3, <3>1 DEF CoveredBy
  <2>4. \A h \in Gens : H[h] # 0 => \E m \in Nonces : A[m].attempt = h /\ A[m].cursor = H[h]
    BY <2>2 DEF CoveredBy
  <2>5. CoveredBy(A, Q, H) BY <2>3, <2>4 DEF CoveredBy
  <2> QED BY <1>5, <2>5 DEF Covered, A, H, Q
<1> HIDE DEF t
<1> QED BY <1>4, <1>6, <1>7, <1>9, <1>10, <1>11, <1>12 DEF Good, Restorable, t

\* The attempt is open, so no join rests on its coverage; the coverage becomes the
\* furthest of what it was and what is acknowledged now.
LEMMA AcknowledgedGood ==
    ASSUME NEW s, Good(s), NEW n \in Nonces, NEW g \in Gens, NEW c \in Credentials,
           NEW retrieval \in Nonces, NEW cursor \in Cursors, NEW now,
           AcknowledgeFresh(s, n, g, c, retrieval, cursor, now)
    PROVE  Good(Acknowledged(s, n, g, c, retrieval, cursor))
<1> DEFINE t == Acknowledged(s, n, g, c, retrieval, cursor)
           ack == [attempt |-> g, cred |-> c, retrieval |-> retrieval, cursor |-> cursor]
           furthest == Furthest(s.handled[g], cursor)
<1>1. s \in Stores BY DEF Good
<1>2. /\ s.retrieves[n] = NoRetrieve /\ s.acks[n] = NoAck /\ s.claims[g] # 0
      /\ s.retrieves[retrieval] = Origin(s, g, c)
      /\ Allows(s.grants[g].operations, "acknowledge")
      /\ cursor <= s.claims[g] /\ s.handled[g] # Newest
  BY DEF AcknowledgeFresh, Authentic, FreshUse, Closed, HandledComplete
<1>3. /\ s.claims[g] \in 0..Newest /\ s.handled[g] \in 0..Newest /\ cursor \in 1..Newest
      /\ Newest \in Nat
  BY <1>1, HelperAssumption DEF Stores, Cursors
<1>4. /\ furthest \in 1..Newest /\ cursor <= furthest /\ s.handled[g] <= furthest
      /\ furthest \in {s.handled[g], cursor}
  BY <1>3 DEF Furthest
<1>5. ack \in Acks BY DEF Acks
<1>6. /\ t.acks = [s.acks EXCEPT ![n] = ack]
      /\ t.handled = [s.handled EXCEPT ![g] = furthest]
      /\ t.claims = s.claims /\ t.facts = s.facts /\ t.grants = s.grants
      /\ t.retired = s.retired /\ t.retrieves = s.retrieves /\ t.rearmed = s.rearmed
  BY <1>1 DEF Acknowledged, Stores
<1>7. t \in Stores
  <2>1. t = [s EXCEPT !.acks = [s.acks EXCEPT ![n] = ack],
                      !.handled = [s.handled EXCEPT ![g] = furthest]]
    BY <1>1 DEF Acknowledged, Stores
  <2>2. [s.acks EXCEPT ![n] = ack] \in [Nonces -> Acks \cup {NoAck}]
    BY <1>1, <1>5 DEF Stores
  <2>3. [s.handled EXCEPT ![g] = furthest] \in [Gens -> 0..Newest]
    BY <1>1, <1>3, <1>4 DEF Stores
  <2> QED BY <1>1, <2>1, <2>2, <2>3 DEF Stores
<1>8. /\ t.acks[n] = ack /\ t.handled[g] = furthest
      /\ \A m \in Nonces : m # n => t.acks[m] = s.acks[m]
      /\ \A h \in Gens : h # g => t.handled[h] = s.handled[h]
  BY <1>1, <1>6 DEF Stores
<1> HIDE DEF t, ack, furthest
<1>9. RestorableGrants(t) BY <1>6 DEF Good, Restorable, RestorableGrants
<1>10. RestorableRetrieves(t)
  BY <1>2, <1>6, <1>8 DEF Good, Restorable, RestorableRetrieves
<1>11. /\ s.retrieves[retrieval].attempt = g /\ s.retrieves[retrieval].cred = c
       /\ s.retrieves[retrieval].operations = s.grants[g].operations
  BY <1>2 DEF Origin
<1>12. RestorableAcks(t)
  <2> SUFFICES ASSUME NEW m \in Nonces, t.acks[m] # NoAck
               PROVE  LET a == t.acks[m]
                          retrieve == t.retrieves[a.retrieval]
                      IN /\ retrieve.attempt = a.attempt /\ retrieve.cred = a.cred
                         /\ Allows(retrieve.operations, "acknowledge")
                         /\ t.claims[a.attempt] # 0
                         /\ a.cursor <= t.claims[a.attempt]
    BY DEF RestorableAcks
  <2>1. CASE m = n
    BY <1>2, <1>6, <1>8, <1>11, <2>1 DEF ack
  <2>2. CASE m # n
    BY <1>6, <1>8, <2>2 DEF Good, Restorable, RestorableAcks
  <2> QED BY <2>1, <2>2
<1>13. RestorableHandled(t)
  <2> SUFFICES ASSUME NEW h \in Gens, t.handled[h] # 0
               PROVE  t.claims[h] # 0 /\ t.handled[h] <= t.claims[h]
    BY DEF RestorableHandled
  <2>1. CASE h = g
    <3>1. s.handled[g] # 0 => s.handled[g] <= s.claims[g]
      BY DEF Good, Restorable, RestorableHandled
    <3>2. furthest <= s.claims[g] BY <1>2, <1>3, <1>4, <3>1
    <3> QED BY <1>2, <1>6, <1>8, <2>1, <3>2
  <2>2. CASE h # g
    BY <1>6, <1>8, <2>2 DEF Good, Restorable, RestorableHandled
  <2> QED BY <2>1, <2>2
<1>14. RestorableJoins(t)
  <2> SUFFICES ASSUME NEW h \in s.rearmed PROVE RearmResult(t, h) = "AlreadyRearmed"
    BY <1>6 DEF RestorableJoins
  <2>1. h \in Gens BY <1>1 DEF Stores
  <2>2. RearmResult(s, h) = "AlreadyRearmed" BY DEF Good, Restorable, RestorableJoins
  <2>3. s.handled[h] = Newest BY <2>2 DEF RearmResult, HandledComplete
  <2>4. t.handled[h] = s.handled[h] BY <1>2, <1>8, <2>1, <2>3
  <2> QED BY <1>6, <2>2, <2>4 DEF RearmResult, HandledComplete
<1>15. Covered(t)
  <2> DEFINE A == t.acks   H == t.handled   R == t.retrieves
  <2> SUFFICES CoveredBy(A, R, H) BY DEF Covered
  <2>1. CoveredBy(s.acks, s.retrieves, s.handled) BY DEF Good, Covered
  <2>2. ASSUME NEW h \in Gens, NEW m \in Nonces, A[m].attempt = h
        PROVE  /\ A[m].cursor <= H[h]
               /\ R[A[m].retrieval].attempt = h
               /\ R[A[m].retrieval].cred = A[m].cred
    <3>1. CASE m = n
      <4>1. A[m] = ack /\ h = g BY <1>8, <2>2, <3>1 DEF ack
      <4> QED BY <1>4, <1>6, <1>8, <1>11, <4>1 DEF ack
    <3>2. CASE m # n
      <4>1. A[m] = s.acks[m] BY <1>8, <3>2
      <4>2. /\ A[m].cursor <= s.handled[h]
            /\ R[A[m].retrieval].attempt = h /\ R[A[m].retrieval].cred = A[m].cred
        BY <1>6, <2>1, <2>2, <4>1 DEF CoveredBy
      <4>3. s.acks[m] \in Acks
        BY <1>1, <2>2, <4>1, HelperAssumption DEF Stores, NoAck
      <4>4. A[m].cursor \in Int BY <4>1, <4>3 DEF Acks, Cursors
      <4>5. s.handled[h] \in Int /\ H[h] \in Int /\ s.handled[h] <= H[h]
        <5>1. CASE h = g BY <1>3, <1>4, <1>8, <5>1
        <5>2. CASE h # g BY <1>1, <1>8, <5>2, HelperAssumption DEF Stores
        <5> QED BY <5>1, <5>2
      <4> QED BY <4>2, <4>4, <4>5
    <3> QED BY <3>1, <3>2
  <2>3. ASSUME NEW h \in Gens, H[h] # 0
        PROVE  \E m \in Nonces : A[m].attempt = h /\ A[m].cursor = H[h]
    <3>1. CASE h = g /\ furthest = cursor
      BY <1>8, <3>1 DEF ack
    <3>2. CASE H[h] = s.handled[h]
      <4>1. PICK m \in Nonces : s.acks[m].attempt = h /\ s.acks[m].cursor = s.handled[h]
        BY <2>1, <2>3, <3>2 DEF CoveredBy
      <4>2. m # n BY <1>2, <4>1, HelperAssumption DEF NoAck
      <4> QED BY <1>8, <3>2, <4>1, <4>2
    <3> QED BY <1>4, <1>8, <3>1, <3>2
  <2> HIDE DEF A, H, R
  <2> QED BY <2>2, <2>3 DEF CoveredBy
<1> QED BY <1>7, <1>9, <1>10, <1>12, <1>13, <1>14, <1>15 DEF Good, Restorable, t

\* A join is recorded when coverage and terminal fact are there, and both stay.
LEMMA RearmedGood ==
    ASSUME NEW s, Good(s), NEW g \in Gens, RearmResult(s, g) = "Rearmed"
    PROVE  Good(Rearmed(s, g))
<1> DEFINE t == Rearmed(s, g)
<1>1. s \in Stores BY DEF Good
<1>2. t \in Stores BY <1>1 DEF Rearmed, Stores
<1>3. /\ t.rearmed = s.rearmed \cup {g}
      /\ t.claims = s.claims /\ t.facts = s.facts /\ t.grants = s.grants
      /\ t.retired = s.retired /\ t.retrieves = s.retrieves /\ t.acks = s.acks
      /\ t.handled = s.handled
  BY <1>1 DEF Rearmed, Stores
<1>4. RestorableGrants(t) /\ RestorableRetrieves(t) /\ RestorableAcks(t) /\ RestorableHandled(t)
  BY <1>3 DEF Good, Restorable, RestorableGrants, RestorableRetrieves, RestorableAcks,
              RestorableHandled
<1>5. s.claims[g] # 0 /\ HandledComplete(s, g) /\ "Terminal" \in s.facts[g]
  BY DEF RearmResult
<1>6. RestorableJoins(t)
  BY <1>3, <1>5 DEF Good, Restorable, RestorableJoins, RearmResult, HandledComplete
<1>7. Covered(s) BY DEF Good
<1>8. Covered(t) BY <1>3, <1>7 DEF Covered
<1> HIDE DEF t
<1> QED BY <1>2, <1>4, <1>6, <1>8 DEF Good, Restorable, t

=============================================================================
