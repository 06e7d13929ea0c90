------------------------ MODULE SqliteBaselineProofs ------------------------
(***************************************************************************)
(* Machine-checked proofs that the snapshot backend implements the atomic  *)
(* helper store and that nothing it has answered can be lost, for every    *)
(* set of generations and nonces, every bound and any number of faults.    *)
(***************************************************************************)
EXTENDS SqliteBaseline, HelperStoreProofs

\* One call of the port took the helper sections from s to t and is answered with a,
\* the permit of a retrieval or NoPermit.
Called(s, t, a) ==
    \/ t = s /\ a = NoPermit
    \/ \E g \in Gens :
         \/ t = Registered(s, g) /\ a = NoPermit
         \/ \E proved \in Cursors : AdmitOk(s, g) /\ t = Admitted(s, g, proved) /\ a = NoPermit
         \/ s.claims[g] # 0 /\ t = AttachmentRevoked(s, g) /\ a = NoPermit
         \/ RearmResult(s, g) = "Rearmed" /\ t = Rearmed(s, g) /\ a = NoPermit
         \/ \E grant \in Grants :
              ~grant.revoked /\ MintOk(s, g, grant, Now) /\ t = Minted(s, g, grant) /\ a = NoPermit
         \/ \E c \in Credentials :
              \/ RevokeGrantOk(s, g, c) /\ t = GrantRevoked(s, g) /\ a = NoPermit
              \/ \E n \in Nonces :
                   \/ RetrieveFresh(s, n, g, c, Now) /\ t = Retrieved(s, n, g, c) /\ a = PermitOf(n, g, c, "Fresh")
                   \/ RetrieveReplays(s, n, g, c) /\ t = s /\ a = PermitOf(n, g, c, "ExactReplay")
                   \/ \E retrieval \in Nonces, cursor \in Cursors :
                        /\ AcknowledgeFresh(s, n, g, c, retrieval, cursor, Now)
                        /\ t = Acknowledged(s, n, g, c, retrieval, cursor) /\ a = NoPermit

\* The fixture recorded a terminal fact.
Installed(s, t) == \E g \in Gens : s.claims[g] # 0 /\ t = FactRecorded(s, g, "Terminal")

\* The permit is of a retrieval on record.
OnRecord(s, p) == s.retrieves[p.nonce].attempt = p.attempt /\ s.retrieves[p.nonce].cred = p.cred

\* The births of a copy are those of the media, but for what recovery quarantined.
Follows(births) == births \in {disk.births, Quarantined(disk.births)}

\* What each place of a call says about the copies: the running call is one step from
\* the media, the saved copy is what the media hold until the commit, and the live copy
\* is what they hold after it.
PhaseInv ==
    /\ phase = "idle" => live.helper = disk.helper /\ Follows(live.births)
    /\ phase = "commit" =>
          /\ saved.helper = disk.helper /\ Follows(saved.births)
          /\ Called(disk.helper, live.helper, answer)
          /\ \A g \in Gens : saved.births[g] # "Absent" => live.births[g] # "Absent"
    /\ phase = "reload" => live = disk /\ (answer # NoPermit => OnRecord(disk.helper, answer))
    /\ phase = "install" =>
          /\ Installed(disk.helper, live.helper)
          /\ \A g \in Gens : disk.births[g] # "Absent" => live.births[g] # "Absent"
    /\ phase \notin {"commit", "reload"} => answer = NoPermit
    /\ phase = "down" => permits = {}

\* Every copy is one a restart accepts.
CopiesGood == Good(live.helper) /\ Good(saved.helper) /\ Good(disk.helper)

Inv == TypeOK /\ CopiesGood /\ PhaseInv /\ DurableRecord

-----------------------------------------------------------------------------
(* What the port's operations keep *)

\* A permit is a record, and NoPermit is none.
LEMMA PermitIsOne == \A p \in Permits : p # NoPermit
BY DEF Permits, NoPermit

\* Every call leaves a good store.
LEMMA CalledGood ==
    ASSUME NEW s, NEW t, NEW a, Good(s), Called(s, t, a)
    PROVE  Good(t)
BY ArmAndFactsGood, AdmittedGood, MintedGood, GrantRevokedGood, RetrievedGood, AcknowledgedGood, RearmedGood DEF Called

\* Extension is transitive.
LEMMA ExtendsTransitive ==
    ASSUME NEW r \in Stores, NEW s \in Stores, NEW t \in Stores, Extends(t, s), Extends(s, r)
    PROVE  Extends(t, r)
<1>1. \A g \in Gens : r.handled[g] \in Int /\ s.handled[g] \in Int /\ t.handled[g] \in Int
  BY HelperAssumption DEF Stores
<1> QED BY <1>1 DEF Extends

\* Every call extends the store it starts from.
LEMMA CalledExtends ==
    ASSUME NEW s, NEW t, NEW a, Good(s), Called(s, t, a)
    PROVE  Extends(t, s)
<1>1. s \in Stores
  BY DEF Good
<1>2. \A g \in Gens : s.handled[g] \in 0..Newest /\ Newest \in Nat
  BY <1>1, HelperAssumption DEF Stores
<1>3. CASE t = s
  BY <1>2, <1>3 DEF Extends
<1>4. ASSUME NEW g \in Gens, t \in {Registered(s, g), AttachmentRevoked(s, g), Rearmed(s, g)}
      PROVE  Extends(t, s)
  BY <1>1, <1>2, <1>4 DEF Registered, AttachmentRevoked, Rearmed, Extends, Stores
<1>5. ASSUME NEW g \in Gens, NEW proved \in Cursors, AdmitOk(s, g), t = Admitted(s, g, proved)
      PROVE  Extends(t, s)
  BY <1>1, <1>2, <1>5 DEF AdmitOk, Admitted, Extends, Stores
<1>6. ASSUME NEW g \in Gens, NEW grant \in Grants, MintOk(s, g, grant, Now), t = Minted(s, g, grant)
      PROVE  Extends(t, s)
  BY <1>1, <1>2, <1>6 DEF MintOk, Mintable, Minted, NoGrant, Extends, Stores
<1>7. ASSUME NEW g \in Gens, t = GrantRevoked(s, g)
      PROVE  Extends(t, s)
  <2>1. /\ t.grants = [s.grants EXCEPT ![g] = [s.grants[g] EXCEPT !.revoked = TRUE]]
        /\ t.retrieves = s.retrieves /\ t.acks = s.acks /\ t.claims = s.claims /\ t.handled = s.handled
        /\ t.retired = s.retired /\ t.revoked = s.revoked /\ t.rearmed = s.rearmed
    BY <1>1, <1>7 DEF GrantRevoked, Stores
  <2>2. ASSUME s.grants[g].revoked PROVE t.grants[g] = s.grants[g]
    <3>1. s.grants[g] \in Grants
      BY <1>1, <2>2 DEF Stores, NoGrant
    <3>2. s.grants[g].revoked = TRUE
      BY <2>2, <3>1 DEF Grants
    <3>3. [s.grants[g] EXCEPT !.revoked = TRUE] = s.grants[g]
      BY <3>1, <3>2 DEF Grants
    <3> QED BY <1>1, <2>1, <3>3 DEF Stores
  <2>3. \A h \in Gens : h # g => t.grants[h] = s.grants[h]
    BY <1>1, <2>1 DEF Stores
  <2> QED BY <1>2, <2>1, <2>2, <2>3 DEF Extends
<1>8. ASSUME NEW g \in Gens, NEW c \in Credentials, NEW n \in Nonces, RetrieveFresh(s, n, g, c, Now),
             t = Retrieved(s, n, g, c)
      PROVE  Extends(t, s)
  BY <1>1, <1>2, <1>8 DEF RetrieveFresh, Retrieved, Extends, Stores
<1>9. ASSUME NEW g \in Gens, NEW c \in Credentials, NEW n \in Nonces, NEW retrieval \in Nonces, NEW cursor \in Cursors,
             AcknowledgeFresh(s, n, g, c, retrieval, cursor, Now), t = Acknowledged(s, n, g, c, retrieval, cursor)
      PROVE  Extends(t, s)
  BY <1>1, <1>2, <1>9 DEF AcknowledgeFresh, Acknowledged, Furthest, Extends, Stores, Cursors
<1> QED BY <1>3, <1>4, <1>5, <1>6, <1>7, <1>8, <1>9 DEF Called

\* So does a fact.
LEMMA InstalledExtends ==
    ASSUME NEW s, NEW t, Good(s), Installed(s, t)
    PROVE  Good(t) /\ Extends(t, s)
<1>1. PICK g \in Gens : t = FactRecorded(s, g, "Terminal")
  BY DEF Installed
<1>2. "Terminal" \in Facts /\ s \in Stores
  BY DEF Facts, Good
<1>3. Good(t)
  BY <1>1, <1>2, ArmAndFactsGood
<1>4. Extends(t, s)
  BY <1>1, <1>2, HelperAssumption DEF FactRecorded, Extends, Stores
<1> QED BY <1>3, <1>4

\* A permit that a call answers with is of a retrieval the call leaves on record.
LEMMA CalledAnswer ==
    ASSUME NEW s, NEW t, NEW a, Good(s), Called(s, t, a), a # NoPermit
    PROVE  a \in Permits /\ OnRecord(t, a)
<1>1. s \in Stores
  BY DEF Good
<1>2. ASSUME NEW g \in Gens, NEW c \in Credentials, NEW n \in Nonces,
             t = Retrieved(s, n, g, c), a = PermitOf(n, g, c, "Fresh")
      PROVE  a \in Permits /\ OnRecord(t, a)
  BY <1>1, <1>2 DEF Retrieved, PermitOf, Permits, OnRecord, Origin, Stores
<1>3. ASSUME NEW g \in Gens, NEW c \in Credentials, NEW n \in Nonces,
             RetrieveReplays(s, n, g, c), t = s, a = PermitOf(n, g, c, "ExactReplay")
      PROVE  a \in Permits /\ OnRecord(t, a)
  BY <1>3 DEF RetrieveReplays, PermitOf, Permits, OnRecord, Origin
<1> QED BY <1>2, <1>3 DEF Called

\* What is on record stays so in a store that extends it.
LEMMA OnRecordStays ==
    ASSUME NEW s \in Stores, NEW t, Extends(t, s), NEW n \in Nonces, NEW g \in Gens, NEW c,
           s.retrieves[n].attempt = g, s.retrieves[n].cred = c
    PROVE  t.retrieves[n].attempt = g /\ t.retrieves[n].cred = c
BY HelperAssumption DEF Extends, NoRetrieve

-----------------------------------------------------------------------------
(* Steps *)

\* The operations that run on the live copy and go on to commit.
Call(g) ==
    \/ PersistArm(g) \/ ReserveControllerBirth(g) \/ RevokeControllerAttachment(g) \/ TryRearmJoin(g)
    \/ \E proved \in Cursors : AdmitClaim(g, proved)
    \/ \E c \in Credentials :
         \/ \E lease \in 1..Horizon, operations \in Operations : PersistHelperGrant(g, c, lease, operations)
         \/ RevokeHelperGrant(g, c)
         \/ \E n \in Nonces :
              \/ RecordRetrieve(n, g, c) \/ ReplayRetrieve(n, g, c) \/ ReplayAcknowledge(n, g, c)
              \/ \E retrieval \in Nonces, cursor \in Cursors : AcknowledgeRetrievedBatch(n, g, c, retrieval, cursor)

\* Each is one call on the helper sections and reserves at most a birth.
LEMMA CallShape ==
    ASSUME TypeOK, NEW g \in Gens, Call(g)
    PROVE  /\ Called(live.helper, live'.helper, answer')
           /\ live' = [helper |-> live'.helper, births |-> live'.births] /\ live'.births \in Births
           /\ \A h \in Gens : live.births[h] # "Absent" => live'.births[h] # "Absent"
           /\ phase = "idle" /\ phase' = "commit" /\ saved' = live
           /\ UNCHANGED <<disk, permits, shown, confirmed, faults>>
<1>1. live \in Copies /\ live = [helper |-> live.helper, births |-> live.births]
  BY DEF TypeOK, Copies
<1> DEFINE Shape(h, b, told) ==
       /\ live' = [helper |-> h, births |-> b] /\ answer' = told
       /\ phase = "idle" /\ phase' = "commit" /\ saved' = live
       /\ UNCHANGED <<disk, permits, shown, confirmed, faults>>
<1>2. ASSUME NEW h, NEW told, Committing([live EXCEPT !.helper = h], told)
      PROVE  Shape(h, live.births, told)
  <2>1. [live EXCEPT !.helper = h] = [helper |-> h, births |-> live.births]
    BY <1>1 DEF Copies
  <2> QED BY <1>2, <2>1 DEF Committing
<1>3. Committing(live, answer') => Shape(live.helper, live.births, answer')
  BY <1>1 DEF Committing
<1>4. CASE PersistArm(g)
  <2>1. Shape(Registered(live.helper, g), live.births, NoPermit)
    BY <1>2, <1>4 DEF PersistArm, Calling, store
  <2> QED BY <1>1, <2>1 DEF Called, Copies
<1>5. CASE ReserveControllerBirth(g)
  <2>1. /\ [live EXCEPT !.births[g] = "Reserved"] = [helper |-> live.helper, births |-> [live.births EXCEPT ![g] = "Reserved"]]
        /\ [live.births EXCEPT ![g] = "Reserved"] \in Births
    BY <1>1 DEF Copies, Births, Ownership
  <2>2. Shape(live.helper, [live.births EXCEPT ![g] = "Reserved"], NoPermit)
    BY <1>5, <2>1 DEF ReserveControllerBirth, Committing
  <2> QED BY <1>1, <2>1, <2>2 DEF Called, Copies, Births
<1>6. CASE RevokeControllerAttachment(g)
  <2>1. Shape(AttachmentRevoked(live.helper, g), live.births, NoPermit) /\ live.helper.claims[g] # 0
    BY <1>2, <1>6 DEF RevokeControllerAttachment, Calling, store
  <2> QED BY <1>1, <2>1 DEF Called, Copies
<1>7. CASE TryRearmJoin(g)
  <2>1. Shape(Rearmed(live.helper, g), live.births, NoPermit) /\ RearmResult(live.helper, g) = "Rearmed"
    BY <1>2, <1>7 DEF TryRearmJoin, Calling, store
  <2> QED BY <1>1, <2>1 DEF Called, Copies
<1>8. ASSUME NEW proved \in Cursors, AdmitClaim(g, proved)
      PROVE  Shape(Admitted(live.helper, g, proved), live.births, NoPermit) /\ AdmitOk(live.helper, g)
  BY <1>2, <1>8 DEF AdmitClaim, Calling, store
<1>9. ASSUME NEW c \in Credentials, NEW lease \in 1..Horizon, NEW operations \in Operations,
             PersistHelperGrant(g, c, lease, operations)
      PROVE  \E grant \in Grants :
                /\ ~grant.revoked /\ MintOk(live.helper, g, grant, Now)
                /\ Shape(Minted(live.helper, g, grant), live.births, NoPermit)
  <2> DEFINE grant == [cred |-> c, lease |-> lease, operations |-> operations, revoked |-> FALSE]
  <2>1. grant \in Grants /\ ~grant.revoked
    BY DEF Grants
  <2>2. MintOk(live.helper, g, grant, Now) /\ Calling(Minted(live.helper, g, grant))
    BY <1>9 DEF PersistHelperGrant, store
  <2> HIDE DEF grant
  <2>3. Shape(Minted(live.helper, g, grant), live.births, NoPermit)
    BY <1>2, <2>2 DEF Calling
  <2> QED BY <2>1, <2>2, <2>3
<1>10. ASSUME NEW c \in Credentials, RevokeHelperGrant(g, c)
       PROVE  Shape(GrantRevoked(live.helper, g), live.births, NoPermit) /\ RevokeGrantOk(live.helper, g, c)
  BY <1>2, <1>10 DEF RevokeHelperGrant, Calling, store
<1>11. ASSUME NEW c \in Credentials, NEW n \in Nonces, RecordRetrieve(n, g, c)
       PROVE  /\ Shape(Retrieved(live.helper, n, g, c), live.births, PermitOf(n, g, c, "Fresh"))
              /\ RetrieveFresh(live.helper, n, g, c, Now)
  BY <1>2, <1>11 DEF RecordRetrieve, store
<1>12. ASSUME NEW c \in Credentials, NEW n \in Nonces, ReplayRetrieve(n, g, c)
       PROVE  /\ Shape(live.helper, live.births, PermitOf(n, g, c, "ExactReplay"))
              /\ RetrieveReplays(live.helper, n, g, c)
  BY <1>1, <1>12 DEF ReplayRetrieve, Committing, store
<1>13. ASSUME NEW c \in Credentials, NEW n \in Nonces, ReplayAcknowledge(n, g, c)
       PROVE  Shape(live.helper, live.births, NoPermit)
  BY <1>2, <1>13 DEF ReplayAcknowledge, Calling, store
<1>14. ASSUME NEW c \in Credentials, NEW n \in Nonces, NEW retrieval \in Nonces, NEW cursor \in Cursors,
              AcknowledgeRetrievedBatch(n, g, c, retrieval, cursor)
       PROVE  /\ Shape(Acknowledged(live.helper, n, g, c, retrieval, cursor), live.births, NoPermit)
              /\ AcknowledgeFresh(live.helper, n, g, c, retrieval, cursor, Now)
  BY <1>2, <1>14 DEF AcknowledgeRetrievedBatch, Calling, store
<1>15. \A h, b, told : Shape(h, b, told) /\ Called(live.helper, h, told) /\ b = live.births =>
          /\ Called(live.helper, live'.helper, answer')
          /\ live' = [helper |-> live'.helper, births |-> live'.births] /\ live'.births \in Births
          /\ \A x \in Gens : live.births[x] # "Absent" => live'.births[x] # "Absent"
          /\ phase = "idle" /\ phase' = "commit" /\ saved' = live
          /\ UNCHANGED <<disk, permits, shown, confirmed, faults>>
  BY <1>1 DEF Copies
<1> HIDE DEF Shape
<1>16. \A proved \in Cursors : AdmitClaim(g, proved) =>
          Shape(Admitted(live.helper, g, proved), live.births, NoPermit)
          /\ Called(live.helper, Admitted(live.helper, g, proved), NoPermit)
  BY <1>8 DEF Called
<1>17. \A c \in Credentials, lease \in 1..Horizon, operations \in Operations : PersistHelperGrant(g, c, lease, operations) =>
          \E h : Shape(h, live.births, NoPermit) /\ Called(live.helper, h, NoPermit)
  BY <1>9 DEF Called
<1>18. \A c \in Credentials : RevokeHelperGrant(g, c) =>
          Shape(GrantRevoked(live.helper, g), live.births, NoPermit)
          /\ Called(live.helper, GrantRevoked(live.helper, g), NoPermit)
  BY <1>10 DEF Called
<1>19. \A c \in Credentials, n \in Nonces : RecordRetrieve(n, g, c) \/ ReplayRetrieve(n, g, c) \/ ReplayAcknowledge(n, g, c) =>
          \E h, told : Shape(h, live.births, told) /\ Called(live.helper, h, told)
  <2>1. ASSUME NEW c \in Credentials, NEW n \in Nonces, RecordRetrieve(n, g, c)
        PROVE  Called(live.helper, Retrieved(live.helper, n, g, c), PermitOf(n, g, c, "Fresh"))
    BY <1>11, <2>1 DEF Called
  <2>2. ASSUME NEW c \in Credentials, NEW n \in Nonces, ReplayRetrieve(n, g, c)
        PROVE  Called(live.helper, live.helper, PermitOf(n, g, c, "ExactReplay"))
    BY <1>12, <2>2 DEF Called
  <2>3. Called(live.helper, live.helper, NoPermit)
    BY DEF Called
  <2> QED BY <1>11, <1>12, <1>13, <2>1, <2>2, <2>3
<1>20. \A c \in Credentials, n \in Nonces, retrieval \in Nonces, cursor \in Cursors :
          AcknowledgeRetrievedBatch(n, g, c, retrieval, cursor) =>
             Shape(Acknowledged(live.helper, n, g, c, retrieval, cursor), live.births, NoPermit)
             /\ Called(live.helper, Acknowledged(live.helper, n, g, c, retrieval, cursor), NoPermit)
  BY <1>14 DEF Called
<1> QED BY <1>4, <1>5, <1>6, <1>7, <1>15, <1>16, <1>17, <1>18, <1>19, <1>20 DEF Call

LEMMA InitInv == Init => Inv
<1> SUFFICES ASSUME Init PROVE Inv
  OBVIOUS
<1>1. EmptyCopy.helper = EmptyStore /\ EmptyCopy.births \in Births /\ EmptyCopy \in Copies
  BY EmptyGood DEF EmptyCopy, Births, Ownership, Copies, Good
<1>2. CopiesGood
  BY <1>1, EmptyGood DEF Init, CopiesGood
<1>3. TypeOK
  BY <1>1, FaultAssumption DEF Init, TypeOK, Phases
<1>4. Extends(EmptyStore, EmptyStore)
  BY HelperAssumption DEF Extends, EmptyStore
<1>5. DurableRecord
  BY <1>1, <1>4 DEF Init, DurableRecord, ConfirmedIsDurable, DisclosedOnRecord
<1> QED BY <1>2, <1>3, <1>5 DEF Init, Inv, PhaseInv, Follows

\* What was on record when the media change to an extension of what they held stays on
\* record.
LEMMA DurableStays ==
    ASSUME TypeOK, Good(disk.helper), Good(disk'.helper), DurableRecord, Extends(disk'.helper, disk.helper),
           \A g \in Gens : disk.births[g] # "Absent" => disk'.births[g] # "Absent",
           UNCHANGED <<shown, permits>>
    PROVE  DisclosedOnRecord' /\ (confirmed' = confirmed => ConfirmedIsDurable')
<1>1. disk.helper \in Stores /\ disk'.helper \in Stores /\ confirmed.helper \in Stores
  BY DEF TypeOK, Copies, Good
<1>2. Extends(disk.helper, confirmed.helper) /\ DisclosedOnRecord
  BY DEF DurableRecord, ConfirmedIsDurable
<1>3. Extends(disk'.helper, confirmed.helper)
  BY <1>1, <1>2, ExtendsTransitive
<1>4. confirmed' = confirmed => ConfirmedIsDurable'
  BY <1>3 DEF DurableRecord, ConfirmedIsDurable
<1>5. DisclosedOnRecord'
  <2> SUFFICES ASSUME NEW x \in shown \cup {<<p.nonce, p.attempt, p.cred>> : p \in permits}
               PROVE  disk'.helper.retrieves[x[1]].attempt = x[2] /\ disk'.helper.retrieves[x[1]].cred = x[3]
    BY DEF DisclosedOnRecord
  <2>1. x[1] \in Nonces /\ x[2] \in Gens
    BY DEF TypeOK, Permits
  <2>2. disk.helper.retrieves[x[1]].attempt = x[2] /\ disk.helper.retrieves[x[1]].cred = x[3]
    BY <1>2 DEF DisclosedOnRecord
  <2> QED BY <1>1, <2>1, <2>2, OnRecordStays
<1> QED BY <1>4, <1>5

\* The invariant is kept by a call and by the steps that finish it.
LEMMA CallInv ==
    ASSUME Inv, NEW g \in Gens, Call(g)
    PROVE  Inv'
<1>1. /\ Called(live.helper, live'.helper, answer')
      /\ live' = [helper |-> live'.helper, births |-> live'.births] /\ live'.births \in Births
      /\ \A h \in Gens : live.births[h] # "Absent" => live'.births[h] # "Absent"
      /\ phase = "idle" /\ phase' = "commit" /\ saved' = live
      /\ UNCHANGED <<disk, permits, shown, confirmed, faults>>
  BY CallShape DEF Inv
<1>2. Good(live.helper) /\ Good(disk.helper) /\ live.helper = disk.helper /\ Follows(live.births)
  BY <1>1 DEF Inv, CopiesGood, PhaseInv
<1>3. Good(live'.helper)
  BY <1>1, <1>2, CalledGood
<1>4. CopiesGood'
  BY <1>1, <1>2, <1>3 DEF CopiesGood
<1>5. answer' \in Permits \cup {NoPermit}
  BY <1>1, <1>2, CalledAnswer
<1>6. live' \in Copies
  BY <1>1, <1>3 DEF Copies, Good
<1>7. TypeOK'
  BY <1>1, <1>5, <1>6 DEF Inv, TypeOK, Phases
<1>8. PhaseInv'
  BY <1>1, <1>2 DEF PhaseInv, Follows
<1>9. DurableRecord'
  BY <1>1 DEF Inv, DurableRecord, ConfirmedIsDurable, DisclosedOnRecord
<1> QED BY <1>4, <1>7, <1>8, <1>9 DEF Inv

\* What is committed is the live copy, which extends the media.
LEMMA CommittedInv ==
    ASSUME Inv, CommitSnapshot \/ CommitInstalled
    PROVE  Inv' /\ Extends(disk'.helper, disk.helper)
<1>1. /\ disk' = live /\ live' = live /\ saved' = saved /\ UNCHANGED <<answer, permits, shown, faults>>
      /\ Good(live.helper) /\ Good(disk.helper) /\ Good(saved.helper)
  BY DEF CommitSnapshot, CommitInstalled, Inv, CopiesGood
<1>2. CopiesGood'
  BY <1>1 DEF CopiesGood
<1>3. Extends(live.helper, disk.helper)
  BY <1>1, CalledExtends, InstalledExtends DEF CommitSnapshot, CommitInstalled, Inv, PhaseInv
<1>4. \A g \in Gens : disk.births[g] # "Absent" => live.births[g] # "Absent"
  BY DEF CommitSnapshot, CommitInstalled, Inv, PhaseInv, Follows, Quarantined
<1>5. live.helper \in Stores /\ Extends(live.helper, live.helper)
  BY <1>1, HelperAssumption DEF Good, Extends, Stores
<1>6. TypeOK'
  BY <1>1 DEF CommitSnapshot, CommitInstalled, Inv, TypeOK, Phases
<1>7. PhaseInv'
  <2>1. CASE CommitSnapshot
    <3>1. answer # NoPermit => OnRecord(live.helper, answer)
      BY <1>1, <2>1, CalledAnswer DEF CommitSnapshot, Inv, PhaseInv
    <3> QED BY <1>1, <2>1, <3>1 DEF CommitSnapshot, Inv, PhaseInv, OnRecord
  <2>2. CASE CommitInstalled
    BY <1>1, <2>2 DEF CommitInstalled, Inv, PhaseInv, Follows
  <2> QED BY <2>1, <2>2
<1>8. DisclosedOnRecord' /\ (confirmed' = confirmed => ConfirmedIsDurable')
  BY <1>1, <1>3, <1>4, DurableStays DEF CommitSnapshot, CommitInstalled, Inv
<1>9. DurableRecord'
  BY <1>1, <1>5, <1>8 DEF CommitSnapshot, CommitInstalled, DurableRecord, ConfirmedIsDurable
<1> QED BY <1>1, <1>2, <1>3, <1>6, <1>7, <1>9 DEF Inv

\* A step that leaves the media alone and hands out nothing keeps what is on record.
LEMMA QuietDurable ==
    ASSUME DurableRecord, UNCHANGED <<disk, shown, confirmed>>, permits' \subseteq permits
    PROVE  DurableRecord'
BY DEF DurableRecord, ConfirmedIsDurable, DisclosedOnRecord

\* The invariant over a failed call, the end of a call, and everything between calls.
LEMMA NextInv == Inv /\ [Next]_vars => Inv'
<1> SUFFICES ASSUME Inv, [Next]_vars PROVE Inv'
  OBVIOUS
<1>1. EmptyCopy.helper = EmptyStore /\ EmptyCopy \in Copies /\ Good(EmptyStore)
  BY EmptyGood DEF EmptyCopy, Births, Ownership, Copies, Good
<1>2. ASSUME NEW b \in Births PROVE Quarantined(b) \in Births /\ Quarantined(Quarantined(b)) = Quarantined(b)
  BY DEF Births, Ownership, Quarantined
<1>3. live.births \in Births /\ disk.births \in Births
  BY DEF Inv, TypeOK, Copies
<1>4. CASE CommitFails
  <2>1. CopiesGood' /\ TypeOK'
    BY <1>1, <1>4, FaultAssumption DEF CommitFails, Inv, CopiesGood, TypeOK, Phases
  <2>2. PhaseInv'
    BY <1>4 DEF CommitFails, Inv, PhaseInv, Follows
  <2> QED BY <1>4, <2>1, <2>2, QuietDurable DEF CommitFails, Inv
<1>5. CASE Reload
  <2>1. live = disk /\ (answer # NoPermit => OnRecord(disk.helper, answer) /\ answer \in Permits)
    BY <1>5 DEF Reload, Inv, PhaseInv, TypeOK
  <2>2. CopiesGood' /\ TypeOK'
    BY <1>1, <1>5, <2>1 DEF Reload, Inv, CopiesGood, TypeOK, Phases
  <2>3. PhaseInv'
    BY <1>5, <2>1 DEF Reload, PhaseInv, Follows
  <2>4. disk.helper \in Stores
    BY DEF Inv, CopiesGood, Good
  <2>5. Extends(disk.helper, disk.helper)
    BY <2>4, HelperAssumption DEF Extends, Stores
  <2>6. ConfirmedIsDurable'
    BY <1>5, <2>1, <2>5 DEF Reload, ConfirmedIsDurable
  <2>7. DisclosedOnRecord'
    <3>1. permits' \subseteq permits \cup {answer} /\ (answer \in permits' => answer \in permits \/ answer # NoPermit)
      BY <1>5 DEF Reload
    <3>2. ASSUME NEW p \in permits' PROVE OnRecord(disk.helper, p)
      <4>1. CASE p \in permits
        <5> DEFINE x == <<p.nonce, p.attempt, p.cred>>
        <5>1. x \in shown \cup {<<q.nonce, q.attempt, q.cred>> : q \in permits}
          BY <4>1
        <5> QED BY <5>1 DEF Inv, DurableRecord, DisclosedOnRecord, OnRecord
      <4>2. CASE p = answer /\ answer # NoPermit
        BY <2>1, <4>2
      <4> QED BY <3>1, <3>2, <4>1, <4>2
    <3>3. \A x \in shown : disk.helper.retrieves[x[1]].attempt = x[2] /\ disk.helper.retrieves[x[1]].cred = x[3]
      BY DEF Inv, DurableRecord, DisclosedOnRecord
    <3> QED BY <1>5, <3>2, <3>3 DEF Reload, DisclosedOnRecord, OnRecord
  <2> QED BY <2>2, <2>3, <2>6, <2>7 DEF Inv, DurableRecord
<1>6. CASE ReloadFails
  <2>1. CopiesGood' /\ TypeOK' /\ PhaseInv'
    BY <1>6, FaultAssumption DEF ReloadFails, Inv, CopiesGood, TypeOK, PhaseInv, Phases
  <2> QED BY <1>6, <2>1, QuietDurable DEF ReloadFails, Inv
<1>7. ASSUME NEW g \in Gens, InstallTerminal(g) PROVE Inv'
  <2>1. /\ live'.helper = FactRecorded(live.helper, g, "Terminal") /\ live'.births = Quarantined(live.births)
        /\ live' = [helper |-> live'.helper, births |-> live'.births]
        /\ live.helper = disk.helper /\ Follows(live.births) /\ live.helper.claims[g] # 0
    BY <1>7 DEF InstallTerminal, Inv, PhaseInv, store
  <2>2. Installed(disk.helper, live'.helper) /\ Good(live'.helper)
    BY <2>1, InstalledExtends DEF Installed, Inv, CopiesGood
  <2>3. live' \in Copies
    BY <1>2, <1>3, <2>1, <2>2 DEF Copies, Good
  <2>4. CopiesGood' /\ TypeOK'
    BY <1>7, <2>2, <2>3 DEF InstallTerminal, Inv, CopiesGood, TypeOK, Phases
  <2>5. \A h \in Gens : disk.births[h] # "Absent" => live'.births[h] # "Absent"
    BY <2>1 DEF Follows, Quarantined
  <2>6. PhaseInv'
    BY <1>7, <2>2, <2>5 DEF InstallTerminal, Inv, PhaseInv
  <2> QED BY <1>7, <2>4, <2>6, QuietDurable DEF InstallTerminal, Inv
<1>8. ASSUME NEW permit \in permits, MaterializeClaimedBatch(permit) PROVE Inv'
  <2>1. permit \in Permits /\ live.helper = disk.helper
    BY <1>8 DEF MaterializeClaimedBatch, Inv, PhaseInv, TypeOK
  <2>2. <<permit.nonce, permit.attempt, permit.cred>> \in Nonces \X Gens \X Credentials
    BY <2>1 DEF Permits
  <2>3. CopiesGood' /\ TypeOK' /\ PhaseInv'
    BY <1>8, <2>2 DEF MaterializeClaimedBatch, Inv, CopiesGood, TypeOK, PhaseInv, Follows
  <2>4. shown' \cup {<<p.nonce, p.attempt, p.cred>> : p \in permits'}
           \subseteq shown \cup {<<p.nonce, p.attempt, p.cred>> : p \in permits}
    BY <1>8 DEF MaterializeClaimedBatch
  <2> QED BY <1>8, <2>3, <2>4 DEF MaterializeClaimedBatch, Inv, DurableRecord, ConfirmedIsDurable, DisclosedOnRecord
<1>9. CASE RecoverAuthorityState
  <2>1. /\ live'.helper = live.helper /\ live'.births = Quarantined(live.births)
        /\ live' = [helper |-> live'.helper, births |-> live'.births]
    BY <1>9 DEF RecoverAuthorityState, Inv, TypeOK, Copies
  <2>2. CopiesGood' /\ TypeOK'
    BY <1>2, <1>3, <1>9, <2>1 DEF RecoverAuthorityState, Inv, CopiesGood, TypeOK, Copies
  <2>3. PhaseInv'
    BY <1>2, <1>3, <1>9, <2>1 DEF RecoverAuthorityState, Inv, PhaseInv, Follows
  <2> QED BY <1>9, <2>2, <2>3, QuietDurable DEF RecoverAuthorityState, Inv
<1>10. CASE Close
  <2>1. CopiesGood' /\ TypeOK' /\ PhaseInv'
    BY <1>1, <1>10, FaultAssumption DEF Close, Inv, CopiesGood, TypeOK, PhaseInv, Phases
  <2> QED BY <1>10, <2>1, QuietDurable DEF Close, Inv
<1>11. CASE Reopen
  <2>1. CopiesGood' /\ TypeOK' /\ PhaseInv'
    BY <1>11 DEF Reopen, Inv, CopiesGood, TypeOK, PhaseInv, Phases, Follows
  <2> QED BY <1>11, <2>1, QuietDurable DEF Reopen, Inv
<1>12. CASE UNCHANGED vars
  <2>1. CopiesGood' /\ TypeOK' /\ PhaseInv'
    BY <1>12 DEF vars, Inv, CopiesGood, TypeOK, PhaseInv, Follows
  <2> QED BY <1>12, <2>1, QuietDurable DEF vars, Inv
<1>13. Next => \/ \E g \in Gens : Call(g) \/ InstallTerminal(g)
               \/ CommitSnapshot \/ CommitInstalled \/ CommitFails \/ Reload \/ ReloadFails
               \/ \E permit \in permits : MaterializeClaimedBatch(permit)
               \/ RecoverAuthorityState \/ Close \/ Reopen
  BY DEF Next, Call
<1> QED BY <1>4, <1>5, <1>6, <1>7, <1>8, <1>9, <1>10, <1>11, <1>12, <1>13, CallInv, CommittedInv

\* Every copy is good and within a call of the media, and what was answered is durable, at
\* every step of every call, commit, read-back, crash and reopening.
THEOREM InvHolds == Spec => []Inv
BY InitInv, NextInv, PTL DEF Spec

\* Every copy and every row keeps its type.
THEOREM TypeCorrect == Spec => []TypeOK
BY InvHolds, PTL DEF Inv

\* Between two calls the live copy is what a reader of the media would get, whatever
\* failed before: no operation stays in one copy only.
THEOREM LiveIsOnDisk == Spec => []LiveMatchesDisk
<1>1. Inv => LiveMatchesDisk
  BY DEF Inv, PhaseInv, Follows, LiveMatchesDisk
<1> QED BY <1>1, InvHolds, PTL

\* What was answered, handed out or disclosed is durable when it is, and stays so over
\* any number of failed commits, failed read-backs and crashes.
THEOREM AnswersAreDurable == Spec => []DurableRecord
BY InvHolds, PTL DEF Inv

-----------------------------------------------------------------------------
(* The media are an atomic helper store *)

\* The permits of the atomic store.
AbstractPermits ==
    IF phase \in {"poisoned", "down"} THEN {}
    ELSE permits \cup (IF phase = "reload" THEN {answer} \ {NoPermit} ELSE {})

\* A commit is the call itself.
LEMMA CommitIsCall ==
    ASSUME Inv, CommitSnapshot
    PROVE  Atomic!Next \/ UNCHANGED Atomic!vars
<1>1. /\ Called(disk.helper, disk'.helper, answer) /\ shown' = shown /\ Now' = Now
      /\ AbstractPermits = permits /\ AbstractPermits' = permits \cup ({answer} \ {NoPermit})
  BY DEF CommitSnapshot, Inv, PhaseInv, AbstractPermits, Now
<1> DEFINE Unanswered == shown' = shown /\ Now' = Now /\ AbstractPermits' = AbstractPermits
<1>2. answer = NoPermit => Unanswered
  BY <1>1
<1>3. CASE disk'.helper = disk.helper /\ answer = NoPermit
  BY <1>2, <1>3 DEF Atomic!vars, AbstractPermits
<1>4. ASSUME NEW g \in Gens, disk'.helper = Registered(disk.helper, g), answer = NoPermit
      PROVE  Atomic!PersistArm(g)
  BY <1>2, <1>4 DEF Atomic!PersistArm, Atomic!Registered, Registered, AbstractPermits
<1>5. ASSUME NEW g \in Gens, NEW proved \in Cursors, AdmitOk(disk.helper, g),
             disk'.helper = Admitted(disk.helper, g, proved), answer = NoPermit
      PROVE  Atomic!AdmitClaim(g, proved) /\ proved \in Atomic!Cursors
  BY <1>2, <1>5 DEF Atomic!AdmitClaim, Atomic!AdmitOk, Atomic!Admitted, Atomic!Cursors, AdmitOk, Admitted, Cursors, AbstractPermits
<1>6. ASSUME NEW g \in Gens, disk.helper.claims[g] # 0, disk'.helper = AttachmentRevoked(disk.helper, g), answer = NoPermit
      PROVE  Atomic!RevokeControllerAttachment(g)
  BY <1>2, <1>6 DEF Atomic!RevokeControllerAttachment, Atomic!AttachmentRevoked, AttachmentRevoked, AbstractPermits
<1>7. ASSUME NEW g \in Gens, RearmResult(disk.helper, g) = "Rearmed", disk'.helper = Rearmed(disk.helper, g), answer = NoPermit
      PROVE  Atomic!TryRearmJoin(g)
  BY <1>2, <1>7 DEF Atomic!TryRearmJoin, Atomic!RearmResult, Atomic!HandledComplete, Atomic!Rearmed, RearmResult, HandledComplete,
     Rearmed, AbstractPermits
<1>8. ASSUME NEW g \in Gens, NEW grant \in Grants, ~grant.revoked, MintOk(disk.helper, g, grant, Now),
             disk'.helper = Minted(disk.helper, g, grant), answer = NoPermit
      PROVE  \E c \in Atomic!Credentials, lease \in 1..Horizon, operations \in Atomic!Operations :
                Atomic!PersistHelperGrant(g, c, lease, operations)
  <2>1. /\ grant = [cred |-> grant.cred, lease |-> grant.lease, operations |-> grant.operations, revoked |-> FALSE]
        /\ grant.cred \in Atomic!Credentials /\ grant.lease \in 1..Horizon /\ grant.operations \in Atomic!Operations
    BY <1>8 DEF Grants, Atomic!Credentials, Credentials, Atomic!Operations, Operations
  <2>2. Atomic!MintOk(disk.helper, g, grant, Now)
    BY <1>8 DEF Atomic!MintOk, Atomic!Current, Atomic!Closed, Atomic!HandledComplete, Atomic!Mintable, Atomic!NoGrant,
       MintOk, Current, Closed, HandledComplete, Mintable, NoGrant
  <2>3. disk'.helper = Atomic!Minted(disk.helper, g, grant)
    BY <1>8 DEF Atomic!Minted, Atomic!Replaced, Atomic!NoGrant, Minted, Replaced, NoGrant
  <2>4. Atomic!PersistHelperGrant(g, grant.cred, grant.lease, grant.operations)
    BY <1>2, <1>8, <2>1, <2>2, <2>3 DEF Atomic!PersistHelperGrant, AbstractPermits
  <2> QED BY <2>1, <2>4
<1>9. ASSUME NEW g \in Gens, NEW c \in Credentials, RevokeGrantOk(disk.helper, g, c),
             disk'.helper = GrantRevoked(disk.helper, g), answer = NoPermit
      PROVE  Atomic!RevokeHelperGrant(g, c)
  BY <1>2, <1>9 DEF Atomic!RevokeHelperGrant, Atomic!RevokeGrantOk, Atomic!GrantRevoked, Atomic!NoGrant, RevokeGrantOk,
     GrantRevoked, NoGrant, AbstractPermits
<1>10. ASSUME NEW g \in Gens, NEW c \in Credentials, NEW n \in Nonces, RetrieveFresh(disk.helper, n, g, c, Now),
              disk'.helper = Retrieved(disk.helper, n, g, c), answer = PermitOf(n, g, c, "Fresh")
       PROVE  Atomic!RecordRetrieve(n, g, c)
  <2>1. AbstractPermits' = AbstractPermits \cup {Atomic!PermitOf(n, g, c, "Fresh")}
    BY <1>1, <1>10, PermitIsOne DEF PermitOf, Atomic!PermitOf, Permits
  <2>2. Atomic!RetrieveFresh(disk.helper, n, g, c, Now)
    BY <1>10 DEF Atomic!RetrieveFresh, Atomic!RetrieveOk, Atomic!Authentic, Atomic!Unrevoked, Atomic!Allows, Atomic!NoGrant,
       Atomic!NoRetrieve, Atomic!NoAck, Atomic!FreshUse, Atomic!Current, Atomic!Closed, Atomic!HandledComplete,
       RetrieveFresh, RetrieveOk, Authentic, Unrevoked, Allows, NoGrant, NoRetrieve, NoAck, FreshUse, Current, Closed,
       HandledComplete
  <2>3. disk'.helper = Atomic!Retrieved(disk.helper, n, g, c)
    BY <1>10 DEF Atomic!Retrieved, Atomic!Origin, Retrieved, Origin
  <2> QED BY <1>1, <2>1, <2>2, <2>3 DEF Atomic!RecordRetrieve, AbstractPermits
<1>11. ASSUME NEW g \in Gens, NEW c \in Credentials, NEW n \in Nonces, RetrieveReplays(disk.helper, n, g, c),
              disk'.helper = disk.helper, answer = PermitOf(n, g, c, "ExactReplay")
       PROVE  Atomic!ReplayRetrieve(n, g, c)
  <2>1. AbstractPermits' = AbstractPermits \cup {Atomic!PermitOf(n, g, c, "ExactReplay")}
    BY <1>1, <1>11, PermitIsOne DEF PermitOf, Atomic!PermitOf, Permits
  <2>2. Atomic!RetrieveReplays(disk.helper, n, g, c)
    BY <1>11 DEF Atomic!RetrieveReplays, Atomic!RetrieveOk, Atomic!Authentic, Atomic!Unrevoked, Atomic!Allows, Atomic!NoGrant,
       Atomic!NoAck, Atomic!Origin, RetrieveReplays, RetrieveOk, Authentic, Unrevoked, Allows, NoGrant, NoAck, Origin
  <2> QED BY <1>1, <1>11, <2>1, <2>2 DEF Atomic!ReplayRetrieve, AbstractPermits
<1>12. ASSUME NEW g \in Gens, NEW c \in Credentials, NEW n \in Nonces, NEW retrieval \in Nonces, NEW cursor \in Cursors,
              AcknowledgeFresh(disk.helper, n, g, c, retrieval, cursor, Now),
              disk'.helper = Acknowledged(disk.helper, n, g, c, retrieval, cursor), answer = NoPermit
       PROVE  Atomic!AcknowledgeRetrievedBatch(n, g, c, retrieval, cursor)
  <2>1. Atomic!AcknowledgeFresh(disk.helper, n, g, c, retrieval, cursor, Now)
    BY <1>12 DEF Atomic!AcknowledgeFresh, Atomic!Authentic, Atomic!Unrevoked, Atomic!Allows, Atomic!NoGrant,
       Atomic!NoRetrieve, Atomic!NoAck, Atomic!FreshUse, Atomic!Current, Atomic!Closed, Atomic!HandledComplete, Atomic!Origin,
       AcknowledgeFresh, Authentic, Unrevoked, Allows, NoGrant, NoRetrieve, NoAck, FreshUse, Current, Closed, HandledComplete,
       Origin
  <2>2. disk'.helper = Atomic!Acknowledged(disk.helper, n, g, c, retrieval, cursor)
    BY <1>12 DEF Atomic!Acknowledged, Atomic!Furthest, Acknowledged, Furthest
  <2> QED BY <1>2, <1>12, <2>1, <2>2 DEF Atomic!AcknowledgeRetrievedBatch, AbstractPermits
<1> HIDE DEF Unanswered
<1>13. Credentials = Atomic!Credentials /\ Cursors = Atomic!Cursors
  BY DEF Credentials, Cursors, Atomic!Credentials, Atomic!Cursors
<1>14. CASE \E g \in Gens, c \in Credentials :
              \/ RevokeGrantOk(disk.helper, g, c) /\ disk'.helper = GrantRevoked(disk.helper, g) /\ answer = NoPermit
              \/ \E n \in Nonces :
                   \/ /\ RetrieveFresh(disk.helper, n, g, c, Now) /\ disk'.helper = Retrieved(disk.helper, n, g, c)
                      /\ answer = PermitOf(n, g, c, "Fresh")
                   \/ /\ RetrieveReplays(disk.helper, n, g, c) /\ disk'.helper = disk.helper
                      /\ answer = PermitOf(n, g, c, "ExactReplay")
                   \/ \E retrieval \in Nonces, cursor \in Cursors :
                        /\ AcknowledgeFresh(disk.helper, n, g, c, retrieval, cursor, Now)
                        /\ disk'.helper = Acknowledged(disk.helper, n, g, c, retrieval, cursor) /\ answer = NoPermit
  <2>1. PICK g \in Gens, c \in Atomic!Credentials :
                \/ Atomic!RevokeHelperGrant(g, c)
                \/ \E n \in Nonces :
                     \/ Atomic!RecordRetrieve(n, g, c) \/ Atomic!ReplayRetrieve(n, g, c)
                     \/ \E retrieval \in Nonces, cursor \in Atomic!Cursors :
                          Atomic!AcknowledgeRetrievedBatch(n, g, c, retrieval, cursor)
    BY <1>9, <1>10, <1>11, <1>12, <1>13, <1>14
  <2> QED BY <2>1 DEF Atomic!Next
<1>15. CASE \E g \in Gens :
              \/ disk'.helper = Registered(disk.helper, g) /\ answer = NoPermit
              \/ \E proved \in Cursors :
                   AdmitOk(disk.helper, g) /\ disk'.helper = Admitted(disk.helper, g, proved) /\ answer = NoPermit
              \/ disk.helper.claims[g] # 0 /\ disk'.helper = AttachmentRevoked(disk.helper, g) /\ answer = NoPermit
              \/ RearmResult(disk.helper, g) = "Rearmed" /\ disk'.helper = Rearmed(disk.helper, g) /\ answer = NoPermit
              \/ \E grant \in Grants : /\ ~grant.revoked /\ MintOk(disk.helper, g, grant, Now)
                                       /\ disk'.helper = Minted(disk.helper, g, grant) /\ answer = NoPermit
  <2>1. PICK g \in Gens :
                \/ Atomic!PersistArm(g) \/ Atomic!RevokeControllerAttachment(g) \/ Atomic!TryRearmJoin(g)
                \/ \E proved \in Atomic!Cursors : Atomic!AdmitClaim(g, proved)
                \/ \E c \in Atomic!Credentials, lease \in 1..Horizon, operations \in Atomic!Operations :
                      Atomic!PersistHelperGrant(g, c, lease, operations)
    BY <1>4, <1>5, <1>6, <1>7, <1>8, <1>13, <1>15
  <2> QED BY <2>1 DEF Atomic!Next
<1> QED BY <1>1, <1>3, <1>14, <1>15 DEF Called

\* The end of a process takes the permits with it and is a restart.
LEMMA LossIsRestart ==
    ASSUME Good(disk.helper), UNCHANGED <<disk, shown>>, AbstractPermits' = {}
    PROVE  Atomic!Next
<1>1. Atomic!Restorable(disk.helper)
  BY DEF Good, Restorable, RestorableGrants, RestorableRetrieves, RestorableAcks, RestorableHandled, RestorableJoins,
     RearmResult, HandledComplete, NoRetrieve, NoAck, Allows,
     Atomic!Restorable, Atomic!RestorableGrants, Atomic!RestorableRetrieves, Atomic!RestorableAcks, Atomic!RestorableHandled,
     Atomic!RestorableJoins, Atomic!RearmResult, Atomic!HandledComplete, Atomic!NoRetrieve, Atomic!NoAck, Atomic!Allows
<1>2. Now' = Now
  BY DEF Now
<1> QED BY <1>1, <1>2 DEF Atomic!Next, Atomic!Restart, AbstractPermits

\* Every step is a call, a fact, a disclosure, a restart or a stutter of the atomic store.
LEMMA StepIsAtomic == Inv /\ [Next]_vars => Atomic!Next \/ UNCHANGED Atomic!vars
<1> SUFFICES ASSUME Inv, [Next]_vars PROVE Atomic!Next \/ UNCHANGED Atomic!vars
  OBVIOUS
<1>0. Good(disk.helper) /\ Now' = Now
  BY DEF Inv, CopiesGood, Now
<1>1. UNCHANGED <<disk, shown>> /\ AbstractPermits' = AbstractPermits => UNCHANGED Atomic!vars
  BY <1>0 DEF Atomic!vars, AbstractPermits
<1>2. ASSUME NEW g \in Gens, Call(g) PROVE UNCHANGED <<disk, shown>> /\ AbstractPermits' = AbstractPermits
  BY <1>2, CallShape DEF Inv, AbstractPermits
<1>3. CASE CommitFails \/ (\E g \in Gens : InstallTerminal(g)) \/ RecoverAuthorityState \/ Reload \/ Reopen \/ UNCHANGED vars
  <2>1. UNCHANGED <<disk, shown>>
    BY <1>3 DEF CommitFails, InstallTerminal, RecoverAuthorityState, Reload, Reopen, vars
  <2>2. AbstractPermits' = AbstractPermits
    BY <1>3 DEF CommitFails, InstallTerminal, RecoverAuthorityState, Reload, Reopen, vars, Inv, PhaseInv, AbstractPermits
  <2> QED BY <1>1, <2>1, <2>2
<1>4. CASE ReloadFails \/ Close
  BY <1>0, <1>4, LossIsRestart DEF ReloadFails, Close, AbstractPermits
<1>5. CASE CommitInstalled
  <2>1. PICK g \in Gens : disk.helper.claims[g] # 0 /\ disk'.helper = FactRecorded(disk.helper, g, "Terminal")
    BY <1>5 DEF CommitInstalled, Inv, PhaseInv, Installed
  <2>2. "Terminal" \in Atomic!Facts /\ AbstractPermits' = AbstractPermits /\ shown' = shown
    BY <1>5 DEF Atomic!Facts, CommitInstalled, AbstractPermits
  <2>3. Atomic!RecordNativeTurnFact(g, "Terminal")
    BY <1>0, <2>1, <2>2 DEF Atomic!RecordNativeTurnFact, Atomic!FactRecorded, FactRecorded, AbstractPermits
  <2> QED BY <2>2, <2>3 DEF Atomic!Next
<1>6. ASSUME NEW permit \in permits, MaterializeClaimedBatch(permit) PROVE Atomic!Next
  <2>1. /\ disk' = disk /\ phase = "idle" /\ phase' = "idle" /\ live.helper = disk.helper
        /\ permits' = permits \ {permit}
        /\ shown' = IF MaterializeOk(disk.helper, permit, Now) THEN shown \cup {<<permit.nonce, permit.attempt, permit.cred>>}
                    ELSE shown
    BY <1>6 DEF MaterializeClaimedBatch, Inv, PhaseInv, store
  <2>2. permit \in AbstractPermits /\ AbstractPermits' = AbstractPermits \ {permit}
    BY <2>1 DEF AbstractPermits
  <2>3. MaterializeOk(disk.helper, permit, Now) <=> Atomic!MaterializeOk(disk.helper, permit, Now)
    BY DEF MaterializeOk, Authentic, Unrevoked, Allows, NoGrant, FreshUse, Current, Closed, HandledComplete, Origin,
       Atomic!MaterializeOk, Atomic!Authentic, Atomic!Unrevoked, Atomic!Allows, Atomic!NoGrant, Atomic!FreshUse, Atomic!Current,
       Atomic!Closed, Atomic!HandledComplete, Atomic!Origin
  <2>4. Atomic!MaterializeClaimedBatch(permit)
    BY <1>0, <2>1, <2>2, <2>3 DEF Atomic!MaterializeClaimedBatch, AbstractPermits
  <2> QED BY <2>2, <2>4 DEF Atomic!Next, AbstractPermits
<1>7. Next => \/ \E g \in Gens : Call(g) \/ InstallTerminal(g)
              \/ CommitSnapshot \/ CommitInstalled \/ CommitFails \/ Reload \/ ReloadFails
              \/ \E permit \in permits : MaterializeClaimedBatch(permit)
              \/ RecoverAuthorityState \/ Close \/ Reopen
  BY DEF Next, Call
<1> QED BY <1>1, <1>2, <1>3, <1>4, <1>5, <1>6, <1>7, CommitIsCall

\* The snapshot backend is an atomic helper store: with failures and crashes at any step
\* of any call, what is durable is what some sequence of whole calls and restarts leaves.
THEOREM BackendIsAtomic == Spec => AtomicStore
<1>1. Init => Atomic!Init
  BY DEF Init, EmptyCopy, EmptyStore, NoGrant, NoRetrieve, NoAck, Now, Atomic!Init, Atomic!EmptyStore, Atomic!NoGrant,
     Atomic!NoRetrieve, Atomic!NoAck
<1> QED BY <1>1, StepIsAtomic, InvHolds, PTL DEF Spec, AtomicStore, Atomic!Spec

=============================================================================
