----------------------------- MODULE HelperStore -----------------------------
(***************************************************************************)
(* The helper sections of the semantic store (gearwit-host/src/persist.rs, *)
(* FakePersist): the credentials minted for an attempt, the retrievals and *)
(* acknowledgements made with them, the handled coverage they add up to    *)
(* and the re-arm joins that coverage permits.                             *)
(*                                                                         *)
(* The sections are one record and a port method is the condition of its   *)
(* success with the record it leaves, so that a backend can keep several   *)
(* copies.  There is one arm.  An attempt is named by the generation it    *)
(* was claimed at (the store admits one claim for each), a credential of   *)
(* an attempt by the order of its minting (reference and verifier are      *)
(* random and minted together), a retrieval by the nonce of the request    *)
(* that recorded it.  A credential fixes its lease and its operations, so  *)
(* a presented binding is an attempt and a credential; identities, digests *)
(* and bodies are functions of those.                                      *)
(***************************************************************************)
EXTENDS Integers

CONSTANTS Gens,            \* generations the arm may be registered at
          MaxCredential,   \* bound on the credentials minted for one attempt
          Nonces,          \* request nonces, of retrievals and acknowledgements
          Newest,          \* number of events in a claim
          Horizon          \* lease of attachment and birth, end of coverage

ASSUME HelperAssumption ==
    /\ Gens \subseteq Nat \ {0}
    /\ MaxCredential \in Nat
    /\ Newest \in Nat \ {0}
    /\ Horizon \in Nat \ {0}

Credentials == 1..MaxCredential
Cursors == 1..Newest
Facts == {"Terminal", "ControllerLost"}

\* What a credential is good for: one operation or both.
Operations == {"retrieve", "acknowledge", "all"}
Allows(operations, operation) == operations \in {operation, "all"}

NoGrant == [cred |-> 0, lease |-> 0, operations |-> "none", revoked |-> FALSE]
Grants == [cred : Credentials, lease : 1..Horizon, operations : Operations,
           revoked : BOOLEAN]
NoRetrieve == [attempt |-> 0, cred |-> 0, operations |-> "none"]
Retrieves == [attempt : Gens, cred : Credentials, operations : Operations]
NoAck == [attempt |-> 0, cred |-> 0, retrieval |-> "none", cursor |-> 0]
Acks == [attempt : Gens, cred : Credentials, retrieval : Nonces, cursor : Cursors]

Stores ==
    [arm : Gens \cup {0},
     claims : [Gens -> 0..Newest],     \* how far the drain proves; 0: no claim
     revoked : SUBSET Gens,            \* attempts whose attachment is revoked
     facts : [Gens -> SUBSET Facts],
     grants : [Gens -> Grants \cup {NoGrant}],
     retired : SUBSET (Gens \X Credentials),
     retrieves : [Nonces -> Retrieves \cup {NoRetrieve}],
     acks : [Nonces -> Acks \cup {NoAck}],
     handled : [Gens -> 0..Newest],
     rearmed : SUBSET Gens]

EmptyStore ==
    [arm |-> 0,
     claims |-> [g \in Gens |-> 0],
     revoked |-> {},
     facts |-> [g \in Gens |-> {}],
     grants |-> [g \in Gens |-> NoGrant],
     retired |-> {},
     retrieves |-> [n \in Nonces |-> NoRetrieve],
     acks |-> [n \in Nonces |-> NoAck],
     handled |-> [g \in Gens |-> 0],
     rearmed |-> {}]

-----------------------------------------------------------------------------
(* Arm, claim, attachment, native facts *)

Registered(s, g) == [s EXCEPT !.arm = g]

\* The authority admits at the registered generation.  Without a coverage
\* witness only the first event is proved, with one a prefix.
AdmitOk(s, g) == s.arm = g /\ s.claims[g] = 0
Admitted(s, g, proved) == [s EXCEPT !.claims[g] = proved]

AttachmentRevoked(s, g) == [s EXCEPT !.revoked = @ \cup {g}]

FactRecorded(s, g, f) == [s EXCEPT !.facts[g] = @ \cup {f}]

-----------------------------------------------------------------------------
(* Credentials *)

\* Lost, handled through the newest event, or terminal: no fresh use.
HandledComplete(s, g) == s.handled[g] = Newest
Closed(s, g) == s.facts[g] # {} \/ HandledComplete(s, g)

\* Generation and leases that every mint and every fresh use need.
Current(s, g, now) == s.arm = g /\ now < Horizon

\* The first grant of the attempt, the same one again, or a rotation of a
\* live one that changes neither what it is bound to nor its operations.
Mintable(s, g, grant) ==
    \/ s.grants[g] = NoGrant
    \/ s.grants[g] = grant
    \/ /\ ~s.grants[g].revoked
       /\ s.grants[g].operations = grant.operations
       /\ s.grants[g].cred # grant.cred

\* Mutants: a retired credential is minted again; a closed attempt gets a new one.
MintOkRetired(s, g, grant, now) ==
    /\ s.claims[g] # 0
    /\ g \notin s.revoked
    /\ Current(s, g, now)
    /\ now < grant.lease
    /\ ~Closed(s, g)
    /\ Mintable(s, g, grant)

MintOkClosed(s, g, grant, now) ==
    /\ s.claims[g] # 0
    /\ g \notin s.revoked
    /\ Current(s, g, now)
    /\ now < grant.lease
    /\ <<g, grant.cred>> \notin s.retired
    /\ Mintable(s, g, grant)

MintOk(s, g, grant, now) ==
    /\ s.claims[g] # 0
    /\ g \notin s.revoked
    /\ Current(s, g, now)
    /\ now < grant.lease
    /\ ~Closed(s, g)
    /\ <<g, grant.cred>> \notin s.retired
    /\ Mintable(s, g, grant)

Replaced(s, g, grant) ==
    IF s.grants[g] = NoGrant \/ s.grants[g] = grant THEN {}
    ELSE {<<g, s.grants[g].cred>>}

Minted(s, g, grant) ==
    [s EXCEPT !.grants[g] = grant, !.retired = @ \cup Replaced(s, g, grant)]

\* A scope from before a rotation does not name the grant.
RevokeGrantOk(s, g, c) == s.grants[g] # NoGrant /\ s.grants[g].cred = c
GrantRevoked(s, g) == [s EXCEPT !.grants[g].revoked = TRUE]

\* authenticate_binding and enforce_unrevoked: on every call, replays too.
Authentic(s, g, c) ==
    /\ s.grants[g] # NoGrant
    /\ s.grants[g].cred = c
    /\ s.claims[g] # 0
Unrevoked(s, g) == ~s.grants[g].revoked /\ g \notin s.revoked

FreshUse(s, g, now) ==
    /\ now < s.grants[g].lease
    /\ Current(s, g, now)
    /\ ~Closed(s, g)

-----------------------------------------------------------------------------
(* Retrieval, materialization, acknowledgement *)

RetrieveOk(s, n, g, c) ==
    /\ Authentic(s, g, c)
    /\ Allows(s.grants[g].operations, "retrieve")
    /\ Unrevoked(s, g)
    /\ s.acks[n] = NoAck

Origin(s, g, c) == [attempt |-> g, cred |-> c, operations |-> s.grants[g].operations]

RetrieveReplays(s, n, g, c) == RetrieveOk(s, n, g, c) /\ s.retrieves[n] = Origin(s, g, c)

RetrieveFresh(s, n, g, c, now) ==
    /\ RetrieveOk(s, n, g, c)
    /\ s.retrieves[n] = NoRetrieve
    /\ FreshUse(s, g, now)

Retrieved(s, n, g, c) == [s EXCEPT !.retrieves[n] = Origin(s, g, c)]

PermitOf(n, g, c, provenance) ==
    [nonce |-> n, attempt |-> g, cred |-> c, provenance |-> provenance]

\* Mutants: a permit is taken without asking for the grant again; a fresh permit without
\* asking for lease and attempt again.
MaterializeOkUnauthentic(s, permit, now) ==
    /\ s.retrieves[permit.nonce].attempt = permit.attempt
    /\ permit.provenance = "Fresh" => FreshUse(s, permit.attempt, now)

MaterializeOkAnyTime(s, permit, now) ==
    /\ Authentic(s, permit.attempt, permit.cred)
    /\ Unrevoked(s, permit.attempt)
    /\ s.retrieves[permit.nonce] = Origin(s, permit.attempt, permit.cred)

\* The body is shown to the binding the permit was minted for.
MaterializeOk(s, permit, now) ==
    /\ Authentic(s, permit.attempt, permit.cred)
    /\ Allows(s.grants[permit.attempt].operations, "retrieve")
    /\ Unrevoked(s, permit.attempt)
    /\ s.retrieves[permit.nonce] = Origin(s, permit.attempt, permit.cred)
    /\ permit.provenance = "Fresh" => FreshUse(s, permit.attempt, now)

AcknowledgeFreshAnyOrigin(s, n, g, c, retrieval, cursor, now) ==
    /\ Authentic(s, g, c)
    /\ Allows(s.grants[g].operations, "acknowledge")
    /\ Unrevoked(s, g)
    /\ s.retrieves[n] = NoRetrieve
    /\ s.acks[n] = NoAck
    /\ FreshUse(s, g, now)
    /\ s.retrieves[retrieval] # NoRetrieve
    /\ cursor <= s.claims[g]

AcknowledgeFresh(s, n, g, c, retrieval, cursor, now) ==
    /\ Authentic(s, g, c)
    /\ Allows(s.grants[g].operations, "acknowledge")
    /\ Unrevoked(s, g)
    /\ s.retrieves[n] = NoRetrieve
    /\ s.acks[n] = NoAck
    /\ FreshUse(s, g, now)
    /\ s.retrieves[retrieval] = Origin(s, g, c)
    /\ cursor <= s.claims[g]

AcknowledgeReplays(s, n, g, c) ==
    /\ Authentic(s, g, c)
    /\ Allows(s.grants[g].operations, "acknowledge")
    /\ Unrevoked(s, g)
    /\ s.acks[n] # NoAck /\ s.acks[n].attempt = g /\ s.acks[n].cred = c

\* Mutants: the coverage follows the last request; it adds up.
FurthestLatest(a, b) == b
FurthestSum(a, b) == a + b

Furthest(a, b) == IF a < b THEN b ELSE a

\* The answer echoes the requested cursor, the coverage keeps the furthest.
Acknowledged(s, n, g, c, retrieval, cursor) ==
    [s EXCEPT !.acks[n] = [attempt |-> g, cred |-> c, retrieval |-> retrieval,
                           cursor |-> cursor],
              !.handled[g] = Furthest(@, cursor)]

-----------------------------------------------------------------------------
(* Re-arm join *)

RearmResult(s, g) ==
    LET joined == s.claims[g] # 0 /\ HandledComplete(s, g)
        terminal == "Terminal" \in s.facts[g]
    IN IF g \in s.rearmed
         THEN IF joined /\ terminal THEN "AlreadyRearmed" ELSE "Conflict"
         ELSE IF ~joined THEN "WaitingForHandled"
         ELSE IF ~terminal THEN "WaitingForRecognizedTerminal" ELSE "Rearmed"

Rearmed(s, g) == [s EXCEPT !.rearmed = @ \cup {g}]

-----------------------------------------------------------------------------
(* What restore_from_snapshot accepts: validate_restored_helper_invariants *)

RestorableGrants(s) == \A g \in Gens : <<g, s.grants[g].cred>> \notin s.retired

RestorableRetrieves(s) ==
    \A n \in Nonces : s.retrieves[n] # NoRetrieve =>
        /\ s.acks[n] = NoAck
        /\ s.claims[s.retrieves[n].attempt] # 0
        /\ Allows(s.retrieves[n].operations, "retrieve")

RestorableAcks(s) ==
    \A n \in Nonces : s.acks[n] # NoAck =>
        LET ack == s.acks[n]
            retrieve == s.retrieves[ack.retrieval]
        IN
        /\ retrieve.attempt = ack.attempt /\ retrieve.cred = ack.cred
        /\ Allows(retrieve.operations, "acknowledge")
        /\ s.claims[ack.attempt] # 0
        /\ ack.cursor <= s.claims[ack.attempt]

RestorableHandled(s) ==
    \A g \in Gens : s.handled[g] # 0 => s.claims[g] # 0 /\ s.handled[g] <= s.claims[g]

RestorableJoins(s) == \A g \in s.rearmed : RearmResult(s, g) = "AlreadyRearmed"

Restorable(s) ==
    /\ RestorableGrants(s)
    /\ RestorableRetrieves(s)
    /\ RestorableAcks(s)
    /\ RestorableHandled(s)
    /\ RestorableJoins(s)

=============================================================================
