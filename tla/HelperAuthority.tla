--------------------------- MODULE HelperAuthority ---------------------------
(***************************************************************************)
(* The helper port as one atomic store: what a managed helper, holding a   *)
(* credential that may have been rotated, revoked or outlived, can make    *)
(* of it while the daemon re-registers the arm, the native path reports    *)
(* the turn and the process restarts.                                      *)
(*                                                                         *)
(* A call that is refused changes nothing and has no action.  The store    *)
(* outlives a restart, the permits a retrieval was answered with do not.   *)
(* The facts of the turn come from the native path in any order.           *)
(***************************************************************************)
EXTENDS HelperStore

VARIABLES
    store,      \* the helper sections
    permits,    \* materialization permits in the hands of the caller
    shown,      \* <<nonce, attempt, credential>> a body was handed out for
    now         \* leases compare with it

vars == <<store, permits, shown, now>>

Permits == [nonce : Nonces, attempt : Gens, cred : Credentials,
            provenance : {"Fresh", "ExactReplay"}]

TypeOK ==
    /\ store \in Stores
    /\ permits \subseteq Permits
    /\ shown \subseteq (Nonces \X Gens \X Credentials)
    /\ now \in 0..Horizon

Init ==
    /\ store = EmptyStore
    /\ permits = {}
    /\ shown = {}
    /\ now = 0

-----------------------------------------------------------------------------

PersistArm(g) ==
    /\ store' = Registered(store, g)
    /\ UNCHANGED <<permits, shown, now>>

AdmitClaim(g, proved) ==
    /\ AdmitOk(store, g)
    /\ store' = Admitted(store, g, proved)
    /\ UNCHANGED <<permits, shown, now>>

RevokeControllerAttachment(g) ==
    /\ store.claims[g] # 0
    /\ store' = AttachmentRevoked(store, g)
    /\ UNCHANGED <<permits, shown, now>>

RecordNativeTurnFact(g, f) ==
    /\ store.claims[g] # 0
    /\ store' = FactRecorded(store, g, f)
    /\ UNCHANGED <<permits, shown, now>>

PersistHelperGrant(g, c, lease, operations) ==
    LET grant == [cred |-> c, lease |-> lease, operations |-> operations,
                  revoked |-> FALSE]
    IN /\ MintOk(store, g, grant, now)
       /\ store' = Minted(store, g, grant)
       /\ UNCHANGED <<permits, shown, now>>

RevokeHelperGrant(g, c) ==
    /\ RevokeGrantOk(store, g, c)
    /\ store' = GrantRevoked(store, g)
    /\ UNCHANGED <<permits, shown, now>>

RecordRetrieve(n, g, c) ==
    /\ RetrieveFresh(store, n, g, c, now)
    /\ store' = Retrieved(store, n, g, c)
    /\ permits' = permits \cup {PermitOf(n, g, c, "Fresh")}
    /\ UNCHANGED <<shown, now>>

ReplayRetrieve(n, g, c) ==
    /\ RetrieveReplays(store, n, g, c)
    /\ permits' = permits \cup {PermitOf(n, g, c, "ExactReplay")}
    /\ UNCHANGED <<store, shown, now>>

\* A permit is used up, whether the body is shown or refused.
MaterializeClaimedBatch(permit) ==
    /\ permits' = permits \ {permit}
    /\ shown' = IF MaterializeOk(store, permit, now)
                  THEN shown \cup {<<permit.nonce, permit.attempt, permit.cred>>}
                  ELSE shown
    /\ UNCHANGED <<store, now>>

AcknowledgeRetrievedBatch(n, g, c, retrieval, cursor) ==
    /\ AcknowledgeFresh(store, n, g, c, retrieval, cursor, now)
    /\ store' = Acknowledged(store, n, g, c, retrieval, cursor)
    /\ UNCHANGED <<permits, shown, now>>

TryRearmJoin(g) ==
    /\ RearmResult(store, g) = "Rearmed"
    /\ store' = Rearmed(store, g)
    /\ UNCHANGED <<permits, shown, now>>

\* The store is rebuilt from its recovery snapshot.
Restart ==
    /\ Restorable(store)
    /\ permits' = {}
    /\ UNCHANGED <<store, shown, now>>

Tick ==
    /\ now < Horizon
    /\ now' = now + 1
    /\ UNCHANGED <<store, permits, shown>>

Next ==
    \/ \E g \in Gens :
         \/ PersistArm(g)
         \/ \E proved \in Cursors : AdmitClaim(g, proved)
         \/ RevokeControllerAttachment(g)
         \/ \E f \in Facts : RecordNativeTurnFact(g, f)
         \/ TryRearmJoin(g)
         \/ \E c \in Credentials :
              \/ \E lease \in 1..Horizon, operations \in Operations :
                     PersistHelperGrant(g, c, lease, operations)
              \/ RevokeHelperGrant(g, c)
              \/ \E n \in Nonces :
                   \/ RecordRetrieve(n, g, c)
                   \/ ReplayRetrieve(n, g, c)
                   \/ \E retrieval \in Nonces, cursor \in Cursors :
                        AcknowledgeRetrievedBatch(n, g, c, retrieval, cursor)
    \/ \E permit \in permits : MaterializeClaimedBatch(permit)
    \/ Restart
    \/ Tick

Spec == Init /\ [][Next]_vars

-----------------------------------------------------------------------------

\* Whatever sequence of calls built the store, a restart accepts it: no state the
\* port can reach is one validate_restored_helper_invariants refuses, which would
\* lose the arm for good.
AlwaysRestorable == Restorable(store)

AcksOf(g) == {n \in Nonces : store.acks[n].attempt = g}

\* The handled cursor of an attempt is the furthest event that was acknowledged for
\* it, with the credential the batch was retrieved with, in whatever order prefixes,
\* replays and rotations came; nothing else moves it.
HandledExact ==
    \A g \in Gens :
        /\ \A n \in AcksOf(g) :
              LET ack == store.acks[n] IN
              /\ ack.cursor <= store.handled[g]
              /\ store.retrieves[ack.retrieval].attempt = g
              /\ store.retrieves[ack.retrieval].cred = ack.cred
        /\ store.handled[g] # 0 =>
              \E n \in AcksOf(g) : store.acks[n].cursor = store.handled[g]

\* The credential is rotated away, or revoked itself or with the attachment.
Withdrawn(s, g, c) ==
    \/ <<g, c>> \in s.retired
    \/ s.grants[g].cred = c /\ (s.grants[g].revoked \/ g \in s.revoked)

\* What was done with a credential: retrievals, acknowledgements, bodies shown.
UsesOf(g, c) ==
    [retrieves |-> {n \in Nonces : /\ store.retrieves[n].attempt = g
                                   /\ store.retrieves[n].cred = c},
     acks |-> {n \in Nonces : store.acks[n].attempt = g /\ store.acks[n].cred = c},
     shown |-> {n \in Nonces : <<n, g, c>> \in shown}]

\* A withdrawn credential is withdrawn for good and nothing is done with it any more,
\* exact replays and permits minted before the withdrawal included.
WithdrawalSticks ==
    [][\A g \in Gens, c \in Credentials :
          Withdrawn(store, g, c) => /\ Withdrawn(store', g, c)
                                    /\ UsesOf(g, c)' = UsesOf(g, c)]_vars

\* Once the turn is over, lost or handled, an attempt closes: it never opens again, its
\* credential is not replaced any more and its coverage stays what it was.
ClosedStaysClosed ==
    [][\A g \in Gens : Closed(store, g) =>
          /\ Closed(store', g)
          /\ store'.grants[g].cred = store.grants[g].cred
          /\ store'.handled[g] = store.handled[g]]_vars

\* The attempt is closed, its generation superseded or the lease of its credential over.
Stale(g) == Closed(store, g) \/ store.arm # g \/ store.grants[g].lease <= now

\* A stale attempt only repeats: nothing is recorded for it, and a body is shown only to
\* the repetition of a retrieval that was recorded in time, never to the fresh permit of
\* a caller that was slow to use it.
StaleOnlyReplays ==
    [][\A g \in Gens, c \in Credentials : Stale(g) =>
          /\ UsesOf(g, c)'.retrieves = UsesOf(g, c).retrieves
          /\ UsesOf(g, c)'.acks = UsesOf(g, c).acks
          /\ UsesOf(g, c)'.shown # UsesOf(g, c).shown =>
                \E permit \in permits \ permits' : permit.provenance = "ExactReplay"]_vars

\* A nonce stands for one request: what was recorded under it is neither replaced nor
\* taken over by a request of the other kind, so a retry gets the first answer.
ReplayStable ==
    [][\A n \in Nonces :
          /\ store.retrieves[n] # NoRetrieve =>
                store'.retrieves[n] = store.retrieves[n] /\ store'.acks[n] = NoAck
          /\ store.acks[n] # NoAck =>
                store'.acks[n] = store.acks[n] /\ store'.retrieves[n] = NoRetrieve]_vars

\* What is over stays over: a withdrawn credential and a closed attempt alike.
NeverReopened == WithdrawalSticks /\ ClosedStaysClosed

\* A retry, however late, only repeats what was recorded in time.
RetriesOnlyRepeat == StaleOnlyReplays /\ ReplayStable
=============================================================================
