--------------------------- MODULE SqliteBaseline ---------------------------
(***************************************************************************)
(* The snapshot backend (gearwit-host/src/sqlite_baseline.rs): an          *)
(* operation runs on the live copy, the whole snapshot is committed in one *)
(* transaction, and the live copy is read back before the caller hears of  *)
(* the result.  The transaction may fail, the read-back may fail and       *)
(* poison the handle, and the process may die between any two steps.  The  *)
(* store is used by one caller at a time, so a call is followed by its own *)
(* steps only: phase says what is left of it.  A refused operation changes *)
(* nothing and has no action; nor has a call on a poisoned handle, which   *)
(* puts the live copy back.  The transaction itself is SQLite's: all or    *)
(* nothing (external).  The helper sections are those of HelperStore.      *)
(* Births are the other section the backend supports; what recovery makes  *)
(* of them in the live copy becomes durable with the next commit only.  A  *)
(* read-back resets the clock of the live copy, so leases do not run out   *)
(* here.                                                                   *)
(***************************************************************************)
EXTENDS HelperStore

CONSTANT MaxFaults   \* bound on failures and crashes

ASSUME FaultAssumption == MaxFaults \in Nat

Ownership == {"Absent", "Reserved", "Unknown"}
Births == [Gens -> Ownership]

\* The sections of one copy.
Copies == [helper : Stores, births : Births]
EmptyCopy == [helper |-> EmptyStore, births |-> [g \in Gens |-> "Absent"]]

NoPermit == <<>>

VARIABLES
    live,       \* the copy operations run on
    saved,      \* the live copy before the running operation
    disk,       \* the committed snapshot
    phase,      \* what is left of the running call, or the state of the handle
    answer,     \* the permit the running call will return
    permits,    \* permits the caller holds
    shown,      \* <<nonce, attempt, credential>> a body was handed out for
    confirmed,  \* history: the copy the last answered call was answered from
    faults      \* failures so far

vars == <<live, saved, disk, phase, answer, permits, shown, confirmed, faults>>

Phases == {"idle", "commit", "reload", "install", "poisoned", "down"}

Permits == [nonce : Nonces, attempt : Gens, cred : Credentials,
            provenance : {"Fresh", "ExactReplay"}]

TypeOK ==
    /\ live \in Copies /\ saved \in Copies /\ disk \in Copies /\ confirmed \in Copies
    /\ phase \in Phases
    /\ answer \in Permits \cup {NoPermit}
    /\ permits \subseteq Permits
    /\ shown \subseteq (Nonces \X Gens \X Credentials)
    /\ faults \in 0..MaxFaults

Init ==
    /\ live = EmptyCopy /\ saved = EmptyCopy /\ disk = EmptyCopy /\ confirmed = EmptyCopy
    /\ phase = "idle"
    /\ answer = NoPermit
    /\ permits = {}
    /\ shown = {}
    /\ faults = 0

-----------------------------------------------------------------------------
(* A call: the operation on the live copy, then commit *)

Now == 0
store == live.helper

\* Mutant: the caller is told before the commit.
CommittingTold(copy, told) ==
    /\ phase = "idle"
    /\ saved' = live
    /\ live' = copy
    /\ answer' = NoPermit
    /\ permits' = permits \cup ({told} \ {NoPermit})
    /\ phase' = "commit"
    /\ UNCHANGED <<disk, shown, confirmed, faults>>

\* The operation succeeded on the live copy and the caller is to be told.
Committing(copy, told) ==
    /\ phase = "idle"
    /\ saved' = live
    /\ live' = copy
    /\ answer' = told
    /\ phase' = "commit"
    /\ UNCHANGED <<disk, permits, shown, confirmed, faults>>

Calling(helper) == Committing([live EXCEPT !.helper = helper], NoPermit)

PersistArm(g) == Calling(Registered(store, g))

ReserveControllerBirth(g) ==
    /\ live.births[g] = "Absent"
    /\ Committing([live EXCEPT !.births[g] = "Reserved"], NoPermit)

\* The fixture admits with the birth reserved; a create cannot be resolved here.
AdmitClaim(g, proved) ==
    /\ live.births[g] # "Absent"
    /\ AdmitOk(store, g)
    /\ Calling(Admitted(store, g, proved))

RevokeControllerAttachment(g) ==
    /\ store.claims[g] # 0
    /\ Calling(AttachmentRevoked(store, g))

PersistHelperGrant(g, c, lease, operations) ==
    LET grant == [cred |-> c, lease |-> lease, operations |-> operations,
                  revoked |-> FALSE]
    IN MintOk(store, g, grant, Now) /\ Calling(Minted(store, g, grant))

RevokeHelperGrant(g, c) ==
    /\ RevokeGrantOk(store, g, c)
    /\ Calling(GrantRevoked(store, g))

RecordRetrieve(n, g, c) ==
    /\ RetrieveFresh(store, n, g, c, Now)
    /\ Committing([live EXCEPT !.helper = Retrieved(store, n, g, c)],
                  PermitOf(n, g, c, "Fresh"))

\* A replay is committed like everything else.
ReplayRetrieve(n, g, c) ==
    /\ RetrieveReplays(store, n, g, c)
    /\ Committing(live, PermitOf(n, g, c, "ExactReplay"))

AcknowledgeRetrievedBatch(n, g, c, retrieval, cursor) ==
    /\ AcknowledgeFresh(store, n, g, c, retrieval, cursor, Now)
    /\ Calling(Acknowledged(store, n, g, c, retrieval, cursor))

\* An acknowledgement already answered is answered again, and committed again.
ReplayAcknowledge(n, g, c) ==
    /\ AcknowledgeReplays(store, n, g, c)
    /\ Calling(store)

TryRearmJoin(g) ==
    /\ RearmResult(store, g) = "Rearmed"
    /\ Calling(Rearmed(store, g))

-----------------------------------------------------------------------------
(* finish: commit, read back, answer *)

CommitSnapshot ==
    /\ phase = "commit"
    /\ disk' = live
    /\ phase' = "reload"
    /\ UNCHANGED <<live, saved, answer, permits, shown, confirmed, faults>>

\* Mutant: the live copy keeps the operation that was not committed.
CommitFailsKept ==
    /\ phase = "commit"
    /\ faults < MaxFaults
    /\ faults' = faults + 1
    /\ saved' = EmptyCopy
    /\ answer' = NoPermit
    /\ phase' = "idle"
    /\ UNCHANGED <<live, disk, permits, shown, confirmed>>

\* Nothing was written, or the transaction is rolled back with what was.
CommitFails ==
    /\ phase = "commit"
    /\ faults < MaxFaults
    /\ faults' = faults + 1
    /\ live' = saved
    /\ saved' = EmptyCopy
    /\ answer' = NoPermit
    /\ phase' = "idle"
    /\ UNCHANGED <<disk, permits, shown, confirmed>>

\* restore_from_snapshot on what was committed; then the call returns.
Reload ==
    /\ phase = "reload"
    /\ Restorable(disk.helper)
    /\ live' = disk
    /\ saved' = EmptyCopy
    /\ confirmed' = live
    /\ permits' = permits \cup ({answer} \ {NoPermit})
    /\ answer' = NoPermit
    /\ phase' = "idle"
    /\ UNCHANGED <<disk, shown, faults>>

\* The caller gets an error although the operation is durable.
ReloadFails ==
    /\ phase = "reload"
    /\ Restorable(disk.helper) => faults < MaxFaults
    /\ faults' = IF Restorable(disk.helper) THEN faults + 1 ELSE faults
    /\ answer' = NoPermit
    /\ phase' = "poisoned"
    /\ UNCHANGED <<live, saved, disk, permits, shown, confirmed>>

-----------------------------------------------------------------------------
(* The turn ends *)

Quarantined(births) ==
    [g \in Gens |-> IF births[g] = "Reserved" THEN "Unknown" ELSE births[g]]

\* The fixture puts the fact into a recovered live copy and commits it without finish:
\* nothing is put back or read back, and a caller that gets an error drops the handle.
InstallTerminal(g) ==
    /\ phase = "idle"
    /\ store.claims[g] # 0
    /\ live' = [helper |-> FactRecorded(store, g, "Terminal"),
                births |-> Quarantined(live.births)]
    /\ phase' = "install"
    /\ UNCHANGED <<saved, disk, answer, permits, shown, confirmed, faults>>

CommitInstalled ==
    /\ phase = "install"
    /\ disk' = live
    /\ confirmed' = live
    /\ phase' = "idle"
    /\ UNCHANGED <<live, saved, answer, permits, shown, faults>>

-----------------------------------------------------------------------------
(* Reads, recovery, crash and reopening *)

MaterializeClaimedBatch(permit) ==
    /\ phase = "idle"
    /\ permits' = permits \ {permit}
    /\ shown' = IF MaterializeOk(store, permit, Now)
                  THEN shown \cup {<<permit.nonce, permit.attempt, permit.cred>>}
                  ELSE shown
    /\ UNCHANGED <<live, saved, disk, phase, answer, confirmed, faults>>

\* Recovery quarantines in the live copy and commits nothing.
RecoverAuthorityState ==
    /\ phase = "idle"
    /\ live' = [live EXCEPT !.births = Quarantined(live.births)]
    /\ UNCHANGED <<saved, disk, phase, answer, permits, shown, confirmed, faults>>

\* The process dies, or drops a poisoned handle.
Close ==
    /\ phase # "down"
    /\ phase # "poisoned" => faults < MaxFaults
    /\ faults' = IF phase = "poisoned" THEN faults ELSE faults + 1
    /\ live' = EmptyCopy
    /\ saved' = EmptyCopy
    /\ answer' = NoPermit
    /\ permits' = {}
    /\ phase' = "down"
    /\ UNCHANGED <<disk, shown, confirmed>>

Reopen ==
    /\ phase = "down"
    /\ Restorable(disk.helper)
    /\ live' = disk
    /\ phase' = "idle"
    /\ UNCHANGED <<saved, disk, answer, permits, shown, confirmed, faults>>

Next ==
    \/ \E g \in Gens :
         \/ PersistArm(g)
         \/ ReserveControllerBirth(g)
         \/ \E proved \in Cursors : AdmitClaim(g, proved)
         \/ RevokeControllerAttachment(g)
         \/ InstallTerminal(g)
         \/ TryRearmJoin(g)
         \/ \E c \in Credentials :
              \/ \E lease \in 1..Horizon, operations \in Operations :
                     PersistHelperGrant(g, c, lease, operations)
              \/ RevokeHelperGrant(g, c)
              \/ \E n \in Nonces :
                   \/ RecordRetrieve(n, g, c)
                   \/ ReplayRetrieve(n, g, c)
                   \/ ReplayAcknowledge(n, g, c)
                   \/ \E retrieval \in Nonces, cursor \in Cursors :
                        AcknowledgeRetrievedBatch(n, g, c, retrieval, cursor)
    \/ CommitSnapshot \/ CommitFails \/ Reload \/ ReloadFails \/ CommitInstalled
    \/ \E permit \in permits : MaterializeClaimedBatch(permit)
    \/ RecoverAuthorityState
    \/ Close
    \/ Reopen

Spec == Init /\ [][Next]_vars

-----------------------------------------------------------------------------

\* Between two calls the live copy is what a reader of the media would get, but for the
\* births recovery has already quarantined: no fault, at whatever step of whatever call,
\* leaves an operation in one copy only.
LiveMatchesDisk ==
    phase = "idle" =>
        /\ live.helper = disk.helper
        /\ live.births \in {disk.births, Quarantined(disk.births)}

\* What a copy extends: rows, withdrawn credentials, coverage and joins all stay.
Extends(s, t) ==
    /\ \A n \in Nonces :
          /\ t.retrieves[n] # NoRetrieve => s.retrieves[n] = t.retrieves[n]
          /\ t.acks[n] # NoAck => s.acks[n] = t.acks[n]
    /\ \A g \in Gens :
          /\ t.claims[g] # 0 => s.claims[g] = t.claims[g]
          /\ s.handled[g] >= t.handled[g]
          /\ t.grants[g].revoked => s.grants[g] = t.grants[g]
    /\ t.retired \subseteq s.retired /\ t.revoked \subseteq s.revoked
    /\ t.rearmed \subseteq s.rearmed

\* An answered call is durable, whatever fails or dies afterwards.
ConfirmedIsDurable ==
    /\ Extends(disk.helper, confirmed.helper)
    /\ \A g \in Gens : confirmed.births[g] # "Absent" => disk.births[g] # "Absent"

\* A body is handed out, and a permit held, only for a retrieval that is durable: a
\* crash right after the disclosure cannot lose the record of it.
DisclosedOnRecord ==
    \A x \in shown \cup {<<p.nonce, p.attempt, p.cred>> : p \in permits} :
        /\ disk.helper.retrieves[x[1]].attempt = x[2]
        /\ disk.helper.retrieves[x[1]].cred = x[3]

\* Nothing was told to a caller that a crash could take back.
DurableRecord == ConfirmedIsDurable /\ DisclosedOnRecord

\* The durable copy is an atomic helper store: a call takes effect at its commit or not
\* at all.  A call that was committed but failed to answer is one whose permit was lost
\* in a restart.
Atomic == INSTANCE HelperAuthority WITH
    store <- disk.helper,
    permits <- IF phase \in {"poisoned", "down"} THEN {}
               ELSE permits \cup (IF phase = "reload" THEN {answer} \ {NoPermit} ELSE {}),
    now <- Now

AtomicStore == Atomic!Spec

=============================================================================
