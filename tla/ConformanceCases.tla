-------------------------- MODULE ConformanceCases --------------------------
(***************************************************************************)
(* The catalogue of cases that every store of the helper sections has to   *)
(* meet: the port and snapshot cases of the conformance suite and the      *)
(* chain cases of the simulator, as scripts of calls with the answer each  *)
(* must get.  They run against HelperStore, with a claim of two events and *)
(* one credential; a store that does not read back what it wrote, as the   *)
(* durable one does after each call, fails the case.                       *)
(***************************************************************************)
EXTENDS Naturals, Sequences

VARIABLE trial   \* [case, called, rows, met]: how far the case is and its store

Rows == INSTANCE HelperStore
    WITH Gens <- 1..2, MaxCredential <- 2, Nonces <- {"r1", "r2", "a1"}, Newest <- 2, Horizon <- 1

-----------------------------------------------------------------------------
(* Calls.  Do(call, nonce, arg, answer); the attempt is that of generation 1. *)

Do(call, nonce, arg, answer) == [call |-> call, nonce |-> nonce, arg |-> arg, answer |-> answer]
NoNonce == "none"
NoArg == 0
Gives(rows, answer) == [rows |-> rows, answer |-> answer]

GrantOf(c) == [cred |-> c, lease |-> 1, operations |-> "all", revoked |-> FALSE]

\* install_helper
Prepared == Rows!Minted(Rows!Admitted(Rows!Registered(Rows!EmptyStore, 1), 1, 2), 1, GrantOf(1))

Presented(s, c, operation) ==
    Rows!Authentic(s, 1, c) /\ Rows!Allows(s.grants[1].operations, operation) /\ Rows!Unrevoked(s, 1)

\* A request whose digest is of another body conflicts, whatever is on record.
Retrieves(s, c) ==
    IF ~Presented(s, c.arg, "retrieve") THEN Gives(s, "Unauthorized")
    ELSE IF c.call = "retrieve_changed" \/ s.acks[c.nonce] # Rows!NoAck THEN Gives(s, "Conflict")
    ELSE IF Rows!RetrieveReplays(s, c.nonce, 1, c.arg) THEN Gives(s, "ExactReplay")
    ELSE IF Rows!RetrieveFresh(s, c.nonce, 1, c.arg, 0) THEN Gives(Rows!Retrieved(s, c.nonce, 1, c.arg), "Recorded")
    ELSE Gives(s, IF Rows!Closed(s, 1) THEN "InvalidTransition" ELSE "Conflict")

\* The acknowledgement names the retrieval r1 and a cursor.
Acks(s, c) ==
    IF ~Presented(s, 1, "acknowledge") THEN Gives(s, "Unauthorized")
    ELSE IF c.call = "ack_reused" \/ s.retrieves[c.nonce] # Rows!NoRetrieve THEN Gives(s, "Conflict")
    ELSE IF Rows!AcknowledgeReplays(s, c.nonce, 1, 1)
    THEN Gives(s, IF s.acks[c.nonce].cursor = c.arg THEN "ExactReplay" ELSE "Conflict")
    ELSE IF Rows!AcknowledgeFresh(s, c.nonce, 1, 1, "r1", c.arg, 0)
    THEN Gives(Rows!Acknowledged(s, c.nonce, 1, 1, "r1", c.arg), "Recorded")
    ELSE Gives(s, IF Rows!Closed(s, 1) THEN "InvalidTransition" ELSE "Unauthorized")

Mints(s, c) ==
    IF Rows!MintOk(s, 1, GrantOf(c.arg), 0)
    THEN Gives(Rows!Minted(s, 1, GrantOf(c.arg)), IF s.grants[1] = GrantOf(c.arg) THEN "ExactReplay" ELSE "Recorded")
    ELSE Gives(s, IF Rows!Closed(s, 1) THEN "InvalidTransition" ELSE "Conflict")

Revokes(s, c) ==
    IF ~Rows!RevokeGrantOk(s, 1, c.arg) THEN Gives(s, "Unauthorized")
    ELSE Gives(Rows!GrantRevoked(s, 1), IF s.grants[1].revoked THEN "ExactReplay" ELSE "Recorded")

Rearms(s) ==
    LET result == Rows!RearmResult(s, 1)
    IN Gives(IF result = "Rearmed" THEN Rows!Rearmed(s, 1) ELSE s, result)

\* Snapshots that were tampered with, or have a second claim beside the first.
Tampered(s, how) ==
    CASE how = "orphan" -> [s EXCEPT !.retrieves["r1"] = Rows!NoRetrieve]
      [] how = "pair" -> [s EXCEPT !.claims[2] = 2]
      [] how = "substitution" -> [s EXCEPT !.claims[2] = 2, !.acks["a1"].attempt = 2]
      [] how = "forged_join" -> [s EXCEPT !.handled[1] = 2, !.rearmed = {1}]
      [] how = "none" -> s

\* The sections that a recovery finds something in.
Sections(s) == {section \in DOMAIN s : s[section] # Rows!EmptyStore[section]}

Answered(s, c) ==
    CASE c.call \in {"retrieve", "retrieve_changed"} -> Retrieves(s, c)
      [] c.call \in {"ack", "ack_reused"} -> Acks(s, c)
      [] c.call = "materialize" ->
             Gives(s, IF Rows!MaterializeOk(s, Rows!PermitOf(c.nonce, 1, c.arg, "ExactReplay"), 0) THEN "Shown" ELSE "Unauthorized")
      [] c.call = "mint" -> Mints(s, c)
      [] c.call = "revoke" -> Revokes(s, c)
      [] c.call = "rearm" -> Rearms(s)
      [] c.call = "admit" -> Gives(s, IF c.arg = "same" THEN "ExactReplay" ELSE IF Rows!AdmitOk(s, 1) THEN "Admitted" ELSE "Conflict")
      [] c.call = "terminal" -> Gives(Rows!FactRecorded(s, 1, "Terminal"), "Recorded")
      [] c.call = "restore" -> Gives(s, IF Rows!Restorable(Tampered(s, c.arg)) THEN "Restored" ELSE "Conflict")
      [] c.call = "sections" -> Gives(s, IF Sections(s) = c.arg THEN "Held" ELSE "Missing")
      [] c.call = "revoked" -> Gives(s, IF s.grants[1].revoked THEN "Held" ELSE "Missing")

-----------------------------------------------------------------------------
(* The catalogue. *)

Fetch(n, answer) == Do("retrieve", n, 1, answer)
Ack(cursor, answer) == Do("ack", "a1", cursor, answer)
Mint(c, answer) == Do("mint", NoNonce, c, answer)
Revoke == Do("revoke", NoNonce, 1, "Recorded")
Join(answer) == Do("rearm", NoNonce, NoArg, answer)
Turn == Do("terminal", NoNonce, NoArg, "Recorded")
Restore(how, answer) == Do("restore", NoNonce, how, answer)
Reopen == Restore("none", "Restored")
Holds(sections) == Do("sections", NoNonce, sections \cup {"arm", "claims", "grants"}, "Held")
IsRevoked == Do("revoked", NoNonce, NoArg, "Held")
Handled == <<Fetch("r1", "Recorded"), Ack(2, "Recorded")>>

AdmissionCases ==
    {<<Do("admit", NoNonce, "same", "ExactReplay"), Do("admit", NoNonce, "forged", "Conflict"), Holds({})>>}

RetrieveCases ==
    {<<Fetch("r1", "Recorded"), Fetch("r1", "ExactReplay")>>,
     <<Fetch("r1", "Recorded"), Do("retrieve_changed", "r1", 1, "Conflict"), Holds({"retrieves"})>>}

AckCases ==
    {<<Fetch("r1", "Recorded"), Ack(1, "Recorded"), Ack(1, "ExactReplay")>>,
     <<Fetch("r1", "Recorded"), Do("ack_reused", "a1", 2, "Conflict")>>,
     Handled \o <<Fetch("r2", "InvalidTransition"), Fetch("r1", "ExactReplay")>>}

RecoveryCases == {<<Holds({})>>, Handled \o <<Holds({"retrieves", "acks", "handled"})>>}

GrantCases ==
    {<<Mint(2, "Recorded"), Holds({"retired"})>>,
     <<Mint(2, "Recorded"), Mint(1, "Conflict")>>,
     <<Revoke, Fetch("r1", "Unauthorized"), IsRevoked>>}

BatchCases ==
    {<<Fetch("r1", "Recorded"), Do("materialize", "r1", 1, "Shown"), Fetch("r1", "ExactReplay"),
       Do("materialize", "r1", 2, "Unauthorized")>>,
     <<Join("WaitingForHandled"), Holds({})>>}

RevocationCases ==
    {<<Revoke, Mint(2, "Conflict")>>, <<Revoke, Reopen, IsRevoked, Mint(2, "Conflict")>>}

RestoreCases ==
    {Handled \o <<Restore("orphan", "Conflict")>>,
     Handled \o <<Restore("pair", "Restored")>>,
     Handled \o <<Restore("substitution", "Conflict")>>,
     Handled \o <<Restore("forged_join", "Conflict")>>,
     <<Fetch("r1", "Recorded"), Ack(1, "Recorded"), Turn, Reopen, Join("WaitingForHandled"), Fetch("r2", "InvalidTransition")>>}

\* chain_case, up to the rotated credential
ChainCases ==
    {Handled \o <<Fetch("r1", "ExactReplay"), Ack(2, "ExactReplay"), Reopen, Fetch("r1", "ExactReplay"), Ack(2, "ExactReplay")>>,
     <<Reopen, Do("admit", NoNonce, "same", "ExactReplay"), Do("admit", NoNonce, "forged", "Conflict"), Holds({})>>,
     <<Revoke, Reopen, IsRevoked, Fetch("r1", "Unauthorized")>>,
     <<Mint(2, "Recorded"), Reopen, Fetch("r1", "Unauthorized")>>}

RearmChainCases ==
    {Handled \o <<Join("WaitingForRecognizedTerminal"), Do("admit", NoNonce, "waiting", "Conflict"),
                  Holds({"retrieves", "acks", "handled"}), Turn, Reopen, Join("Rearmed")>>,
     Handled \o <<Turn, Reopen, Holds({"retrieves", "acks", "handled", "facts"}), Fetch("r2", "InvalidTransition")>>,
     <<Fetch("r1", "Recorded"), Do("materialize", "r1", 1, "Shown"), Ack(2, "Recorded"), Turn, Reopen,
       Fetch("r1", "ExactReplay"), Join("Rearmed")>>}

Cases ==
    AdmissionCases \cup RetrieveCases \cup AckCases \cup RecoveryCases \cup GrantCases \cup BatchCases
    \cup RevocationCases \cup RestoreCases \cup ChainCases \cup RearmChainCases

-----------------------------------------------------------------------------
TrialOf(case) == [case |-> case, called |-> 0, rows |-> Prepared, met |-> TRUE]
ConformanceInit == \E case \in Cases : trial = TrialOf(case)

\* execute
RunCall ==
    /\ trial.called < Len(trial.case)
    /\ LET c == trial.case[trial.called + 1]
           result == Answered(trial.rows, c)
       IN trial' = [trial EXCEPT !.called = @ + 1, !.rows = result.rows,
                                 !.met = @ /\ result.answer = c.answer /\ Rows!Restorable(result.rows)]

ConformanceNext == RunCall

-----------------------------------------------------------------------------
\* The store model meets every case of the repository's own conformance suite and
\* of its simulated chains, and reads back whatever a call left.
CasesMet == trial.met

\* A late retry of any call of a case that was recorded, behind whatever the case did
\* since, is answered from the record or refused; it never changes a row.
LateRetriesChangeNothing ==
    \A k \in 1..trial.called :
        trial.case[k].call \in {"retrieve", "ack", "mint", "revoke", "rearm"} /\ trial.case[k].answer \in {"Recorded", "Rearmed"} =>
            Answered(trial.rows, trial.case[k]).rows = trial.rows

\* Every case is met, and no case can be upset by the retry of one of its calls.
ConformanceMet == CasesMet /\ LateRetriesChangeNothing
=============================================================================
