----------------------------- MODULE LinkTable ------------------------------
(***************************************************************************)
(* Admission of the one live waiter link (gearwit-host/src/admit.rs and    *)
(* link.rs): the table under the daemon's table lock.                      *)
(*                                                                         *)
(* A connection carries one attach request.  A request is named by the     *)
(* connection that first sent it, and so is the link it is accepted as;    *)
(* another connection may send the same request again.  The seat and the   *)
(* route of a request always match the arm.                                *)
(***************************************************************************)
EXTENDS Integers

CONSTANT Conns     \* connections, reused when nothing refers to them any more

NoLink == [link |-> "none"]
NoSession == NoLink

VARIABLES
    current,          \* the live link, or NoLink
    attach_history    \* reply each attach request was answered with

linkVars == <<current, attach_history>>

LinkInit ==
    /\ current = NoLink
    /\ attach_history = [c \in Conns |-> "none"]

AdmittedLink(request, gen) == [link |-> request, generation |-> gen]

\* drop_session: only the session that still owns the table is dropped.
DropSession(table, session) == IF table = session THEN NoLink ELSE table

DropExpired(lapsed) == IF current.link \in lapsed THEN NoLink ELSE current

\* decide_attach, on a table whose lapsed link was dropped: the arm's
\* generation is the one read before under the ack lock.
DecideAttach(request, gen, armGeneration, covered, table) ==
    IF attach_history[request] # "none" THEN "replay"
    ELSE IF armGeneration = gen /\ covered /\ table = NoLink THEN "accepted"
    ELSE "rejected"

\* commit_prepared_attach after a written reply; a newer link in the table
\* wins over the prepared one.
CommitOk(decision, gen) ==
    decision = "accepted" => (current = NoLink \/ current.generation <= gen)

CommitAttach(decision, request, gen) ==
    /\ current' = IF decision = "accepted" THEN AdmittedLink(request, gen) ELSE current
    /\ attach_history' = IF decision = "replay" THEN attach_history
                         ELSE [attach_history EXCEPT ![request] = decision]
=============================================================================
