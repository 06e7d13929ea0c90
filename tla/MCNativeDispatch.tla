-------------------------- MODULE MCNativeDispatch --------------------------
(* Model-checking instances of NativeDispatch. *)
EXTENDS NativeDispatch, FiniteSets, TLC

Symmetry == Permutations(Arms) \cup Permutations(Requests)

\* Bound of the two-arm instance, which is about two attempts sharing a store
\* and a coordinator: every thread create is settled at once and at most one
\* lease or attachment is withdrawn.  The one-arm instances have neither bound.
TwoDispatches ==
    /\ \A b \in Births : threads[b] \in {"none", "started"} /\ ownership[b] # "ProvenNotAccepted"
    /\ Cardinality(expired) + Cardinality(revoked) <= 1

\* Bound of the one-arm instance: the arm is registered again, for a second
\* generation, only behind the Codex controller.
ScriptedOnce == port = "scripted" => \A m \in Arms : arms[m] <= 1
=============================================================================
