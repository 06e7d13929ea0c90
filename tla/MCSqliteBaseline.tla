-------------------------- MODULE MCSqliteBaseline --------------------------
(* Instance of SqliteBaseline for TLC. *)
EXTENDS SqliteBaseline, FiniteSets, TLC

\* Credentials in the order of their minting, one permit at a time.
OnePermit ==
    /\ \A g \in Gens, c \in Credentials :
          store.grants[g].cred = c => \A d \in 1..(c - 1) : <<g, d>> \in store.retired
    /\ Cardinality(permits) <= 1

\* No operator distinguishes two nonces.
NonceSymmetry == Permutations(Nonces)

=============================================================================
