-------------------------- MODULE MCHelperAuthority --------------------------
(* Instance of HelperAuthority for TLC. *)
EXTENDS HelperAuthority, FiniteSets, TLC

\* No operator distinguishes two nonces.
NonceSymmetry == Permutations(Nonces)

\* Credentials are presented in the order of their minting, attempts claimed in that of
\* their generations, and a caller holds one permit at a time: permits do not meet.
InOrder ==
    /\ \A g \in Gens, c \in Credentials :
          store.grants[g].cred = c => \A d \in 1..(c - 1) : <<g, d>> \in store.retired
    /\ \A g, h \in Gens : h < g /\ store.claims[g] # 0 => store.claims[h] # 0
    /\ Cardinality(permits) <= 1

\* Two attempts: proved whole, one short-lived credential of all operations for each,
\* and a single turn fact or withdrawal.
Crossing ==
    (\A g \in Gens : store.claims[g] # 0) =>
        /\ store.retired = {}
        /\ \A g \in Gens : /\ store.claims[g] = Newest
                           /\ store.grants[g].lease <= 1
                           /\ store.grants[g].operations \in {"none", "all"}
        /\ Cardinality(store.revoked)
             + Cardinality({g \in Gens : store.grants[g].revoked})
             + Cardinality({x \in Gens \X Facts : x[2] \in store.facts[x[1]]}) <= 1
        /\ now <= 1

HelperBound == InOrder /\ Crossing

=============================================================================
