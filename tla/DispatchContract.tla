-------------------------- MODULE DispatchContract --------------------------
(***************************************************************************)
(* What the managed native path promises about every attempt, told without *)
(* the store, the coordinator, the controllers or their crashes: an        *)
(* attempt's turn goes on the wire at most once and only after a durable   *)
(* claim, preparation and reservation; what is known about it never        *)
(* contradicts what the native server did; a conclusion that closes the    *)
(* attempt is final, and until there is one the attempt is accounted for.  *)
(* docs/architecture.md, "Control safety", states it for the program.      *)
(***************************************************************************)
EXTENDS Naturals

CONSTANT Attempts

VARIABLES phase,   \* what is durably known about each attempt
          wire,    \* what the native server made of its turn
          writes   \* times the turn was put on the wire

vars == <<phase, wire, writes>>

Closed == {"held", "refused", "terminal"}
Phases == {"unclaimed", "claimed", "prepared", "reserved", "ambiguous", "accepted"}
          \cup Closed
Wire == {"none", "sent", "running", "finished", "refused"}

Init ==
    /\ phase = [a \in Attempts |-> "unclaimed"]
    /\ wire = [a \in Attempts |-> "none"]
    /\ writes = [a \in Attempts |-> 0]

\* Steps of the knowledge about one attempt, from phase p to q, when the server
\* has made w of its turn.
Before(p, q) ==
    \/ p = "unclaimed" /\ q = "claimed"
    \/ p = "claimed" /\ q = "prepared"
    \/ p = "prepared" /\ q = "reserved"

\* Nothing was written, or nothing was accepted.
Excluded(p, q, w) ==
    \/ p \in {"prepared", "reserved", "ambiguous"} /\ q = "held" /\ w = "none"
    \/ p \in {"reserved", "ambiguous"} /\ q = "refused" /\ w \in {"none", "refused"}

Doubted(p, q) == p \in {"reserved", "accepted"} /\ q = "ambiguous"

Proven(p, q, w) ==
    \/ p = "reserved" /\ q = "accepted" /\ w \in {"running", "finished"}
    \/ p \in {"accepted", "ambiguous"} /\ q = "terminal" /\ w = "finished"

May(p, q, w) == Before(p, q) \/ Excluded(p, q, w) \/ Doubted(p, q) \/ Proven(p, q, w)

\* Recovery learns about several attempts at once.
Learn ==
    /\ phase' \in [Attempts -> Phases]
    /\ \A a \in Attempts : phase'[a] = phase[a] \/ May(phase[a], phase'[a], wire[a])
    /\ UNCHANGED <<wire, writes>>

Write(a) ==
    /\ phase[a] \in {"reserved", "ambiguous"}
    /\ writes[a] = 0
    /\ writes' = [writes EXCEPT ![a] = 1]
    /\ \E w \in Wire \ {"none"} : wire' = [wire EXCEPT ![a] = w]
    /\ UNCHANGED phase

Serve(a) ==
    /\ \/ wire[a] = "sent" /\ \E w \in {"running", "refused"} : wire' = [wire EXCEPT ![a] = w]
       \/ wire[a] = "running" /\ wire' = [wire EXCEPT ![a] = "finished"]
    /\ UNCHANGED <<phase, writes>>

Next == Learn \/ \E a \in Attempts : Write(a) \/ Serve(a)

Spec == Init /\ [][Next]_vars
=============================================================================
