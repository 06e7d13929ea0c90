-------------------------- MODULE CoverageContract --------------------------
(***************************************************************************)
(* What the waiter daemon promises about one stream of provider events: it *)
(* is offered in batches, each beginning where the last one was handled    *)
(* to, one batch for each generation of the arm, and no event is handled   *)
(* that was not offered.  WaiterDaemon implements it.                      *)
(***************************************************************************)
EXTENDS Integers

CONSTANT Last            \* the last event of the stream

VARIABLES epoch,         \* generation of the arm
          handled,       \* newest event handled
          offered        \* newest event of the open batch; handled if there is none

Init == epoch = 1 /\ handled = 0 /\ offered = 0

Open == offered # handled

Offer ==
    /\ ~Open
    /\ offered' \in (handled + 1)..Last
    /\ UNCHANGED <<epoch, handled>>

\* A prefix of the batch is handled; the rest is offered again.
Handle ==
    /\ Open
    /\ handled' \in (handled + 1)..offered
    /\ offered' = handled'
    /\ epoch' = epoch + 1

Next == Offer \/ Handle

Spec == Init /\ [][Next]_<<epoch, handled, offered>>
=============================================================================
