-------------------------------- MODULE MCHost --------------------------------
(***************************************************************************)
(* Model-checking instance of the parts of a host that share no state: the *)
(* transport with its controller, its process groups, the doorbell trace,  *)
(* the watch loop, the home, the simulator and the conformance cases.  A   *)
(* behaviour is one of one part; the others stay in an initial state.      *)
(***************************************************************************)
EXTENDS CodexTransport, CodexProcess, WatchLoop, HostPaths, SimulatorStream, ConformanceCases

VARIABLE part

Parts == {"transport", "process", "trace", "watch", "paths", "simulator", "conformance"}

\* One initial state of each part that is not looked at.
Idle ==
    /\ part # "watch" => follow /\ paste_safe
    /\ part # "paths" => dirs = [k \in Dirs |-> "absent"]

HostInit ==
    /\ part \in Parts
    /\ Init /\ ProcessInit /\ TraceInit /\ WatchInit /\ PathsInit
    /\ IF part = "simulator" THEN SimInit
       ELSE SimInitOf(CHOOSE s \in ChainOf("CHAIN01", "None", CompleteChain) : s.max_events = 1024)
    /\ IF part = "conformance" THEN ConformanceInit
       ELSE trial = TrialOf(CHOOSE case \in RecoveryCases : TRUE)
    /\ Idle

HostNext ==
    /\ \/ part = "transport" /\ Next /\ UNCHANGED <<processVars, receipts, watchVars, pathVars, simVars, trial>>
       \/ part = "process" /\ ProcessNext /\ UNCHANGED <<vars, receipts, watchVars, pathVars, simVars, trial>>
       \/ part = "trace" /\ TraceNext /\ UNCHANGED <<vars, processVars, watchVars, pathVars, simVars, trial>>
       \/ part = "watch" /\ WatchNext /\ UNCHANGED <<vars, processVars, receipts, pathVars, simVars, trial>>
       \/ part = "paths" /\ PathsNext /\ UNCHANGED <<vars, processVars, receipts, watchVars, simVars, trial>>
       \/ part = "simulator" /\ SimNext /\ UNCHANGED <<vars, processVars, receipts, watchVars, pathVars, trial>>
       \/ part = "conformance" /\ ConformanceNext
          /\ UNCHANGED <<vars, processVars, receipts, watchVars, pathVars, simVars>>
    /\ UNCHANGED part

HostSpec == HostInit /\ [][HostNext]_<<part, vars, processVars, receipts, watchVars, pathVars, simVars, trial>>

-----------------------------------------------------------------------------
\* The type invariants of the parts that have one.
HostTypes == TypeOK /\ ProcessTypeOK /\ TraceTypeOK
=============================================================================
