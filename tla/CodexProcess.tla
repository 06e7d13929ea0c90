---------------------------- MODULE CodexProcess ----------------------------
(***************************************************************************)
(* The process group below the transport.  An anchor process leads a group *)
(* for the version probe, and a second one a group for the server; both    *)
(* are children of the host, so a group id cannot be used again before its *)
(* anchor is reaped.  `round` says which of the two is under way.  Every   *)
(* wait has a deadline and is one step that succeeds or does not.          *)
(***************************************************************************)
EXTENDS Naturals

CONSTANTS MaxImages,    \* contents the executable's path may have
          MaxProcFaults \* failures of the operating system and the processes

ASSUME ProcessAssumption == MaxImages \in Nat \ {0} /\ MaxProcFaults \in Nat

VARIABLES
    step,       \* where preflight, start or cleanup is
    round,      \* "version" or "server"
    anchor,     \* "none", "alive", "closing" (its input is closed), "reaped"
    reused,     \* a stranger has the pid of the reaped anchor
    child,      \* "none", "alive", "exited", "reaped"
    member,     \* whether the child is in the anchor's group
    image, qualified, answered, served,   \* file identities, 0 for none
    moved,      \* the gaps of this start in which the path was replaced
    built,      \* the transport exists, and its drop will clean up
    outcome,    \* "none", "refused" or "Cleanup", the last error
    cleaned, strays, procFaults

processVars == <<step, round, anchor, reused, child, member, image, qualified, answered, served, moved,
                 built, outcome, cleaned, strays, procFaults>>

Steps == {"qualify", "anchor", "check", "spawn", "join", "probe", "wait", "recheck", "close",
          "serve", "running", "terminate", "grace", "kill", "failed", "gone"}

\* Between the last look at the path and the spawn of the probe or of the server,
\* and between the spawn of the probe and the second look.
Gaps == {"version", "server", "probe"}
Gap == CASE step = "spawn" -> {round}
         [] round = "version" /\ step \in {"join", "probe", "wait", "recheck"} -> {"probe"}
         [] OTHER -> {}

\* Types; a group is only made when the one before it has ended.
ProcessTypeOK ==
    /\ step = "anchor" => anchor \in {"none", "reaped"}
    /\ step \in Steps /\ round \in {"version", "server"}
    /\ anchor \in {"none", "alive", "closing", "reaped"} /\ child \in {"none", "alive", "exited", "reaped"}
    /\ {reused, member, cleaned, built} \subseteq BOOLEAN
    /\ {image, qualified, answered, served} \subseteq 0..MaxImages /\ moved \subseteq Gaps
    /\ outcome \in {"none", "refused", "Cleanup"} /\ strays \in Nat /\ procFaults \in 0..MaxProcFaults

ProcessInit ==
    /\ step = "qualify" /\ round = "version"
    /\ anchor = "none" /\ reused = FALSE /\ child = "none" /\ member = FALSE
    /\ image = 1 /\ qualified = 0 /\ answered = 0 /\ served = 0 /\ moved = {}
    /\ built = FALSE /\ outcome = "none" /\ cleaned = FALSE /\ strays = 0 /\ procFaults = 0

ProcFault == procFaults < MaxProcFaults /\ procFaults' = procFaults + 1
Runs(place) == step' = place
files == <<image, qualified, answered, served, moved>>

\* file_identity before anything runs; also `resolve` and the identity of the
\* anchor's shell, which fail alike.
Qualify ==
    /\ step = "qualify"
    /\ \/ Runs("anchor") /\ qualified' = image /\ UNCHANGED <<outcome, procFaults>>
       \/ ProcFault /\ Runs("failed") /\ outcome' = "refused" /\ UNCHANGED qualified
    /\ UNCHANGED <<round, anchor, reused, child, member, image, answered, served, moved, built, cleaned, strays>>

\* An anchor whose birth or group cannot be proven is told to end; whether it
\* was reaped is not looked at.
SpawnAnchor ==
    /\ step = "anchor"
    /\ \/ Runs("check") /\ anchor' = "alive" /\ UNCHANGED <<outcome, procFaults>>
       \/ ProcFault /\ Runs("failed") /\ outcome' = "refused" /\ anchor' \in {"none", "closing", "reaped"}
    /\ child' = "none" /\ member' = FALSE /\ reused' = FALSE
    /\ UNCHANGED <<round, files, built, cleaned, strays>>

\* close_and_reap_anchor, and then the error it was called for, if any.
ClosesAnchor(next, error) ==
    \/ anchor' = "reaped" /\ Runs(next) /\ outcome' = error /\ UNCHANGED procFaults
    \/ ProcFault /\ anchor' = "closing" /\ Runs("failed") /\ outcome' = "Cleanup"

CheckIdentity ==
    /\ step = "check"
    /\ IF image = qualified THEN Runs("spawn") /\ UNCHANGED <<anchor, outcome, procFaults>>
       ELSE ClosesAnchor("failed", "refused")
    /\ UNCHANGED <<round, reused, child, member, files, built, cleaned, strays>>

SpawnChild ==
    /\ step = "spawn"
    /\ \/ /\ Runs("join") /\ child' = "alive"
          /\ \/ member' = TRUE /\ UNCHANGED procFaults
             \/ member' = FALSE /\ ProcFault
          /\ IF round = "version" THEN answered' = image /\ UNCHANGED served ELSE served' = image /\ UNCHANGED answered
          /\ UNCHANGED <<anchor, outcome>>
       \/ ClosesAnchor("failed", "refused") /\ UNCHANGED <<child, member, answered, served>>
    /\ UNCHANGED <<round, reused, image, qualified, moved, built, cleaned, strays>>

Proven == member /\ child = "alive"

\* Anything that is wrong with the child from here on ends its group.
JoinGroup ==
    /\ step = "join"
    /\ IF Proven THEN Runs(IF round = "version" THEN "probe" ELSE "serve") ELSE Runs("terminate")
    /\ UNCHANGED <<round, anchor, reused, child, member, files, outcome, built, cleaned, strays, procFaults>>

\* The version and the standard error are read within their bounds, or not.
ProbeVersion ==
    /\ step = "probe"
    /\ \/ Runs("wait") /\ UNCHANGED procFaults
       \/ ProcFault /\ Runs("terminate")
    /\ UNCHANGED <<round, anchor, reused, child, member, files, outcome, built, cleaned, strays>>

\* wait_for_reap, and the exit status.
AwaitExit ==
    /\ step = "wait"
    /\ \/ child = "exited" /\ child' = "reaped" /\ Runs("recheck") /\ UNCHANGED <<anchor, outcome, procFaults>>
       \/ child = "exited" /\ child' = "reaped" /\ ClosesAnchor("failed", "refused")
       \/ child = "alive" /\ Runs("terminate") /\ UNCHANGED <<child, anchor, outcome, procFaults>>
    /\ UNCHANGED <<round, reused, member, files, built, cleaned, strays>>

\* Mutant: the identity is only looked at before the probe.
StillQualifiedAlways == TRUE

StillQualified == image = qualified

RecheckIdentity ==
    /\ step = "recheck"
    /\ IF StillQualified THEN Runs("close") /\ UNCHANGED <<anchor, outcome, procFaults>>
       ELSE ClosesAnchor("failed", "refused")
    /\ UNCHANGED <<round, reused, child, member, files, built, cleaned, strays>>

\* The probe is over; the server gets an anchor of its own.
CloseProbe ==
    /\ step = "close" /\ ClosesAnchor("anchor", "none")
    /\ round' = IF step' = "anchor" THEN "server" ELSE round
    /\ UNCHANGED <<reused, child, member, files, built, cleaned, strays>>

\* Pipes, the drain of standard error, the child's liveness and `initialize`.
Serve ==
    /\ step = "serve"
    /\ \/ child = "alive" /\ Runs("running") /\ built' = TRUE /\ UNCHANGED procFaults
       \/ child = "exited" /\ Runs("terminate") /\ built' = TRUE /\ UNCHANGED procFaults
       \/ ProcFault /\ Runs("terminate") /\ built' \in BOOLEAN
    /\ UNCHANGED <<round, anchor, reused, child, member, files, outcome, cleaned, strays>>

\* cleanup, on an error of its owner or when the transport is dropped; a
\* cleanup that failed is tried again by the drop, and only then.
Cleanup ==
    /\ step = "running" /\ ~cleaned /\ Runs("terminate")
    /\ UNCHANGED <<round, anchor, reused, child, member, files, outcome, built, cleaned, strays, procFaults>>

DropRetries ==
    /\ step = "failed" /\ outcome = "Cleanup" /\ built /\ ~cleaned
    /\ Runs("terminate")
    /\ UNCHANGED <<round, anchor, reused, child, member, files, outcome, built, cleaned, strays, procFaults>>

\* Mutant: whoever leads the group is taken for the anchor.
ReprovenByPid == anchor \in {"alive", "closing"} \/ reused

Reproven == anchor \in {"alive", "closing"}

CleanupFails == Runs("failed") /\ outcome' = "Cleanup"
Signals == strays' = IF reused THEN strays + 1 ELSE strays

NotReproven == (anchor # "alive" /\ UNCHANGED procFaults) \/ ProcFault

\* TERM, which the anchor ignores and the child need not obey.
Terminate ==
    /\ step = "terminate"
    /\ \/ /\ Reproven /\ Runs("grace") /\ Signals /\ UNCHANGED <<outcome, procFaults>>
          /\ child' \in IF child = "alive" /\ member THEN {"alive", "exited"} ELSE {child}
       \/ NotReproven /\ CleanupFails /\ UNCHANGED <<child, strays>>
    /\ UNCHANGED <<round, anchor, reused, member, files, built, cleaned>>

Grace ==
    /\ step = "grace"
    /\ \/ Reproven /\ Runs("kill") /\ UNCHANGED <<outcome, procFaults>>
       \/ NotReproven /\ CleanupFails
    /\ UNCHANGED <<round, anchor, reused, child, member, files, built, cleaned, strays>>

\* KILL, then both are awaited; a child outside the group is not reached.
KillAndReap ==
    /\ step = "kill" /\ Signals
    /\ child' = IF child = "alive" /\ ~member THEN child ELSE "reaped"
    /\ \/ /\ anchor' = "reaped" /\ UNCHANGED procFaults
          /\ IF child' = "reaped"
             THEN Runs(IF round = "server" THEN "gone" ELSE "failed") /\ cleaned' = (round = "server") /\ outcome' = "refused"
             ELSE CleanupFails /\ UNCHANGED cleaned
       \/ /\ ProcFault /\ anchor' \in {"closing", "reaped"} /\ CleanupFails /\ UNCHANGED cleaned
    /\ UNCHANGED <<round, reused, member, files, built>>

\* External: a rename puts another file on the path, or one that was there before
\* and has kept its identity.
ReplacePath ==
    /\ step \notin {"failed", "gone"}
    /\ image' \in (1..MaxImages) \ {image}
    /\ moved' = moved \cup Gap
    /\ UNCHANGED <<step, round, anchor, reused, child, member, qualified, answered, served, outcome, built, cleaned,
                   strays, procFaults>>

\* External: processes end, a pid is used again.
Environment ==
    /\ step \notin {"failed", "gone"} \/ built
    /\ \/ child = "alive" /\ child' = "exited" /\ UNCHANGED <<anchor, reused, procFaults>>
       \/ anchor = "reaped" /\ ~reused /\ reused' = TRUE /\ UNCHANGED <<anchor, child, procFaults>>
       \/ anchor = "alive" /\ ProcFault /\ anchor' = "closing" /\ UNCHANGED <<child, reused>>
    /\ UNCHANGED <<step, round, member, files, outcome, built, cleaned, strays>>

ProcessNext ==
    \/ Qualify \/ SpawnAnchor \/ CheckIdentity \/ SpawnChild \/ JoinGroup \/ ProbeVersion \/ AwaitExit
    \/ RecheckIdentity \/ CloseProbe \/ Serve \/ Cleanup \/ DropRetries \/ Terminate \/ Grace \/ KillAndReap
    \/ ReplacePath \/ Environment

ProcessSpec == ProcessInit /\ [][ProcessNext]_processVars

\* No signal reaches a process that got the group id after the anchor was
\* reaped, not even when a failed cleanup is tried again by the drop.
NoStraySignal == strays = 0

\* A start or probe that is refused for any reason but a failed cleanup leaves no
\* child running, and no anchor that was not told to end.
NothingLeftBehind ==
    step = "gone" \/ (step = "failed" /\ outcome = "refused") =>
        child # "alive" /\ anchor \in {"none", "closing", "reaped"}

\* However often the path is replaced and restored, the looks at it leave two ways
\* to another image than the one first looked at.  The probe is of another only if
\* the path was replaced between the look and the spawn, and put back before the
\* second look; the server is another only if the path was replaced between the
\* last look and its spawn.  A server that is talked to is in the group that a
\* cleanup can end.
QualifiedServer ==
    /\ round = "server" /\ answered # qualified => {"version", "probe"} \subseteq moved
    /\ served \notin {0, qualified} => "server" \in moved
    /\ step = "running" => member

\* A cleanup ends exactly the host's own group, whatever fails or is reused.
GroupContained == NoStraySignal /\ NothingLeftBehind
=============================================================================
