------------------------------ MODULE HostProofs ------------------------------
(***************************************************************************)
(* Proofs about the parts of a host that share no state, but the transport *)
(* and its controller, and about the host they are composed to.            *)
(*                                                                         *)
(* The process groups, for any number of images and failures.  The         *)
(* invariants say what each step of a start may rely on: before a child    *)
(* there is none of the round before, the anchor of a group that is used   *)
(* or about to be killed was not reaped, and another image than the one    *)
(* first looked at has come in through a gap in which the path was         *)
(* replaced.                                                               *)
(*                                                                         *)
(* The home and its listener, for any processes, threads and faults.  The  *)
(* socket and the directories are only looked at once, in a step before    *)
(* the one that relies on them; what keeps the answer true in between is   *)
(* the file lock, for the socket, and that a private directory is never    *)
(* loosened, for the home.                                                 *)
(*                                                                         *)
(* The doorbell trace, for any number of redelivered receipts.  The trace  *)
(* only ever asks for the direct prerequisites of a phase; that they add   *)
(* up to the whole doorbell is an induction over its appends, of which     *)
(* Grounded is the invariant.                                              *)
(*                                                                         *)
(* The watch loop, for any number of posts, intervals and failures.  Its   *)
(* invariant follows one interval: what the runner said, what was drained  *)
(* behind the cursor, and what is on the receipt.                          *)
(*                                                                         *)
(* The simulator, for any number of stimuli, arrivals, capacities and      *)
(* generated chains.  What arrives in one tick is numbered by the tick and *)
(* the place, and the queue is that numbering; a chain without an error is *)
(* at one stimulus, with those before it executed.                         *)
(*                                                                         *)
(* The conformance scripts, for any script.  A call that was recorded      *)
(* leaves something on the record that no later call takes away, and with  *)
(* that there its retry changes nothing.                                   *)
(***************************************************************************)
EXTENDS MCHost, CodexTransportProofs, SequenceTheorems, FiniteSetTheorems

\* A group id is only free for a stranger after its anchor was reaped.
GroupKept ==
    /\ reused => anchor = "reaped"
    /\ step \in {"check", "spawn", "join", "probe", "wait", "recheck", "close", "kill"} =>
           anchor \in {"alive", "closing"}
    /\ strays = 0

\* Before a child is started there is none, and after the probe it was reaped.
Childless ==
    /\ step \in {"qualify", "anchor", "check", "spawn"} => child # "alive"
    /\ step \in {"recheck", "close", "gone"} => child # "alive"
    /\ step = "failed" /\ outcome = "refused" => child # "alive"

Anchored ==
    /\ anchor \in {"none", "alive", "closing", "reaped"}
    /\ step = "qualify" => anchor = "none"
    /\ step = "anchor" => anchor \in {"none", "reaped"}
    /\ step = "gone" \/ (step = "failed" /\ outcome = "refused") => anchor # "alive"

\* Where another image than the one first looked at may be: on the path, in the
\* probe or in the server, and through which gaps it got there.
LooksWhole ==
    /\ round \in {"version", "server"}
    /\ step = "spawn" /\ image # qualified => round \in moved
    /\ step \in {"qualify", "probe", "wait", "recheck", "close"} => round = "version"
    /\ step \in {"serve", "running"} => member

ProbeAccounted ==
    /\ round = "version" /\ step \in {"join", "probe", "wait", "recheck"} =>
           /\ answered # qualified => "version" \in moved
           /\ image # answered => "probe" \in moved
    /\ round = "version" /\ step = "close" /\ answered # qualified => {"version", "probe"} \subseteq moved
    /\ round = "server" /\ answered # qualified => {"version", "probe"} \subseteq moved

ServerAccounted ==
    /\ round = "version" => served = 0
    /\ served \notin {0, qualified} => "server" \in moved

Bracketed == LooksWhole /\ ProbeAccounted /\ ServerAccounted

ProcessInv == GroupKept /\ Childless /\ Anchored /\ Bracketed

-----------------------------------------------------------------------------
LEMMA ProcessInvInit == ProcessInit => ProcessInv
  BY ProcessAssumption DEF ProcessInit, ProcessInv, GroupKept, Childless, Anchored, Bracketed, LooksWhole, ProbeAccounted,
     ServerAccounted

\* From the first look at the executable to the two anchors.
LEMMA QualifyStep ==
    ASSUME ProcessInv, Qualify \/ SpawnAnchor \/ CheckIdentity \/ SpawnChild \/ JoinGroup
    PROVE  ProcessInv'
  <1> USE DEF ProcessInv, GroupKept, Childless, Anchored, Bracketed, LooksWhole, ProbeAccounted, ServerAccounted, Runs,
          ProcFault, files
  <1>1. CASE Qualify
    BY <1>1 DEF Qualify
  <1>2. CASE SpawnAnchor
    BY <1>2 DEF SpawnAnchor
  <1>3. CASE CheckIdentity
    BY <1>3 DEF CheckIdentity, ClosesAnchor
  <1>4. CASE SpawnChild
    BY <1>4 DEF SpawnChild, ClosesAnchor
  <1>5. CASE JoinGroup
    BY <1>5 DEF JoinGroup, Proven
  <1> QED  BY <1>1, <1>2, <1>3, <1>4, <1>5

\* The version probe and the start of the server.
LEMMA ProbeStep ==
    ASSUME ProcessInv, ProbeVersion \/ AwaitExit \/ RecheckIdentity \/ CloseProbe \/ Serve
    PROVE  ProcessInv'
  <1> USE DEF ProcessInv, GroupKept, Childless, Anchored, Bracketed, LooksWhole, ProbeAccounted, ServerAccounted, Runs,
          ProcFault, files
  <1>1. CASE ProbeVersion
    BY <1>1 DEF ProbeVersion
  <1>2. CASE AwaitExit
    BY <1>2 DEF AwaitExit, ClosesAnchor
  <1>3. CASE RecheckIdentity
    BY <1>3 DEF RecheckIdentity, StillQualified, ClosesAnchor
  <1>4. CASE CloseProbe
    BY <1>4 DEF CloseProbe, ClosesAnchor
  <1>5. CASE Serve
    BY <1>5 DEF Serve
  <1> QED  BY <1>1, <1>2, <1>3, <1>4, <1>5

\* The cleanup, its retry by the drop, and what happens outside.
LEMMA CleanupStep ==
    ASSUME ProcessInv, Cleanup \/ DropRetries \/ Terminate \/ Grace \/ KillAndReap \/ ReplacePath \/ Environment
    PROVE  ProcessInv'
  <1> USE DEF ProcessInv, GroupKept, Childless, Anchored, Bracketed, LooksWhole, ProbeAccounted, ServerAccounted, Runs,
          ProcFault, files
  <1>1. CASE Cleanup
    BY <1>1 DEF Cleanup
  <1>2. CASE DropRetries
    BY <1>2 DEF DropRetries
  <1>3. CASE Terminate
    BY <1>3 DEF Terminate, Reproven, NotReproven, CleanupFails, Signals
  <1>4. CASE Grace
    BY <1>4 DEF Grace, Reproven, NotReproven, CleanupFails
  <1>5. CASE KillAndReap
    BY <1>5 DEF KillAndReap, CleanupFails, Signals
  <1>6. CASE Environment
    BY <1>6 DEF Environment
  <1>7. CASE ReplacePath
    <2>1. UNCHANGED <<step, round, anchor, reused, child, member, qualified, answered, served, outcome, built, strays>>
      BY <1>7 DEF ReplacePath
    <2>2. moved \subseteq moved'
      BY <1>7 DEF ReplacePath
    <2>3. step = "spawn" => round \in moved'
      BY <1>7 DEF ReplacePath, Gap
    <2>4. round = "version" /\ step \in {"join", "probe", "wait", "recheck"} => "probe" \in moved'
      BY <1>7 DEF ReplacePath, Gap
    <2> QED  BY <2>1, <2>2, <2>3, <2>4
  <1> QED  BY <1>1, <1>2, <1>3, <1>4, <1>5, <1>6, <1>7

LEMMA ProcessInvAlways == ProcessSpec => []ProcessInv
  <1>1. ProcessInv /\ UNCHANGED processVars => ProcessInv'
    BY DEF ProcessInv, GroupKept, Childless, Anchored, Bracketed, LooksWhole, ProbeAccounted, ServerAccounted, processVars
  <1>2. ProcessInv /\ ProcessNext => ProcessInv'
    BY QualifyStep, ProbeStep, CleanupStep DEF ProcessNext
  <1> QED  BY <1>1, <1>2, ProcessInvInit, PTL DEF ProcessSpec

-----------------------------------------------------------------------------
\* terminate_group_and_reap: a signal never reaches a process that got the group id
\* of a reaped anchor, and a refusal leaves no child running.
THEOREM GroupIsContained == ProcessSpec => []GroupContained
  <1>1. ProcessInv => GroupContained
    BY DEF ProcessInv, GroupKept, Childless, Anchored, GroupContained, NoStraySignal, NothingLeftBehind
  <1> QED  BY <1>1, ProcessInvAlways, PTL

\* preflight and start: however often the path is replaced and restored, another
\* image than the one first looked at is only probed if the path was replaced between
\* the look and the spawn and put back before the second look, and is only served if
\* the path was replaced between the last look and that spawn; a server that is
\* talked to is in the group of its anchor.
THEOREM ServerIsQualified == ProcessSpec => []QualifiedServer
  <1>1. ProcessInv => QualifiedServer
    BY DEF ProcessInv, Bracketed, LooksWhole, ProbeAccounted, ServerAccounted, QualifiedServer
  <1> QED  BY <1>1, ProcessInvAlways, PTL

(* The variables of a start stay in range through every step.              *)

StepTypes ==
    /\ step = "anchor" => anchor \in {"none", "reaped"}
    /\ step \in Steps /\ round \in {"version", "server"}
    /\ anchor \in {"none", "alive", "closing", "reaped"} /\ child \in {"none", "alive", "exited", "reaped"}
    /\ outcome \in {"none", "refused", "Cleanup"}
FlagTypes == reused \in BOOLEAN /\ member \in BOOLEAN /\ cleaned \in BOOLEAN /\ built \in BOOLEAN
CountTypes ==
    /\ image \in 0..MaxImages /\ qualified \in 0..MaxImages /\ answered \in 0..MaxImages /\ served \in 0..MaxImages
    /\ moved \subseteq Gaps /\ strays \in Nat /\ procFaults \in 0..MaxProcFaults

LEMMA TypeParts == ProcessTypeOK <=> StepTypes /\ FlagTypes /\ CountTypes
  <1>1. {reused, member, cleaned, built} \subseteq BOOLEAN <=> FlagTypes
    BY DEF FlagTypes
  <1>2. {image, qualified, answered, served} \subseteq 0..MaxImages
            <=> /\ image \in 0..MaxImages /\ qualified \in 0..MaxImages
                /\ answered \in 0..MaxImages /\ served \in 0..MaxImages
    OBVIOUS
  <1> QED  BY <1>1, <1>2 DEF ProcessTypeOK, StepTypes, CountTypes

LEMMA TypePartsNext == ProcessTypeOK' <=> StepTypes' /\ FlagTypes' /\ CountTypes'
BY TypeParts, PTL

LEMMA TypesQualify ==
    ASSUME StepTypes, FlagTypes, CountTypes, Anchored,
           Qualify \/ SpawnAnchor \/ CheckIdentity \/ SpawnChild \/ JoinGroup
    PROVE  StepTypes' /\ FlagTypes' /\ CountTypes'
  <1> USE DEF Runs, ProcFault, files
  <1>1. CASE Qualify
    <2>1. StepTypes'
      BY <1>1 DEF Qualify, StepTypes, Steps, Anchored
    <2>2. FlagTypes'
      BY <1>1 DEF Qualify, FlagTypes
    <2>3. CountTypes'
      BY <1>1, ProcessAssumption DEF Qualify, CountTypes
    <2> QED  BY <2>1, <2>2, <2>3
  <1>2. CASE SpawnAnchor
    <2>1. StepTypes'
      BY <1>2 DEF SpawnAnchor, StepTypes, Steps
    <2>2. FlagTypes'
      BY <1>2 DEF SpawnAnchor, FlagTypes
    <2>3. CountTypes'
      BY <1>2, ProcessAssumption DEF SpawnAnchor, CountTypes
    <2> QED  BY <2>1, <2>2, <2>3
  <1>3. CASE CheckIdentity
    <2>1. StepTypes'
      BY <1>3 DEF CheckIdentity, ClosesAnchor, StepTypes, Steps
    <2>2. FlagTypes'
      BY <1>3 DEF CheckIdentity, ClosesAnchor, FlagTypes
    <2>3. CountTypes'
      BY <1>3, ProcessAssumption DEF CheckIdentity, ClosesAnchor, CountTypes
    <2> QED  BY <2>1, <2>2, <2>3
  <1>4. CASE SpawnChild
    <2>1. StepTypes'
      BY <1>4 DEF SpawnChild, ClosesAnchor, StepTypes, Steps
    <2>2. FlagTypes'
      BY <1>4 DEF SpawnChild, ClosesAnchor, FlagTypes
    <2>3. CountTypes'
      BY <1>4, ProcessAssumption DEF SpawnChild, ClosesAnchor, CountTypes
    <2> QED  BY <2>1, <2>2, <2>3
  <1>5. CASE JoinGroup
    <2>1. StepTypes'
      BY <1>5 DEF JoinGroup, StepTypes, Steps
    <2>2. FlagTypes'
      BY <1>5 DEF JoinGroup, FlagTypes
    <2>3. CountTypes'
      BY <1>5, ProcessAssumption DEF JoinGroup, CountTypes
    <2> QED  BY <2>1, <2>2, <2>3
  <1> QED  BY <1>1, <1>2, <1>3, <1>4, <1>5

LEMMA TypesProbe ==
    ASSUME StepTypes, FlagTypes, CountTypes, ProbeVersion \/ AwaitExit \/ RecheckIdentity \/ CloseProbe \/ Serve
    PROVE  StepTypes' /\ FlagTypes' /\ CountTypes'
  <1> USE DEF Runs, ProcFault, files
  <1>1. CASE ProbeVersion
    <2>1. StepTypes'
      BY <1>1 DEF ProbeVersion, StepTypes, Steps
    <2>2. FlagTypes'
      BY <1>1 DEF ProbeVersion, FlagTypes
    <2>3. CountTypes'
      BY <1>1, ProcessAssumption DEF ProbeVersion, CountTypes
    <2> QED  BY <2>1, <2>2, <2>3
  <1>2. CASE AwaitExit
    <2>1. StepTypes'
      BY <1>2 DEF AwaitExit, ClosesAnchor, StepTypes, Steps
    <2>2. FlagTypes'
      BY <1>2 DEF AwaitExit, ClosesAnchor, FlagTypes
    <2>3. CountTypes'
      BY <1>2, ProcessAssumption DEF AwaitExit, ClosesAnchor, CountTypes
    <2> QED  BY <2>1, <2>2, <2>3
  <1>3. CASE RecheckIdentity
    <2>1. StepTypes'
      BY <1>3 DEF RecheckIdentity, ClosesAnchor, StepTypes, Steps
    <2>2. FlagTypes'
      BY <1>3 DEF RecheckIdentity, ClosesAnchor, FlagTypes
    <2>3. CountTypes'
      BY <1>3, ProcessAssumption DEF RecheckIdentity, ClosesAnchor, CountTypes
    <2> QED  BY <2>1, <2>2, <2>3
  <1>4. CASE CloseProbe
    <2>1. StepTypes'
      BY <1>4 DEF CloseProbe, ClosesAnchor, StepTypes, Steps
    <2>2. FlagTypes'
      BY <1>4 DEF CloseProbe, ClosesAnchor, FlagTypes
    <2>3. CountTypes'
      BY <1>4, ProcessAssumption DEF CloseProbe, ClosesAnchor, CountTypes
    <2> QED  BY <2>1, <2>2, <2>3
  <1>5. CASE Serve
    <2>1. StepTypes'
      BY <1>5 DEF Serve, StepTypes, Steps
    <2>2. FlagTypes'
      BY <1>5 DEF Serve, FlagTypes
    <2>3. CountTypes'
      BY <1>5, ProcessAssumption DEF Serve, CountTypes
    <2> QED  BY <2>1, <2>2, <2>3
  <1> QED  BY <1>1, <1>2, <1>3, <1>4, <1>5

LEMMA TypesCleanup ==
    ASSUME StepTypes, FlagTypes, CountTypes,
           Cleanup \/ DropRetries \/ Terminate \/ Grace \/ KillAndReap \/ ReplacePath \/ Environment
    PROVE  StepTypes' /\ FlagTypes' /\ CountTypes'
  <1> USE DEF Runs, ProcFault, files
  <1>1. CASE Cleanup
    <2>1. StepTypes'
      BY <1>1 DEF Cleanup, StepTypes, Steps
    <2>2. FlagTypes'
      BY <1>1 DEF Cleanup, FlagTypes
    <2>3. CountTypes'
      BY <1>1, ProcessAssumption DEF Cleanup, CountTypes
    <2> QED  BY <2>1, <2>2, <2>3
  <1>2. CASE DropRetries
    <2>1. StepTypes'
      BY <1>2 DEF DropRetries, StepTypes, Steps
    <2>2. FlagTypes'
      BY <1>2 DEF DropRetries, FlagTypes
    <2>3. CountTypes'
      BY <1>2, ProcessAssumption DEF DropRetries, CountTypes
    <2> QED  BY <2>1, <2>2, <2>3
  <1>3. CASE Terminate
    <2>1. StepTypes'
      BY <1>3 DEF Terminate, NotReproven, CleanupFails, Signals, StepTypes, Steps
    <2>2. FlagTypes'
      BY <1>3 DEF Terminate, NotReproven, CleanupFails, Signals, FlagTypes
    <2>3. CountTypes'
      BY <1>3, ProcessAssumption DEF Terminate, NotReproven, CleanupFails, Signals, CountTypes
    <2> QED  BY <2>1, <2>2, <2>3
  <1>4. CASE Grace
    <2>1. StepTypes'
      BY <1>4 DEF Grace, NotReproven, CleanupFails, StepTypes, Steps
    <2>2. FlagTypes'
      BY <1>4 DEF Grace, NotReproven, CleanupFails, FlagTypes
    <2>3. CountTypes'
      BY <1>4, ProcessAssumption DEF Grace, NotReproven, CleanupFails, CountTypes
    <2> QED  BY <2>1, <2>2, <2>3
  <1>5. CASE KillAndReap
    <2>1. StepTypes'
      BY <1>5 DEF KillAndReap, CleanupFails, Signals, StepTypes, Steps
    <2>2. FlagTypes'
      BY <1>5 DEF KillAndReap, CleanupFails, Signals, FlagTypes
    <2>3. CountTypes'
      BY <1>5, ProcessAssumption DEF KillAndReap, CleanupFails, Signals, CountTypes
    <2> QED  BY <2>1, <2>2, <2>3
  <1>6. CASE Environment
    <2>1. StepTypes'
      BY <1>6 DEF Environment, StepTypes, Steps
    <2>2. FlagTypes'
      BY <1>6 DEF Environment, FlagTypes
    <2>3. CountTypes'
      BY <1>6, ProcessAssumption DEF Environment, CountTypes
    <2> QED  BY <2>1, <2>2, <2>3
  <1>7. CASE ReplacePath
    <2>1. StepTypes'
      BY <1>7 DEF ReplacePath, StepTypes, Steps
    <2>2. FlagTypes'
      BY <1>7 DEF ReplacePath, FlagTypes
    <2>3. image' \in 0..MaxImages
      BY <1>7, ProcessAssumption DEF ReplacePath
    <2>4. Gap \subseteq Gaps
      BY DEF Gap, Gaps, StepTypes
    <2>5. CountTypes'
      BY <1>7, <2>3, <2>4 DEF ReplacePath, CountTypes
    <2> QED  BY <2>1, <2>2, <2>5
  <1> QED  BY <1>1, <1>2, <1>3, <1>4, <1>5, <1>6, <1>7

\* preflight, start and cleanup: their variables keep their types, the failures
\* stay within their bound, and an anchor is only started when none is left.
THEOREM ProcessTyped == ProcessSpec => []ProcessTypeOK
  <1>1. ProcessInit => ProcessTypeOK
    <2>1. ProcessInit => StepTypes /\ FlagTypes /\ CountTypes
      <3>1. ProcessInit => StepTypes
        BY DEF ProcessInit, StepTypes, Steps
      <3>2. ProcessInit => FlagTypes
        BY DEF ProcessInit, FlagTypes
      <3>3. ProcessInit => CountTypes
        BY ProcessAssumption DEF ProcessInit, CountTypes
      <3> QED  BY <3>1, <3>2, <3>3
    <2> QED  BY <2>1, TypeParts
  <1>2. ProcessTypeOK /\ UNCHANGED processVars => ProcessTypeOK'
    BY DEF ProcessTypeOK, processVars, files
  <1>3. ProcessTypeOK /\ ProcessInv /\ ProcessNext => ProcessTypeOK'
    BY TypeParts, TypePartsNext, TypesQualify, TypesProbe, TypesCleanup DEF ProcessNext, ProcessInv
  <1> QED  BY <1>1, <1>2, <1>3, ProcessInvAlways, PTL DEF ProcessSpec

-----------------------------------------------------------------------------
(* The home and its listener *)

BindPlaces == {"look", "create", "tighten", "resolved", "claimed", "locked", "probed", "bound",
           "closing", "unlocking", "refused"}
Preparing == {"look", "create", "tighten", "refused"}
Locking == {"locked", "probed", "bound", "closing", "unlocking"}

PathsTyped ==
    /\ dirs \in [Dirs -> {"absent", "loose", "private", "foreign"}]
    /\ binding \in [Binds -> [at : BindPlaces, dir : Dirs]]

\* From the lock to its drop, also after the claim is gone, the bind is the lock's.
LockHeld == \A b \in Binds : binding[b].at \in Locking => flock = b

SocketKept == \A b \in Binds : binding[b].at = "bound" => socket = [is |-> "live", of |-> b]

\* The directories that a bind has passed.
PassedPrivate ==
    \A b \in Binds, k \in Dirs : k < binding[b].dir \/ binding[b].at \notin Preparing => dirs[k] = "private"

PathsInv == PathsTyped /\ LockHeld /\ SocketKept /\ PassedPrivate

-----------------------------------------------------------------------------
LEMMA NobodyIsNoBind == \A b \in Binds : b # Nobody
  BY DEF Binds, Nobody

LEMMA PathsInvInit == PathsInit => PathsInv
  BY DEF PathsInit, PathsInv, PathsTyped, LockHeld, SocketKept, PassedPrivate, BindPlaces, Preparing, Locking,
         Looking, Phase, Dirs

\* The steps of from_root: a directory is only ever created where none is, or made private.
LEMMA PrepareStep ==
    ASSUME PathsInv, NEW b \in Binds, LookAtDir(b) \/ CreateDir(b) \/ TightenDir(b)
    PROVE  PathsInv'
  <1> USE DEF PathsInv, PathsTyped, BindPlaces, Preparing, Locking, Moves, Refused
  <1>1. CASE LookAtDir(b)
    <2>1. PathsTyped'
      BY <1>1 DEF LookAtDir
    <2>2. LockHeld' /\ SocketKept'
      BY <1>1 DEF LookAtDir, LockHeld, SocketKept
    <2>3. PassedPrivate'
      BY <1>1 DEF LookAtDir, PassedPrivate
    <2> QED  BY <2>1, <2>2, <2>3
  <1>2. CASE CreateDir(b)
    <2>1. PathsTyped'
      BY <1>2 DEF CreateDir
    <2>2. LockHeld' /\ SocketKept'
      BY <1>2 DEF CreateDir, LockHeld, SocketKept
    <2>3. PassedPrivate'
      BY <1>2 DEF CreateDir, PassedPrivate
    <2> QED  BY <2>1, <2>2, <2>3
  <1>3. CASE TightenDir(b)
    <2>1. /\ binding[b].at = "tighten" /\ binding[b].dir \in Dirs
          /\ dirs' = [dirs EXCEPT ![binding[b].dir] = "private"]
          /\ binding' = [binding EXCEPT ![b] = IF binding[b].dir = 3 THEN [at |-> "resolved", dir |-> 3]
                                               ELSE [at |-> "look", dir |-> binding[b].dir + 1]]
          /\ UNCHANGED <<flock, socket>>
      BY <1>3 DEF TightenDir, Phase, Mode
    <2>2. PathsTyped'
      BY <2>1 DEF Dirs
    <2>3. LockHeld' /\ SocketKept'
      BY <2>1 DEF LockHeld, SocketKept
    <2>4. PassedPrivate'
      BY <2>1 DEF PassedPrivate, Dirs
    <2> QED  BY <2>2, <2>3, <2>4
  <1> QED  BY <1>1, <1>2, <1>3

\* The steps of bind up to the socket: no other bind has the lock while this one takes it.
LEMMA BindStep ==
    ASSUME PathsInv, NEW b \in Binds, ClaimLockPath(b) \/ AcquireListenerLock(b) \/ ProbeSocket(b) \/ BindSocket(b)
    PROVE  PathsInv'
  <1> USE DEF PathsInv, PathsTyped, BindPlaces, Preparing, Locking, Moves, Refused
  <1>1. CASE ClaimLockPath(b)
    BY <1>1 DEF ClaimLockPath, LockHeld, SocketKept, PassedPrivate
  <1>2. CASE AcquireListenerLock(b)
    <2>1. /\ binding[b].at = "claimed"
          /\ \/ flock = Nobody /\ flock' = b /\ binding' = [binding EXCEPT ![b].at = "locked"]
             \/ flock' = flock /\ binding' = [binding EXCEPT ![b].at = "refused"]
          /\ UNCHANGED <<dirs, socket>>
      BY <1>2 DEF AcquireListenerLock, LockFree
    <2>2. LockHeld'
      BY <2>1, NobodyIsNoBind DEF LockHeld
    <2>3. PathsTyped' /\ SocketKept' /\ PassedPrivate'
      BY <2>1 DEF SocketKept, PassedPrivate
    <2> QED  BY <2>2, <2>3
  <1>3. CASE ProbeSocket(b)
    <2>1. /\ binding[b].at = "locked"
          /\ \/ flock' = flock /\ binding' = [binding EXCEPT ![b].at = "probed"]
             \/ flock' = Nobody /\ binding' = [binding EXCEPT ![b].at = "refused"]
          /\ UNCHANGED <<dirs, socket>>
      BY <1>3 DEF ProbeSocket
    <2>2. LockHeld'
      BY <2>1 DEF LockHeld
    <2>3. PathsTyped' /\ SocketKept' /\ PassedPrivate'
      BY <2>1 DEF SocketKept, PassedPrivate
    <2> QED  BY <2>2, <2>3
  <1>4. CASE BindSocket(b)
    <2>1. flock = b
      BY <1>4 DEF BindSocket, LockHeld
    <2>2. SocketKept'
      BY <1>4, <2>1 DEF BindSocket, LockHeld, SocketKept
    <2>3. PathsTyped' /\ LockHeld' /\ PassedPrivate'
      BY <1>4, <2>1 DEF BindSocket, LockHeld, PassedPrivate
    <2> QED  BY <2>2, <2>3
  <1> QED  BY <1>1, <1>2, <1>3, <1>4

\* The drop of a listener: the path is removed while the lock is still held.
LEMMA DropStep ==
    ASSUME PathsInv, NEW b \in Binds, DropSocket(b) \/ DropClaim(b) \/ DropLock(b)
    PROVE  PathsInv'
  <1> USE DEF PathsInv, PathsTyped, BindPlaces, Preparing, Locking, Moves
  <1>1. CASE DropSocket(b)
    <2>1. flock = b
      BY <1>1 DEF DropSocket, LockHeld
    <2> QED  BY <1>1, <2>1 DEF DropSocket, LockHeld, SocketKept, PassedPrivate
  <1>2. CASE DropClaim(b)
    BY <1>2 DEF DropClaim, LockHeld, SocketKept, PassedPrivate
  <1>3. CASE DropLock(b)
    <2>1. /\ binding[b].at = "unlocking" /\ flock = b
          /\ binding' = [binding EXCEPT ![b] = [at |-> "resolved", dir |-> 3]]
          /\ UNCHANGED <<dirs, socket>>
      BY <1>3 DEF DropLock, Phase, LockHeld
    <2>2. PathsTyped' /\ SocketKept'
      BY <2>1 DEF SocketKept, Dirs
    <2>3. LockHeld'
      BY <2>1 DEF LockHeld
    <2>4. PassedPrivate'
      BY <2>1 DEF PassedPrivate
    <2> QED  BY <2>2, <2>3, <2>4
  <1> QED  BY <1>1, <1>2, <1>3

\* A process that dies loses its own lock and socket, and no other's.
LEMMA DieStep ==
    ASSUME PathsInv, NEW p \in Processes, Die(p)
    PROVE  PathsInv'
  <1> USE DEF PathsInv, PathsTyped
  <1>1. \A b \in Binds : binding'[b] = IF b[1] = p THEN [at |-> "look", dir |-> 1] ELSE binding[b]
    BY DEF Die, Looking, Phase
  <1>2. PathsTyped'
    BY <1>1 DEF Die, Looking, Phase, BindPlaces, Dirs
  <1>3. LockHeld'
    BY <1>1 DEF Die, LockHeld, Locking
  <1>4. SocketKept'
    BY <1>1 DEF Die, SocketKept
  <1>5. PassedPrivate'
    BY <1>1 DEF Die, PassedPrivate, Preparing, Dirs
  <1> QED  BY <1>2, <1>3, <1>4, <1>5

LEMMA PathsInvAlways == PathsSpec => []PathsInv
  <1>1. PathsInv /\ UNCHANGED pathVars => PathsInv'
    BY DEF PathsInv, PathsTyped, LockHeld, SocketKept, PassedPrivate, pathVars
  <1>2. PathsInv /\ PathsNext => PathsInv'
    BY PrepareStep, BindStep, DropStep, DieStep DEF PathsNext
  <1> QED  BY <1>1, <1>2, PathsInvInit, PTL DEF PathsSpec

-----------------------------------------------------------------------------
\* BoundListener: whatever other threads and processes do, and whenever they die, a
\* listener that was handed out is the one on the path until it is dropped.
THEOREM ListenerIsKept == PathsSpec => []ListenerKept
  <1>1. PathsInv => ListenerKept
    BY DEF PathsInv, LockHeld, SocketKept, ListenerKept, Locking
  <1> QED  BY <1>1, PathsInvAlways, PTL

\* GearwitPaths::from_root: nothing is ever listened on below a directory that
\* others can enter, also when the start that created it died.
THEOREM HomeIsPrivate == PathsSpec => []HomePrivate
  <1>1. PathsInv => HomePrivate
    BY DEF PathsInv, PassedPrivate, HomePrivate, Preparing
  <1> QED  BY <1>1, PathsInvAlways, PTL

\* One listener, in a home that only its user can enter.
THEOREM HomeIsSafe == PathsSpec => []HomeSafe
  <1>1. ListenerKept /\ HomePrivate => HomeSafe
    BY DEF HomeSafe
  <1> QED  BY <1>1, ListenerIsKept, HomeIsPrivate, PTL

-----------------------------------------------------------------------------
(* The doorbell trace *)

Receipt == [phase : DoorbellPhases, source : DoorbellSources]

GroundedAt(k) ==
    /\ receipts[k].phase \in Supports(receipts[k].source)
    /\ receipts[k].phase \notin PhasesBefore(k)
    /\ Prerequisites(receipts[k].phase) \subseteq PhasesBefore(k)

\* The inductive invariant of the trace.
Grounded == receipts \in Seq(Receipt) /\ \A k \in DOMAIN receipts : GroundedAt(k)

-----------------------------------------------------------------------------
\* An append leaves what stands before each of the receipts as it was.
LEMMA AppendKeeps ==
    ASSUME NEW r \in Receipt, receipts \in Seq(Receipt), receipts' = Append(receipts, r),
           NEW n \in Nat, n = Len(receipts) + 1
    PROVE  /\ DOMAIN receipts' = DOMAIN receipts \cup {n}
           /\ \A k \in DOMAIN receipts : receipts'[k] = receipts[k] /\ PhasesBefore(k)' = PhasesBefore(k)
           /\ receipts'[n] = r
           /\ PhasesBefore(n)' = PhasesOf(receipts)
  <1>1. /\ DOMAIN receipts = 1..(n - 1)
        /\ DOMAIN receipts' = 1..n
        /\ \A k \in 1..(n - 1) : receipts'[k] = receipts[k]
        /\ receipts'[n] = r
    OBVIOUS
  <1>2. ASSUME NEW k \in DOMAIN receipts  PROVE PhasesBefore(k)' = PhasesBefore(k)
    <2>1. \A j \in 1..(k - 1) : receipts'[j] = receipts[j]
      BY <1>1
    <2> QED  BY <2>1 DEF PhasesBefore
  <1>3. PhasesBefore(n)' = PhasesOf(receipts)
    BY <1>1 DEF PhasesBefore, PhasesOf
  <1> QED  BY <1>1, <1>2, <1>3

\* The trace stays grounded, however receipts are offered.
LEMMA GroundedStep == Grounded /\ [TraceNext]_receipts => Grounded'
  <1> SUFFICES ASSUME Grounded, [TraceNext]_receipts  PROVE Grounded'
    OBVIOUS
  <1>1. CASE UNCHANGED receipts
    BY <1>1 DEF Grounded, GroundedAt, PhasesBefore
  <1>2. ASSUME NEW phase \in DoorbellPhases, NEW source \in DoorbellSources, AppendReceipt(phase, source)
        PROVE  Grounded'
    <2> DEFINE r == [phase |-> phase, source |-> source]
    <2>1. /\ r \in Receipt /\ r.phase = phase /\ r.source = source
          /\ receipts' = Append(receipts, r)
      BY <1>2 DEF AppendReceipt, Receipt
    <2>2. /\ phase \in Supports(source) /\ phase \notin PhasesOf(receipts)
          /\ Prerequisites(phase) \subseteq PhasesOf(receipts)
      BY <1>2 DEF AppendReceipt, Appendable
    <2> HIDE DEF r
    <2>3. receipts \in Seq(Receipt) /\ \A k \in DOMAIN receipts : GroundedAt(k)
      BY DEF Grounded
    <2>4. PICK n \in Nat : n = Len(receipts) + 1
      BY <2>3
    <2>5. /\ DOMAIN receipts' = DOMAIN receipts \cup {n}
          /\ \A k \in DOMAIN receipts : receipts'[k] = receipts[k] /\ PhasesBefore(k)' = PhasesBefore(k)
          /\ receipts'[n] = r
          /\ PhasesBefore(n)' = PhasesOf(receipts)
      BY <2>1, <2>3, <2>4, AppendKeeps
    <2>6. ASSUME NEW k \in DOMAIN receipts  PROVE GroundedAt(k)'
      BY <2>3, <2>5 DEF GroundedAt
    <2>7. GroundedAt(n)'
      BY <2>1, <2>2, <2>5 DEF GroundedAt
    <2>8. receipts' \in Seq(Receipt)
      BY <2>1, <2>3
    <2> QED  BY <2>5, <2>6, <2>7, <2>8 DEF Grounded
  <1> QED  BY <1>1, <1>2 DEF TraceNext

LEMMA GroundedAlways == TraceSpec => []Grounded
  <1>1. TraceInit => Grounded
    BY DEF TraceInit, Grounded
  <1> QED  BY <1>1, GroundedStep, PTL DEF TraceSpec

\* What stands before a receipt is closed under direct prerequisites.
LEMMA Closed ==
    ASSUME Grounded, NEW k \in DOMAIN receipts, NEW p \in PhasesBefore(k)
    PROVE  Prerequisites(p) \subseteq PhasesBefore(k)
  <1>1. DOMAIN receipts = 1..Len(receipts) /\ Len(receipts) \in Nat
    BY DEF Grounded
  <1>2. PICK j \in 1..(k - 1) : p = receipts[j].phase
    BY DEF PhasesBefore
  <1>3. j \in DOMAIN receipts /\ Prerequisites(p) \subseteq PhasesBefore(j)
    BY <1>1, <1>2 DEF Grounded, GroundedAt
  <1>4. PhasesBefore(j) \subseteq PhasesBefore(k)
    BY <1>1, <1>2 DEF PhasesBefore
  <1> QED  BY <1>3, <1>4

-----------------------------------------------------------------------------
\* DoorbellAttemptTrace::append: every receipt in a trace is typed and of a source
\* that observes its phase itself.
THEOREM TraceTyped == TraceSpec => []TraceTypeOK
  <1>1. Grounded => TraceTypeOK
    BY DEF Grounded, GroundedAt, TraceTypeOK, Receipt
  <1> QED  BY <1>1, GroundedAlways, PTL

\* Re-armed coverage stands behind the whole doorbell and no phase is counted twice,
\* although append only looks at the direct prerequisites.
THEOREM RearmIsProven == TraceSpec => []RearmProven
  <1>1. ASSUME Grounded  PROVE RearmProven
    <2> SUFFICES ASSUME NEW k \in DOMAIN receipts
                 PROVE  /\ receipts[k].phase \notin PhasesBefore(k)
                        /\ receipts[k].phase = "CoverageRearmed" =>
                               DoorbellPhases \ {"SeatActed", "CoverageRearmed"} \subseteq PhasesBefore(k)
      BY DEF RearmProven
    <2>1. receipts[k].phase \notin PhasesBefore(k) /\ Prerequisites(receipts[k].phase) \subseteq PhasesBefore(k)
      BY <1>1 DEF Grounded, GroundedAt
    <2>2. CASE receipts[k].phase = "CoverageRearmed"
      <3>1. "HandledCursorRecorded" \in PhasesBefore(k) /\ "ExactTerminalObserved" \in PhasesBefore(k)
        BY <2>1, <2>2 DEF Prerequisites
      <3>2. "HandledAcknowledged" \in PhasesBefore(k) /\ "ExactTurnStarted" \in PhasesBefore(k)
        BY <1>1, <3>1, Closed DEF Prerequisites
      <3>3. "ClaimedBatchRetrieved" \in PhasesBefore(k) /\ "NativeAccepted" \in PhasesBefore(k)
        BY <1>1, <3>2, Closed DEF Prerequisites
      <3>4. "DispatchPrepared" \in PhasesBefore(k)
        BY <1>1, <3>3, Closed DEF Prerequisites
      <3>5. "DurableClaimed" \in PhasesBefore(k)
        BY <1>1, <3>4, Closed DEF Prerequisites
      <3>6. "Drained" \in PhasesBefore(k)
        BY <1>1, <3>5, Closed DEF Prerequisites
      <3>7. "Observed" \in PhasesBefore(k)
        BY <1>1, <3>6, Closed DEF Prerequisites
      <3> QED  BY <2>1, <3>1, <3>2, <3>3, <3>4, <3>5, <3>6, <3>7 DEF DoorbellPhases
    <2> QED  BY <2>1, <2>2
  <1> QED  BY <1>1, GroundedAlways, PTL

\* Only the controller claims an exact turn start.
LEMMA StartIsTheControllers ==
    ASSUME NEW source \in DoorbellSources, "ExactTurnStarted" \in Supports(source)
    PROVE  source = "Controller"
  BY DEF DoorbellSources, Supports

\* An exact turn start that stands before a receipt is the controller's own and
\* stands behind the durable claim.
LEMMA StartStandsBehindClaim ==
    ASSUME Grounded, NEW k \in DOMAIN receipts, "ExactTurnStarted" \in PhasesBefore(k)
    PROVE  \E i, j \in 1..(k - 1) :
               /\ i < j /\ receipts[i].phase = "DurableClaimed"
               /\ receipts[j] = [phase |-> "ExactTurnStarted", source |-> "Controller"]
  <1>1. DOMAIN receipts = 1..Len(receipts) /\ Len(receipts) \in Nat
    BY DEF Grounded
  <1>2. PICK j \in 1..(k - 1) : receipts[j].phase = "ExactTurnStarted"
    BY DEF PhasesBefore
  <1>3. j \in DOMAIN receipts /\ GroundedAt(j) /\ receipts[j] \in Receipt
    BY <1>1, <1>2 DEF Grounded
  <1>4. receipts[j].source = "Controller"
    BY <1>2, <1>3, StartIsTheControllers DEF GroundedAt, Receipt
  <1>5. receipts[j] = [phase |-> "ExactTurnStarted", source |-> "Controller"]
    BY <1>2, <1>3, <1>4 DEF Receipt
  <1>6. "NativeAccepted" \in PhasesBefore(j)
    BY <1>2, <1>3 DEF GroundedAt, Prerequisites
  <1>7. "DispatchPrepared" \in PhasesBefore(j)
    BY <1>3, <1>6, Closed DEF Prerequisites
  <1>8. "DurableClaimed" \in PhasesBefore(j)
    BY <1>3, <1>7, Closed DEF Prerequisites
  <1>9. PICK i \in 1..(j - 1) : receipts[i].phase = "DurableClaimed"
    BY <1>8 DEF PhasesBefore
  <1>10. i \in 1..(k - 1) /\ i < j
    BY <1>1, <1>2, <1>9
  <1> QED  BY <1>2, <1>5, <1>9, <1>10

\* The helper reads, and the seat acts, only behind an exact turn start of the
\* controller, and that behind the durable claim.
THEOREM ActionIsProven == TraceSpec => []ActionProven
  <1>1. ASSUME Grounded  PROVE ActionProven
    <2> SUFFICES ASSUME NEW k \in DOMAIN receipts,
                        receipts[k].phase \in {"ClaimedBatchRetrieved", "SeatActed"}
                 PROVE  "ExactTurnStarted" \in PhasesBefore(k)
      BY <1>1, StartStandsBehindClaim DEF ActionProven
    <2>1. Prerequisites(receipts[k].phase) \subseteq PhasesBefore(k)
      BY <1>1 DEF Grounded, GroundedAt
    <2>2. CASE receipts[k].phase = "ClaimedBatchRetrieved"
      BY <2>1, <2>2 DEF Prerequisites
    <2>3. CASE receipts[k].phase = "SeatActed"
      <3>1. "HandledCursorRecorded" \in PhasesBefore(k)
        BY <2>1, <2>3 DEF Prerequisites
      <3>2. "HandledAcknowledged" \in PhasesBefore(k)
        BY <1>1, <3>1, Closed DEF Prerequisites
      <3>3. "ClaimedBatchRetrieved" \in PhasesBefore(k)
        BY <1>1, <3>2, Closed DEF Prerequisites
      <3> QED  BY <1>1, <3>3, Closed DEF Prerequisites
    <2> QED  BY <2>2, <2>3
  <1> QED  BY <1>1, GroundedAlways, PTL

\* A trace cannot claim more of a doorbell than its receipts add up to.
THEOREM DoorbellIsProven == TraceSpec => []DoorbellProven
  <1>1. RearmProven /\ ActionProven => DoorbellProven
    BY DEF DoorbellProven
  <1> QED  BY <1>1, RearmIsProven, ActionIsProven, PTL

-----------------------------------------------------------------------------
(* The watch loop *)

Details == {"none", "runner_not_started", "matched", "deadman_expired", "failed", "provider_failed", "count"}
Facts == [phase : InterruptPhases, detail : Details]
Posts == Seq(Nat)

\* What the runner said of the interval, before its posts are drained.
Waited(said) ==
    /\ said \in [waiter : {"NotStarted", "Completed"}, result : WaitResults, exit : 0..2,
                 drained : Posts, newest : Nat, drain_error : BOOLEAN]
    /\ said.exit = IF said.drain_error THEN 2 ELSE FromCode(said.result)
    /\ said.waiter = "NotStarted" => said.result = "Error"
    /\ said.drain_error => said.result = "Matched" /\ said.drained = <<>>
    /\ said.drained = <<>> <=> said.newest = NoPost

Undrained(said) == said.drained = <<>> /\ ~said.drain_error

\* After the drain a match has its posts, or the drain failed.
Settled(said) ==
    /\ Waited(said)
    /\ said.drained # <<>> => /\ said.result = "Matched"
                              /\ said.drained = Page(after + 1, said.newest)
                              /\ said.newest \in (after + 1)..posted
    /\ said.result = "Matched" => said.drained # <<>> \/ said.drain_error

\* Where the cursor and the receipts are.
Covered ==
    IF watch \in {"advance", "exited"} /\ waited.newest # NoPost THEN waited.newest ELSE after

WatchInv ==
    /\ watch \in {"wait", "drain", "receipt", "advance", "exited"}
    /\ posted \in Nat /\ after \in 0..posted
    /\ reported = Page(1, Covered)
    /\ ~follow => after = 0
    /\ watch = "drain" => Waited(waited) /\ Undrained(waited)
    /\ watch \in {"receipt", "advance", "exited"} => Settled(waited)
    /\ watch = "advance" => log = LifecycleLog(waited)
    /\ watch = "exited" => process_exit = IF follow THEN StopExit ELSE waited.exit
    /\ watch = "exited" /\ follow => ~Continues
    /\ CoverageTold

-----------------------------------------------------------------------------
\* A page lists its posts once and in order, and two pages that meet are one.
LEMMA PageFacts ==
    ASSUME NEW m \in Nat, NEW n \in Nat, m <= n
    PROVE  /\ Page(m + 1, n) \in Posts /\ Len(Page(m + 1, n)) = n - m
           /\ DOMAIN Page(m + 1, n) = 1..(n - m)
           /\ \A k \in 1..(n - m) : Page(m + 1, n)[k] = m + k
<1>1. n - (m + 1) + 1 = n - m /\ n - m \in Nat
  OBVIOUS
<1>2. \A k \in 1..(n - m) : (m + 1) + k - 1 = m + k /\ m + k \in Nat
  OBVIOUS
<1>3. Page(m + 1, n) = [k \in 1..(n - m) |-> (m + 1) + k - 1]
  BY <1>1 DEF Page
<1> QED BY <1>1, <1>2, <1>3 DEF Posts

LEMMA PagesMeet ==
    ASSUME NEW m \in Nat, NEW n \in Nat, m <= n
    PROVE  Page(1, m) \o Page(m + 1, n) = Page(1, n)
<1>1. /\ Page(1, m) \in Posts /\ Len(Page(1, m)) = m /\ \A k \in 1..m : Page(1, m)[k] = k
      /\ Page(1, n) \in Posts /\ Len(Page(1, n)) = n /\ \A k \in 1..n : Page(1, n)[k] = k
  <2>1. 0 \in Nat /\ 0 <= m /\ 0 <= n /\ 0 + 1 = 1
    OBVIOUS
  <2>2. \A k \in 1..n : 0 + k = k
    OBVIOUS
  <2>3. \A k \in 1..m : 0 + k = k
    OBVIOUS
  <2>4. /\ Page(0 + 1, m) \in Posts /\ Len(Page(0 + 1, m)) = m - 0
        /\ \A k \in 1..(m - 0) : Page(0 + 1, m)[k] = 0 + k
    BY <2>1, PageFacts
  <2>5. /\ Page(0 + 1, n) \in Posts /\ Len(Page(0 + 1, n)) = n - 0
        /\ \A k \in 1..(n - 0) : Page(0 + 1, n)[k] = 0 + k
    BY <2>1, PageFacts
  <2>6. m - 0 = m /\ n - 0 = n
    OBVIOUS
  <2> QED BY <2>1, <2>2, <2>3, <2>4, <2>5, <2>6
<1>2. /\ Page(m + 1, n) \in Posts /\ Len(Page(m + 1, n)) = n - m
      /\ \A k \in 1..(n - m) : Page(m + 1, n)[k] = m + k
  BY PageFacts
<1> DEFINE left == Page(1, m)
           right == Page(m + 1, n)
           whole == Page(1, n)
<1> HIDE DEF left, right, whole
<1>3. left \in Seq(Nat) /\ right \in Seq(Nat) /\ whole \in Seq(Nat) /\ Len(left) = m /\ Len(right) = n - m
      /\ Len(whole) = n
  BY <1>1, <1>2 DEF left, right, whole, Posts
<1>4. left \o right \in Seq(Nat) /\ Len(left \o right) = n
  <2>1. left \o right \in Seq(Nat) /\ Len(left \o right) = Len(left) + Len(right)
    BY <1>3, ConcatProperties
  <2> QED BY <1>3, <2>1
<1>5. ASSUME NEW k \in 1..n PROVE (left \o right)[k] = whole[k]
  <2>4. (left \o right)[k] = IF k <= m THEN left[k] ELSE right[k - m]
    <3>1. k \in 1..(Len(left) + Len(right))
      BY <1>3
    <3>2. (left \o right)[k] = IF k <= Len(left) THEN left[k] ELSE right[k - Len(left)]
      BY <1>3, <3>1, ConcatProperties
    <3> QED BY <1>3, <3>2
  <2>1. whole[k] = k
    BY <1>1 DEF whole
  <2>2. CASE k <= m
    <3>1. k \in 1..m
      BY <2>2
    <3> QED BY <1>1, <2>1, <2>2, <2>4, <3>1 DEF left
  <2>3. CASE k > m
    <3>1. k - m \in 1..(n - m)
      BY <2>3
    <3>2. (left \o right)[k] = right[k - m]
      BY <2>3, <2>4
    <3>3. right[k - m] = m + (k - m)
      <4>1. \A i \in 1..(n - m) : right[i] = m + i
        BY <1>2 DEF right
      <4> QED BY <3>1, <4>1
    <3>4. m + (k - m) = k
      BY <2>3
    <3> QED BY <2>1, <3>2, <3>3, <3>4
  <2>5. k <= m \/ k > m
    OBVIOUS
  <2> QED BY <2>2, <2>3, <2>5
<1>6. left \o right = whole
  <2> DEFINE both == left \o right
  <2>1. both \in Seq(Nat) /\ Len(both) = n /\ \A k \in 1..n : both[k] = whole[k]
    BY <1>4, <1>5
  <2> HIDE DEF both
  <2>2. both = whole
    BY <1>3, <2>1
  <2> QED BY <2>2 DEF both
<1> QED BY <1>6 DEF left, right, whole

\* The error is no log.
LEMMA LogsAreLogs == \A s \in Seq(Facts) : s # NotALog
<1> SUFFICES ASSUME NEW s \in Seq(Facts), s = NotALog PROVE FALSE
  OBVIOUS
<1>1. NotALog[1].phase = "error" /\ 1 \in DOMAIN NotALog
  BY DEF NotALog
<1>2. s[1] \in Facts
  BY <1>1
<1> QED BY <1>1, <1>2 DEF Facts, InterruptPhases

\* A fact that has its place on a log is recorded on it, and nothing else.
LEMMA FactRecorded ==
    ASSUME NEW l \in Seq(Facts), NEW fact \in Facts, NEW source,
           fact.phase \in LifecycleSupports(source), fact.phase \notin PhasesOf(l)
    PROVE  /\ Recorded(l, fact, source) \in Seq(Facts)
           /\ PhasesOf(Recorded(l, fact, source)) = PhasesOf(l) \cup {fact.phase}
           /\ Recorded(l, fact, source) # NotALog
<1>1. Recorded(l, fact, source) = Append(l, fact)
  BY LogsAreLogs DEF Recorded
<1>2. /\ Append(l, fact) \in Seq(Facts)
      /\ DOMAIN Append(l, fact) = DOMAIN l \cup {Len(l) + 1}
      /\ \A k \in DOMAIN l : Append(l, fact)[k] = l[k]
      /\ Append(l, fact)[Len(l) + 1] = fact
  OBVIOUS
<1>3. PhasesOf(Append(l, fact)) = PhasesOf(l) \cup {fact.phase}
  BY <1>2 DEF PhasesOf
<1> QED BY <1>1, <1>2, <1>3, LogsAreLogs

\* It is the last one there.
LEMMA FactIsLast ==
    ASSUME NEW l \in Seq(Facts), NEW fact \in Facts, NEW source,
           fact.phase \in LifecycleSupports(source), fact.phase \notin PhasesOf(l)
    PROVE  Recorded(l, fact, source)[Len(Recorded(l, fact, source))] = fact
<1>1. Recorded(l, fact, source) = Append(l, fact)
  BY LogsAreLogs DEF Recorded
<1>2. Len(Append(l, fact)) = Len(l) + 1 /\ Append(l, fact)[Len(l) + 1] = fact
  OBVIOUS
<1> QED BY <1>1, <1>2

LEMMA FactsAre ==
    ASSUME NEW phase \in InterruptPhases, NEW detail \in Details
    PROVE  Fact(phase, detail) \in Facts /\ Fact(phase, detail).phase = phase
BY DEF Fact, Facts

LEMMA EmptyLog == <<>> \in Seq(Facts) /\ PhasesOf(<<>>) = {}
BY DEF PhasesOf

\* What is on the receipt of an interval.
LEMMA ReceiptFacts ==
    ASSUME NEW said, Waited(said)
    PROVE  /\ WaiterReceipts(said) \in Seq(Facts)
           /\ PhasesOf(WaiterReceipts(said)) =
                  IF said.waiter = "NotStarted" THEN {"CoverageEnded"}
                  ELSE IF said.result = "Matched" THEN {"WaitArmed", "WaiterCompleted"}
                  ELSE IF said.result = "Timeout" THEN {"WaitArmed", "WaiterCompleted", "CoverageEnded"}
                  ELSE {"WaiterCompleted", "CoverageEnded"}
           /\ WaiterReceipts(said) # NotALog
           /\ said.result = "Timeout" =>
                  WaiterReceipts(said)[Len(WaiterReceipts(said))] = Fact("CoverageEnded", "deadman_expired")
<1> USE DEF WaiterRecords
<1>1. /\ "WaitArmed" \in LifecycleSupports("WaiterProcess") /\ "WaiterCompleted" \in LifecycleSupports("WaiterProcess")
      /\ "CoverageEnded" \in LifecycleSupports("WaiterProcess") /\ "CoverageEnded" \in LifecycleSupports("ControlPlane")
      /\ "WaitArmed" \in InterruptPhases /\ "WaiterCompleted" \in InterruptPhases /\ "CoverageEnded" \in InterruptPhases
  BY DEF LifecycleSupports, InterruptPhases
<1> DEFINE told(phase, detail) == Fact(phase, detail) \in Facts /\ Fact(phase, detail).phase = phase
<1>t. /\ told("WaitArmed", "none") /\ told("CoverageEnded", "runner_not_started")
      /\ told("WaiterCompleted", "matched") /\ told("WaiterCompleted", "deadman_expired")
      /\ told("CoverageEnded", "deadman_expired") /\ told("WaiterCompleted", "failed")
      /\ told("CoverageEnded", "provider_failed")
  BY <1>1, FactsAre DEF Details
<1> DEFINE armed == Recorded(<<>>, Fact("WaitArmed", "none"), "WaiterProcess")
<1>2. armed \in Seq(Facts) /\ PhasesOf(armed) = {"WaitArmed"}
  <2>1. PhasesOf(armed) = PhasesOf(<<>>) \cup {Fact("WaitArmed", "none").phase} /\ armed \in Seq(Facts)
    <3>1. Fact("WaitArmed", "none").phase \notin PhasesOf(<<>>)
      BY EmptyLog
    <3> QED BY <1>1, <1>t, <3>1, EmptyLog, FactRecorded
  <2> QED BY <1>t, <2>1, EmptyLog
<1> HIDE DEF armed
<1>3. CASE said.waiter = "NotStarted"
  <2>1. WaiterReceipts(said) = Recorded(<<>>, Fact("CoverageEnded", "runner_not_started"), "ControlPlane")
    BY <1>3 DEF WaiterReceipts
  <2> DEFINE ended == Fact("CoverageEnded", "runner_not_started")
  <2>2. /\ ended \in Facts /\ ended.phase = "CoverageEnded" /\ ended.phase \notin PhasesOf(<<>>)
        /\ ended.phase \in LifecycleSupports("ControlPlane")
        /\ WaiterReceipts(said) = Recorded(<<>>, ended, "ControlPlane")
    BY <1>1, <1>t, <2>1, EmptyLog
  <2> HIDE DEF ended
  <2>3. /\ WaiterReceipts(said) \in Seq(Facts) /\ WaiterReceipts(said) # NotALog
        /\ PhasesOf(WaiterReceipts(said)) = PhasesOf(<<>>) \cup {"CoverageEnded"}
    <3>1. /\ Recorded(<<>>, ended, "ControlPlane") \in Seq(Facts)
          /\ PhasesOf(Recorded(<<>>, ended, "ControlPlane")) = PhasesOf(<<>>) \cup {ended.phase}
          /\ Recorded(<<>>, ended, "ControlPlane") # NotALog
      BY <2>2, EmptyLog, FactRecorded
    <3> QED BY <2>2, <3>1
  <2> QED BY <1>3, <2>3, EmptyLog DEF Waited
<1>4. CASE said.waiter # "NotStarted" /\ said.result = "Matched"
  <2>1. WaiterReceipts(said) = Recorded(armed, Fact("WaiterCompleted", "matched"), "WaiterProcess")
    BY <1>4 DEF WaiterReceipts, armed
  <2>2. Fact("WaiterCompleted", "matched") \in Facts /\ Fact("WaiterCompleted", "matched").phase = "WaiterCompleted"
    BY <1>t
  <2>3. /\ WaiterReceipts(said) \in Seq(Facts) /\ WaiterReceipts(said) # NotALog
        /\ PhasesOf(WaiterReceipts(said)) = PhasesOf(armed) \cup {"WaiterCompleted"}
    BY <1>1, <1>2, <2>1, <2>2, FactRecorded
  <2> QED BY <1>2, <1>4, <2>3
<1>5. CASE said.waiter # "NotStarted" /\ said.result = "Timeout"
  <2> DEFINE done == Recorded(armed, Fact("WaiterCompleted", "deadman_expired"), "WaiterProcess")
  <2>1. WaiterReceipts(said) = Recorded(done, Fact("CoverageEnded", "deadman_expired"), "WaiterProcess")
    BY <1>5 DEF WaiterReceipts, armed
  <2>2. /\ Fact("WaiterCompleted", "deadman_expired") \in Facts
        /\ Fact("WaiterCompleted", "deadman_expired").phase = "WaiterCompleted"
        /\ Fact("CoverageEnded", "deadman_expired") \in Facts
        /\ Fact("CoverageEnded", "deadman_expired").phase = "CoverageEnded"
    BY <1>t
  <2>3. done \in Seq(Facts) /\ PhasesOf(done) = PhasesOf(armed) \cup {"WaiterCompleted"}
    BY <1>1, <1>2, <2>2, FactRecorded
  <2> HIDE DEF done
  <2>4. /\ WaiterReceipts(said) \in Seq(Facts) /\ WaiterReceipts(said) # NotALog
        /\ PhasesOf(WaiterReceipts(said)) = PhasesOf(done) \cup {"CoverageEnded"}
    BY <1>1, <1>2, <2>1, <2>2, <2>3, FactRecorded
  <2>5. WaiterReceipts(said)[Len(WaiterReceipts(said))] = Fact("CoverageEnded", "deadman_expired")
    BY <1>1, <1>2, <2>1, <2>2, <2>3, FactIsLast
  <2> QED BY <1>2, <1>5, <2>3, <2>4, <2>5
<1>6. CASE said.waiter # "NotStarted" /\ said.result = "Error"
  <2> DEFINE done == Recorded(<<>>, Fact("WaiterCompleted", "failed"), "WaiterProcess")
  <2>1. WaiterReceipts(said) = Recorded(done, Fact("CoverageEnded", "provider_failed"), "WaiterProcess")
    BY <1>6 DEF WaiterReceipts
  <2>2. /\ Fact("WaiterCompleted", "failed") \in Facts
        /\ Fact("WaiterCompleted", "failed").phase = "WaiterCompleted"
        /\ Fact("CoverageEnded", "provider_failed") \in Facts
        /\ Fact("CoverageEnded", "provider_failed").phase = "CoverageEnded"
    BY <1>t
  <2>3. done \in Seq(Facts) /\ PhasesOf(done) = {"WaiterCompleted"}
    <3>1. Fact("WaiterCompleted", "failed").phase \notin PhasesOf(<<>>)
      BY EmptyLog
    <3>2. done \in Seq(Facts) /\ PhasesOf(done) = PhasesOf(<<>>) \cup {"WaiterCompleted"}
      BY <1>1, <2>2, <3>1, EmptyLog, FactRecorded
    <3> QED BY <3>2, EmptyLog
  <2> HIDE DEF done
  <2>4. /\ WaiterReceipts(said) \in Seq(Facts) /\ WaiterReceipts(said) # NotALog
        /\ PhasesOf(WaiterReceipts(said)) = PhasesOf(done) \cup {"CoverageEnded"}
    BY <1>1, <2>1, <2>2, <2>3, FactRecorded
  <2> QED BY <1>6, <2>3, <2>4
<1> QED BY <1>3, <1>4, <1>5, <1>6 DEF Waited, WaitResults

\* Whatever happened in an interval, its facts fit on one log and claim no more; the
\* end of coverage is one of them unless the posts of a match were drained.
LEMMA LifecycleFacts ==
    ASSUME Settled(waited)
    PROVE  LET l == LifecycleLog(waited)
           IN  /\ l # NotALog
               /\ PhasesOf(l) \subseteq {"WaitArmed", "WaiterCompleted", "EventsDrained", "CoverageEnded"}
               /\ "EventsDrained" \in PhasesOf(l) <=> waited.drained # <<>>
               /\ "EventsDrained" \in PhasesOf(l) => "CoverageEnded" \notin PhasesOf(l)
               /\ waited.waiter = "NotStarted" <=> "WaiterCompleted" \notin PhasesOf(l)
               /\ "CoverageEnded" \in PhasesOf(l) <=> waited.result # "Matched" \/ waited.drain_error
               /\ waited.result = "Timeout" => l[Len(l)] = Fact("CoverageEnded", "deadman_expired")
<1> DEFINE w == WaiterReceipts(waited)
<1>1. /\ Waited(waited)
      /\ w \in Seq(Facts) /\ w # NotALog
      /\ PhasesOf(w) = IF waited.waiter = "NotStarted" THEN {"CoverageEnded"}
                       ELSE IF waited.result = "Matched" THEN {"WaitArmed", "WaiterCompleted"}
                       ELSE IF waited.result = "Timeout" THEN {"WaitArmed", "WaiterCompleted", "CoverageEnded"}
                       ELSE {"WaiterCompleted", "CoverageEnded"}
      /\ waited.result = "Timeout" => w[Len(w)] = Fact("CoverageEnded", "deadman_expired")
  BY ReceiptFacts DEF Settled
<1> HIDE DEF w
<1>2. /\ "CoverageEnded" \in LifecycleSupports("ControlPlane") /\ "EventsDrained" \in LifecycleSupports("Provider")
      /\ "CoverageEnded" \in InterruptPhases /\ "EventsDrained" \in InterruptPhases
  BY DEF LifecycleSupports, InterruptPhases
<1>3. CASE waited.drain_error
  <2>1. waited.result = "Matched" /\ waited.drained = <<>> /\ waited.waiter # "NotStarted"
    BY <1>1, <1>3 DEF Waited
  <2>2. LifecycleLog(waited) = Recorded(w, Fact("CoverageEnded", "provider_failed"), "ControlPlane")
    BY <1>3 DEF LifecycleLog, w
  <2>3. /\ Fact("CoverageEnded", "provider_failed") \in Facts
        /\ Fact("CoverageEnded", "provider_failed").phase = "CoverageEnded"
    BY <1>2, FactsAre DEF Details
  <2>4. LifecycleLog(waited) # NotALog /\ PhasesOf(LifecycleLog(waited)) = PhasesOf(w) \cup {"CoverageEnded"}
    BY <1>1, <1>2, <2>1, <2>2, <2>3, FactRecorded
  <2> QED BY <1>1, <1>3, <2>1, <2>4
<1>4. CASE ~waited.drain_error /\ waited.drained # <<>>
  <2>1. waited.result = "Matched" /\ waited.waiter # "NotStarted"
    BY <1>1, <1>4 DEF Waited, Settled
  <2>2. LifecycleLog(waited) = Recorded(w, Fact("EventsDrained", "count"), "Provider")
    BY <1>4, <2>1 DEF LifecycleLog, w
  <2>3. Fact("EventsDrained", "count") \in Facts /\ Fact("EventsDrained", "count").phase = "EventsDrained"
    BY <1>2, FactsAre DEF Details
  <2>4. LifecycleLog(waited) # NotALog /\ PhasesOf(LifecycleLog(waited)) = PhasesOf(w) \cup {"EventsDrained"}
    BY <1>1, <1>2, <2>1, <2>2, <2>3, FactRecorded
  <2> QED BY <1>1, <1>4, <2>1, <2>4
<1>5. CASE ~waited.drain_error /\ waited.drained = <<>>
  <2>1. LifecycleLog(waited) = w /\ waited.result # "Matched"
    BY <1>5 DEF LifecycleLog, w, Settled
  <2> QED BY <1>1, <1>5, <2>1 DEF Waited
<1> QED BY <1>3, <1>4, <1>5

-----------------------------------------------------------------------------
LEMMA WatchInvInit == WatchInit => WatchInv
<1> SUFFICES ASSUME WatchInit PROVE WatchInv
  OBVIOUS
<1>1. watch = "wait" /\ after = 0 /\ posted = 0 /\ reported = <<>>
  BY DEF WatchInit
<1>2. Covered = 0
  BY <1>1 DEF Covered
<1>3. Page(1, 0) = <<>>
  <2>1. 0 \in Nat /\ 0 <= 0 /\ 0 + 1 = 1 /\ 0 - 0 = 0
    OBVIOUS
  <2>2. Page(0 + 1, 0) \in Posts /\ Len(Page(0 + 1, 0)) = 0 - 0
    BY <2>1, PageFacts
  <2>3. Page(1, 0) \in Seq(Nat) /\ Len(Page(1, 0)) = 0
    BY <2>1, <2>2 DEF Posts
  <2> QED BY <2>3
<1>4. CoverageTold
  BY EmptyLog DEF WatchInit, CoverageTold
<1> QED BY <1>1, <1>2, <1>3, <1>4 DEF WatchInv

LEMMA WatchInvStep ==
    ASSUME WatchInv, WatchNext
    PROVE  WatchInv'
<1>1. posted \in Nat /\ after \in 0..posted /\ after \in Nat
  BY DEF WatchInv
<1>2. CASE ExecuteWaitOn
  <2>1. watch = "wait" /\ watch' = "drain" /\ UNCHANGED <<follow, paste_safe, after, posted, reported>>
    BY <1>2 DEF ExecuteWaitOn
  <2>2. Covered = after /\ Covered' = after
    BY <2>1 DEF Covered
  <2>3. Waited(waited') /\ Undrained(waited')
    <3>1. \/ waited' = NotRun
          \/ \E result \in WaitResults :
                waited' = [NotRun EXCEPT !.waiter = "Completed", !.result = result, !.exit = FromCode(result)]
      BY <1>2 DEF ExecuteWaitOn
    <3>2. CASE waited' = NotRun
      BY <3>2 DEF NotRun, NoPost, Waited, Undrained, WaitResults, FromCode, Posts
    <3>3. ASSUME NEW result \in WaitResults,
                 waited' = [NotRun EXCEPT !.waiter = "Completed", !.result = result, !.exit = FromCode(result)]
          PROVE  Waited(waited') /\ Undrained(waited')
      <4>1. waited' = [waiter |-> "Completed", result |-> result, exit |-> FromCode(result), drained |-> <<>>,
                       newest |-> NoPost, drain_error |-> FALSE]
        BY <3>3 DEF NotRun
      <4>2. FromCode(result) \in 0..2
        BY DEF FromCode, WaitResults
      <4> QED BY <4>1, <4>2 DEF NoPost, Waited, Undrained, Posts
    <3> QED BY <3>1, <3>2, <3>3
  <2> QED BY <1>1, <2>1, <2>2, <2>3 DEF WatchInv, CoverageTold
<1>3. CASE AttachDrain
  <2>1. watch = "drain" /\ watch' = "receipt" /\ UNCHANGED <<follow, paste_safe, after, posted, reported>>
    BY <1>3 DEF AttachDrain
  <2>2. Covered = after /\ Covered' = after
    BY <2>1 DEF Covered
  <2>3. Waited(waited) /\ Undrained(waited)
    BY <2>1 DEF WatchInv
  <2>4. Settled(waited)'
    <3>1. CASE waited.result # "Matched"
      <4>1. waited' = waited
        BY <1>3, <3>1 DEF AttachDrain
      <4> QED BY <2>3, <3>1, <4>1 DEF Settled, Undrained
    <3>2. CASE waited.result = "Matched" /\ waited' = DrainFailed
      <4>1. waited' = [waited EXCEPT !.drain_error = TRUE, !.exit = 2]
        BY <3>2 DEF DrainFailed
      <4>2. /\ waited' \in [waiter : {"NotStarted", "Completed"}, result : WaitResults, exit : 0..2,
                            drained : Posts, newest : Nat, drain_error : BOOLEAN]
            /\ waited'.exit = 2 /\ waited'.drain_error = TRUE /\ waited'.result = waited.result
            /\ waited'.drained = waited.drained /\ waited'.newest = waited.newest /\ waited'.waiter = waited.waiter
        <5>1. waited \in [waiter : {"NotStarted", "Completed"}, result : WaitResults, exit : 0..2,
                           drained : Posts, newest : Nat, drain_error : BOOLEAN]
          BY <2>3 DEF Waited
        <5>2. /\ waited' = [waiter |-> waited.waiter, result |-> waited.result, exit |-> 2,
                            drained |-> waited.drained, newest |-> waited.newest, drain_error |-> TRUE]
          BY <4>1, <5>1
        <5> QED BY <5>1, <5>2
      <4>3. waited'.drain_error
        BY <4>2
      <4>4. Waited(waited')
        BY <2>3, <3>2, <4>2, <4>3 DEF Waited, Undrained
      <4> QED BY <2>3, <3>2, <4>2, <4>3, <4>4 DEF Settled, Undrained
    <3>3. CASE waited.result = "Matched" /\ posted > after /\ waited' = Drained(Page(after + 1, posted))
      <4> DEFINE page == Page(after + 1, posted)
      <4>1. /\ page \in Posts /\ Len(page) = posted - after
            /\ page[posted - after] = after + (posted - after)
        BY <1>1, <3>3, PageFacts
      <4>2. page[Len(page)] = posted /\ page # <<>>
        BY <1>1, <3>3, <4>1
      <4> HIDE DEF page
      <4>3. waited' = [waited EXCEPT !.drained = page, !.newest = posted]
        BY <3>3, <4>2 DEF Drained, page
      <4>4. /\ waited' \in [waiter : {"NotStarted", "Completed"}, result : WaitResults, exit : 0..2,
                            drained : Posts, newest : Nat, drain_error : BOOLEAN]
            /\ waited'.exit = waited.exit /\ ~waited'.drain_error
            /\ waited'.result = "Matched"
            /\ waited'.drained = page /\ waited'.newest = posted /\ waited'.waiter = waited.waiter
        BY <1>1, <2>3, <3>3, <4>1, <4>3 DEF Waited, Undrained
      <4>5. posted # NoPost /\ posted \in (after + 1)..posted
        BY <1>1, <3>3 DEF NoPost
      <4>6. Waited(waited')
        BY <2>3, <3>3, <4>2, <4>4, <4>5 DEF Waited, Undrained
      <4>7. after' = after /\ posted' = posted
        BY <2>1
      <4>8. waited'.drained = Page(after' + 1, waited'.newest) /\ waited'.newest \in (after' + 1)..posted'
        BY <4>4, <4>5, <4>7 DEF page
      <4> QED BY <4>2, <4>4, <4>6, <4>8 DEF Settled
    <3> QED BY <1>3, <3>1, <3>2, <3>3 DEF AttachDrain
  <2> QED BY <1>1, <2>1, <2>2, <2>4 DEF WatchInv, CoverageTold
<1>4. CASE PrintReceipt
  <2>1. /\ watch = "receipt" /\ watch' = "advance" /\ UNCHANGED <<follow, paste_safe, after, posted, waited>>
        /\ log' = LifecycleLog(waited) /\ reported' = reported \o waited.drained
    BY <1>4 DEF PrintReceipt
  <2>2. Settled(waited) /\ reported = Page(1, after)
    BY <2>1 DEF WatchInv, Covered
  <2>3. Settled(waited)' /\ log' = LifecycleLog(waited')
    BY <2>1, <2>2 DEF Settled
  <2>4. reported' = Page(1, Covered')
    <3>1. CASE waited.newest = NoPost
      <4>1. Covered' = after /\ waited.drained = <<>>
        BY <2>1, <2>2, <3>1 DEF Covered, Settled, Waited
      <4>2. Page(1, after) \in Seq(Nat)
        BY <1>1, PageFacts DEF Posts, Page
      <4> QED BY <2>1, <2>2, <4>1, <4>2
    <3>2. CASE waited.newest # NoPost
      <4>1. /\ Covered' = waited.newest /\ waited.drained = Page(after + 1, waited.newest)
            /\ waited.newest \in Nat /\ after <= waited.newest
        BY <1>1, <2>1, <2>2, <3>2 DEF Covered, Settled, Waited
      <4> QED BY <1>1, <2>1, <2>2, <4>1, PagesMeet
    <3> QED BY <3>1, <3>2
  <2> QED BY <1>1, <2>1, <2>3, <2>4 DEF WatchInv, CoverageTold
<1>5. CASE Advance
  <2>1. watch = "advance" /\ UNCHANGED <<follow, paste_safe, posted, waited, reported, log>>
    BY <1>5 DEF Advance
  <2>2. Settled(waited) /\ reported = Page(1, IF waited.newest # NoPost THEN waited.newest ELSE after)
    BY <2>1 DEF WatchInv, Covered
  <2>5. /\ log' = log
        /\ "CoverageEnded" \in PhasesOf(log) <=> waited.result # "Matched" \/ waited.drain_error
        /\ waited.result = "Timeout" => log[Len(log)] = Fact("CoverageEnded", "deadman_expired")
    BY <2>1, <2>2, LifecycleFacts DEF WatchInv
  <2>3. CASE follow /\ Continues
    <3>1. watch' = "wait" /\ after' = AdvancedCursor
      BY <1>5, <2>3 DEF Advance
    <3>4. CoverageTold'
      <4>1. waited.result = "Matched" => ~waited.drain_error
        BY <2>2, <2>3 DEF Continues, Settled, Waited
      <4>2. waited.result = "Matched" \/ waited.result = "Timeout"
        BY <2>3 DEF Continues
      <4> QED BY <2>5, <3>1, <4>1, <4>2 DEF CoverageTold
    <3>2. CASE waited.result = "Matched"
      <4>1. waited.newest # NoPost /\ after' = waited.newest /\ waited.drained # <<>>
        BY <2>2, <2>3, <3>1, <3>2 DEF Continues, AdvancedCursor, Settled, Waited
      <4>2. waited.newest \in 0..posted
        BY <1>1, <2>2, <4>1 DEF Settled
      <4>3. reported' = Page(1, Covered')
        BY <2>1, <2>2, <3>1, <4>1 DEF Covered
      <4> QED BY <1>1, <2>1, <2>3, <3>1, <3>4, <4>1, <4>2, <4>3 DEF WatchInv
    <3>3. CASE waited.result # "Matched"
      <4>1. after' = after /\ waited.newest = NoPost
        BY <2>2, <3>1, <3>3 DEF AdvancedCursor, Settled, Waited
      <4>2. reported' = Page(1, Covered')
        BY <2>1, <2>2, <3>1, <4>1 DEF Covered
      <4> QED BY <1>1, <2>1, <2>3, <3>1, <3>4, <4>1, <4>2 DEF WatchInv
    <3> QED BY <3>2, <3>3
  <2>4. CASE ~(follow /\ Continues)
    <3>1. /\ watch' = "exited" /\ after' = after
          /\ process_exit' = IF follow THEN StopExit ELSE waited.exit
      BY <1>5, <2>4 DEF Advance
    <3>2. Settled(waited)' /\ StopExit' = StopExit /\ Continues' = Continues /\ waited' = waited /\ follow' = follow
      BY <2>1, <2>2, <3>1 DEF Settled, StopExit, Continues
    <3>3. reported' = Page(1, Covered')
      BY <2>1, <2>2, <3>1 DEF Covered
    <3>4. posted' \in Nat /\ after' \in 0..posted' /\ (~follow' => after' = 0)
      BY <1>1, <2>1, <3>1 DEF WatchInv
    <3>5. CoverageTold'
      <4>1. ASSUME process_exit' # 0 PROVE waited.result # "Matched" \/ waited.drain_error
        <5>1. CASE follow
          BY <2>2, <2>4, <5>1 DEF Continues, Settled, Waited
        <5>2. CASE ~follow
          BY <2>2, <3>1, <4>1, <5>2 DEF Settled, Waited, FromCode
        <5> QED BY <5>1, <5>2
      <4> QED BY <2>5, <3>1, <4>1 DEF CoverageTold
    <3> QED BY <2>4, <3>1, <3>2, <3>3, <3>4, <3>5 DEF WatchInv
  <2> QED BY <2>3, <2>4
<1>6. CASE Post
  <2>1. posted' = posted + 1 /\ UNCHANGED <<watch, follow, after, waited, reported, log, process_exit>>
    BY <1>6 DEF Post
  <2>2. Covered' = Covered /\ StopExit' = StopExit /\ Continues' = Continues
    BY <2>1 DEF Covered, StopExit, Continues
  <2>3. Settled(waited) => Settled(waited)'
    BY <1>1, <2>1 DEF Settled
  <2>4. posted' \in Nat /\ after' \in 0..posted'
    BY <1>1, <2>1
  <2> QED BY <2>1, <2>2, <2>3, <2>4 DEF WatchInv, CoverageTold
<1> QED BY <1>2, <1>3, <1>4, <1>5, <1>6 DEF WatchNext

LEMMA WatchInvAlways == WatchSpec => []WatchInv
<1>1. WatchInv /\ [WatchNext]_watchVars => WatchInv'
  <2>1. ASSUME WatchInv, UNCHANGED watchVars PROVE WatchInv'
    BY <2>1 DEF watchVars, WatchInv, Covered, Settled, StopExit, Continues, CoverageTold
  <2> QED BY <2>1, WatchInvStep
<1> QED BY <1>1, WatchInvInit, PTL DEF WatchSpec

\* What the watcher tells its caller: every post once and in order, nothing on a
\* receipt that the runner cannot show, an exit that says no more than the receipt,
\* and an end of coverage on the receipt of every watcher that stops without a match
\* and of none that waits again, but for the quiet interval of a watcher that follows
\* (wait_on.rs, lifecycle_log, coverage_advance and the follow loop).
THEOREM WatchIsTruthful == WatchSpec => []WatchReports
<1>1. ASSUME WatchInv PROVE PostsReportedOnce
  <2>1. Covered \in Nat
    BY <1>1 DEF WatchInv, Covered, Settled, Waited
  <2>2. Len(reported) = Covered
    <3>1. 0 \in Nat /\ 0 <= Covered /\ 0 + 1 = 1 /\ Covered - 0 = Covered
      BY <2>1
    <3>2. Len(Page(0 + 1, Covered)) = Covered - 0
      BY <2>1, <3>1, PageFacts
    <3> QED BY <1>1, <3>1, <3>2 DEF WatchInv
  <2>3. watch \in {"wait", "drain", "receipt"} => Covered = after
    BY DEF Covered
  <2> QED BY <1>1, <2>2, <2>3 DEF WatchInv, PostsReportedOnce
<1>2. ASSUME WatchInv PROVE ReceiptHonest
  BY <1>2, LifecycleFacts DEF WatchInv, ReceiptHonest
<1>3. ASSUME WatchInv PROVE ExitTruthful
  <2> SUFFICES ASSUME watch = "exited"
               PROVE  /\ process_exit = 0 => waited.drained # <<>> /\ ~waited.drain_error
                      /\ process_exit = 1 => waited.result = "Timeout" /\ reported = <<>>
                      /\ follow => process_exit = 2
    BY DEF ExitTruthful
  <2>1. Settled(waited) /\ process_exit = IF follow THEN StopExit ELSE waited.exit
    BY <1>3 DEF WatchInv
  <2>2. CASE follow
    <3>1. waited.result = "Error" => waited.exit = 2
      BY <2>1 DEF Settled, Waited, FromCode
    <3> QED BY <2>1, <2>2, <3>1 DEF StopExit
  <2>3. CASE ~follow
    <3>1. process_exit = (IF waited.drain_error THEN 2 ELSE FromCode(waited.result)) /\ after = 0
      BY <1>3, <2>1, <2>3 DEF WatchInv, Settled, Waited
    <3>2. process_exit = 0 => waited.drained # <<>> /\ ~waited.drain_error
      BY <2>1, <3>1 DEF Settled, Waited, FromCode, WaitResults
    <3>3. process_exit = 1 => waited.result = "Timeout"
      BY <2>1, <3>1 DEF Settled, Waited, FromCode, WaitResults
    <3>4. ASSUME process_exit = 1 PROVE reported = <<>>
      <4>1. waited.newest = NoPost
        BY <2>1, <3>3, <3>4 DEF Settled, Waited
      <4>2. reported = Page(1, 0)
        BY <1>3, <3>1, <4>1 DEF WatchInv, Covered
      <4>3. Len(Page(0 + 1, 0)) = 0 - 0 /\ Page(0 + 1, 0) \in Posts
        BY PageFacts
      <4> QED BY <4>2, <4>3 DEF Posts
    <3> QED BY <2>3, <3>2, <3>3, <3>4
  <2> QED BY <2>2, <2>3
<1>4. WatchInv => WatchReports
  BY <1>1, <1>2, <1>3 DEF WatchInv, WatchReports
<1> QED BY <1>4, WatchInvAlways, PTL

-----------------------------------------------------------------------------
(* The simulator's queue. *)

\* The stimuli of D that are served no later than k: by tick, then by place.
NoLater(d, D, k) == {l \in D : d[l] < d[k] \/ (d[l] = d[k] /\ l <= k)}
Rank(d, D, k) == Cardinality(NoLater(d, D, k))

\* The places in the queue are a numbering of what arrives that keeps the order of
\* the ticks.
LEMMA RanksNumber ==
    ASSUME NEW N \in Nat, NEW D \in SUBSET (1..N), NEW d \in [1..N -> Nat]
    PROVE  /\ IsFiniteSet(D) /\ Cardinality(D) \in Nat
           /\ \A k \in D : Rank(d, D, k) \in 1..Cardinality(D)
           /\ \A k, l \in D : k # l => Rank(d, D, k) # Rank(d, D, l)
           /\ \A k, l \in D : Rank(d, D, k) < Rank(d, D, l) => d[k] <= d[l]
           /\ \A n \in 1..Cardinality(D) : \E k \in D : Rank(d, D, k) = n
<1>1. IsFiniteSet(D) /\ Cardinality(D) \in Nat
  <2>1. IsFiniteSet(1..N)
    BY FS_Interval
  <2> QED BY <2>1, FS_Subset, FS_CardinalityType
<1>2. ASSUME NEW k \in D
      PROVE  /\ k \in NoLater(d, D, k) /\ IsFiniteSet(NoLater(d, D, k))
             /\ Rank(d, D, k) \in 1..Cardinality(D)
  <2>1. NoLater(d, D, k) \in SUBSET D /\ k \in NoLater(d, D, k)
    BY DEF NoLater
  <2>2. IsFiniteSet(NoLater(d, D, k)) /\ Rank(d, D, k) <= Cardinality(D)
    BY <1>1, <2>1, FS_Subset DEF Rank
  <2>3. Rank(d, D, k) \in Nat /\ Rank(d, D, k) # 0
    BY <2>1, <2>2, FS_CardinalityType, FS_EmptySet DEF Rank
  <2> QED BY <1>1, <2>1, <2>2, <2>3
<1>3. ASSUME NEW k \in D, NEW l \in D, k # l, d[k] < d[l] \/ (d[k] = d[l] /\ k <= l)
      PROVE  Rank(d, D, k) < Rank(d, D, l)
  <2>1. NoLater(d, D, k) \in SUBSET NoLater(d, D, l)
    <3>1. \A m \in D : m \in Nat /\ d[m] \in Nat
      OBVIOUS
    <3>2. ASSUME NEW m \in NoLater(d, D, k) PROVE m \in NoLater(d, D, l)
      <4>1. m \in D /\ (d[m] < d[k] \/ (d[m] = d[k] /\ m <= k))
        BY <3>2 DEF NoLater
      <4>2. d[m] < d[l] \/ (d[m] = d[l] /\ m <= l)
        BY <1>3, <3>1, <4>1
      <4> QED BY <4>1, <4>2 DEF NoLater
    <3> QED BY <3>2
  <2>2. l \notin NoLater(d, D, k)
    BY <1>3 DEF NoLater
  <2>3. Rank(d, D, k) <= Rank(d, D, l) /\ Rank(d, D, k) # Rank(d, D, l)
    BY <1>2, <2>1, <2>2, FS_Subset DEF Rank
  <2> QED BY <1>2, <2>3
<1>4. ASSUME NEW k \in D, NEW l \in D, k # l PROVE Rank(d, D, k) # Rank(d, D, l)
  <2>1. \/ d[k] < d[l] \/ (d[k] = d[l] /\ k <= l)
        \/ d[l] < d[k] \/ (d[l] = d[k] /\ l <= k)
    OBVIOUS
  <2> QED BY <1>2, <1>3, <1>4, <2>1
<1>5. ASSUME NEW k \in D, NEW l \in D, Rank(d, D, k) < Rank(d, D, l) PROVE d[k] <= d[l]
  <2>1. k # l /\ (~(d[k] <= d[l]) => d[l] < d[k])
    BY <1>2, <1>5
  <2> QED BY <1>2, <1>3, <1>5, <2>1
<1>6. ASSUME NEW n \in 1..Cardinality(D) PROVE \E k \in D : Rank(d, D, k) = n
  <2> DEFINE place == [k \in D |-> Rank(d, D, k)]
  <2>1. place \in Injection(D, 1..Cardinality(D))
    BY <1>2, <1>4 DEF Injection, IsInjective
  <2>2. IsFiniteSet(1..Cardinality(D)) /\ Cardinality(1..Cardinality(D)) = Cardinality(D)
    BY <1>1, FS_Interval
  <2>3. place \in Surjection(D, 1..Cardinality(D))
    BY <2>1, <2>2, FS_Injection
  <2> QED BY <2>3 DEF Surjection
<1> QED BY <1>1, <1>2, <1>4, <1>5, <1>6

\* The stimuli that are past their arrival and were not rejected, in the order in
\* which they are served.
Flying == IF in_flight = NothingInFlight THEN <<>> ELSE <<in_flight.stimulus>>
Served == (executed \o Flying) \o ready

Offers == 1..QueueOffers

\* A line of stimuli keeps the order of the ticks and has no stimulus twice.
InOrder(due, line) ==
    \A k, l \in DOMAIN line : k < l => line[k] # line[l] /\ due[line[k]] <= due[line[l]]

QueueTyped ==
    /\ scenario \in QueueScenarios
    /\ executed \in Seq(Offers) /\ ready \in Seq(Offers)
    /\ in_flight = NothingInFlight \/ in_flight \in [at : Nat, stimulus : Offers]
    /\ scheduled \subseteq Offers /\ rejected \subseteq Offers
    /\ tick \in Nat /\ errors = 0

QueueServed ==
    /\ InOrder(scenario.due, Served)
    /\ \A k \in DOMAIN Served : /\ Served[k] \notin rejected \cup scheduled
                                /\ \A l \in scheduled : scenario.due[Served[k]] <= scenario.due[l]
    /\ rejected \cap scheduled = {}
    /\ Len(Served) + Cardinality(rejected \cup scheduled) = QueueOffers
    /\ Occupied <= QueueLimit

StreamInv == QueueTyped /\ QueueServed

LEMMA QueueScenario ==
    ASSUME scenario \in QueueScenarios
    PROVE  /\ scenario.case = "QUEUE01" /\ scenario.capacity = QueueLimit /\ scenario.service = 2
           /\ scenario.due \in [Offers -> Nat]
           /\ DOMAIN scenario.stimuli = Offers /\ Len(scenario.stimuli) = QueueOffers
           /\ \A k \in Offers : Stimulus(k) = Stim("queue", "Offer", "e1")
           /\ QueueOffers \in Nat /\ QueueLimit \in Nat
<1>1. QueueOffers \in Nat /\ QueueTicks \in Nat /\ QueueLimit \in Nat
  BY SimulatorAssumption
<1> DEFINE offers == [k \in 1..QueueOffers |-> Stim("queue", "Offer", "e1")]
<1>2. PICK arrivals \in [1..QueueOffers -> 1..QueueTicks] :
         scenario = [case |-> "QUEUE01", fault |-> "None", stimuli |-> offers, due |-> arrivals,
                     capacity |-> QueueLimit, max_events |-> 1024, service |-> 2]
  BY DEF QueueScenarios
<1>3. arrivals \in [Offers -> Nat]
  BY <1>1 DEF Offers
<1>4. scenario.stimuli = offers /\ scenario.due = arrivals
  BY <1>2
<1>5. offers \in Seq({Stim("queue", "Offer", "e1")}) /\ Len(offers) = QueueOffers
  BY <1>1
<1>6. \A k \in Offers : Stimulus(k) = Stim("queue", "Offer", "e1")
  BY <1>4 DEF Offers, Stimulus
<1> HIDE DEF offers
<1>7. DOMAIN offers = Offers
  BY DEF offers, Offers
<1> QED BY <1>1, <1>2, <1>3, <1>4, <1>5, <1>6, <1>7

\* Every other scenario has a name of its own.
LEMMA OnlyTheQueue ==
    ASSUME scenario \in Scenarios, scenario.case = "QUEUE01" PROVE scenario \in QueueScenarios
<1>1. \A case, fault, stimuli : \A s \in ChainOf(case, fault, stimuli) : s.case = case
  BY DEF ChainOf
<1>2. \A case \in DOMAIN Catalog : case # "QUEUE01"
  BY DEF Catalog
<1>3. \/ scenario \in QueueScenarios
      \/ \E case \in DOMAIN Catalog : scenario \in ChainOf(case, FaultOf(case), Catalog[case])
      \/ \E fault, stimuli : scenario \in ChainOf("GENERATED", fault, stimuli)
  <2> DEFINE listed == {ChainOf(case, FaultOf(case), Catalog[case]) : case \in DOMAIN Catalog}
             generated == {ChainOf("GENERATED", fault, GeneratedChain(order)) :
                             fault \in {"None"} \cup {FaultModes[k] : k \in DOMAIN FaultModes},
                             order \in UNION {[1..n -> BOOLEAN] : n \in 2..MaxCycles}}
  <2>1. Scenarios = QueueScenarios \cup UNION (listed \cup generated)
    BY DEF Scenarios
  <2>2. \A chain \in listed : \E case \in DOMAIN Catalog : chain = ChainOf(case, FaultOf(case), Catalog[case])
    OBVIOUS
  <2>3. \A chain \in generated : \E fault, stimuli : chain = ChainOf("GENERATED", fault, stimuli)
    OBVIOUS
  <2> HIDE DEF listed, generated
  <2>4. scenario \in QueueScenarios \/ \E chain \in listed \cup generated : scenario \in chain
    BY <2>1
  <2>5. ASSUME NEW chain \in listed \cup generated, scenario \in chain
        PROVE  \/ \E case \in DOMAIN Catalog : scenario \in ChainOf(case, FaultOf(case), Catalog[case])
               \/ \E fault, stimuli : scenario \in ChainOf("GENERATED", fault, stimuli)
    <3>1. CASE chain \in listed
      BY <2>2, <2>5, <3>1
    <3>2. CASE chain \in generated
      BY <2>3, <2>5, <3>2
    <3> QED BY <2>5, <3>1, <3>2
  <2> QED BY <2>4, <2>5
<1> QED BY <1>1, <1>2, <1>3

\* The line of what is served, with the place of each part in it.
LEMMA ServedLine ==
    ASSUME QueueTyped
    PROVE  /\ Flying \in Seq(Offers) /\ executed \o Flying \in Seq(Offers) /\ Served \in Seq(Offers)
           /\ Len(Flying) = (IF in_flight = NothingInFlight THEN 0 ELSE 1)
           /\ Len(Served) = Len(executed) + Len(Flying) + Len(ready)
           /\ Occupied = Len(Flying \o ready)
<1>1. Flying \in Seq(Offers) /\ Len(Flying) = (IF in_flight = NothingInFlight THEN 0 ELSE 1)
  <2>1. CASE in_flight = NothingInFlight
    BY <2>1, EmptySeq DEF Flying
  <2>2. CASE in_flight # NothingInFlight
    <3>1. in_flight.stimulus \in Offers
      BY <2>2 DEF QueueTyped
    <3> QED BY <2>2, <3>1 DEF Flying
  <2> QED BY <2>1, <2>2
<1>2. executed \o Flying \in Seq(Offers) /\ Len(executed \o Flying) = Len(executed) + Len(Flying)
  BY <1>1, ConcatProperties DEF QueueTyped
<1>3. Served \in Seq(Offers) /\ Len(Served) = Len(executed \o Flying) + Len(ready)
  BY <1>2, ConcatProperties DEF QueueTyped, Served
<1>4. Occupied = Len(Flying \o ready)
  <2>1. Len(Flying \o ready) = Len(Flying) + Len(ready)
    BY <1>1, ConcatProperties DEF QueueTyped
  <2>2. Len(ready) \in Nat
    BY LenProperties DEF QueueTyped
  <2> QED BY <1>1, <2>1, <2>2 DEF Occupied
<1> QED BY <1>1, <1>2, <1>3, <1>4

\* What a tick queues: stimuli that are due, as many as there is room for, in the
\* order of their ticks.
LEMMA ArriveQueues ==
    ASSUME StreamInv, Arrive
    PROVE  \E D, Q, new :
              /\ D \subseteq scheduled /\ Q \subseteq D
              /\ \A k \in scheduled \ D, l \in D : scenario.due[l] <= scenario.due[k]
              /\ scheduled' = scheduled \ D
              /\ rejected' = rejected \cup (D \ Q)
              /\ new \in Seq(Q) /\ Len(new) = Cardinality(Q) /\ InOrder(scenario.due, new)
              /\ Occupied + Cardinality(Q) <= QueueLimit
              /\ ready' = ready \o new
<1> DEFINE d == scenario.due
           D == {k \in scheduled : d[k] <= tick /\ ParentReady(k)}
           before(k) == {l \in D : d[l] < d[k] \/ (d[l] = d[k] /\ l <= k)}
           room == scenario.capacity - Occupied
           Q == {k \in D : Cardinality(before(k)) <= room}
           new == [n \in 1..Cardinality(Q) |-> CHOOSE k \in Q : Cardinality(before(k)) = n]
<1>1. /\ scheduled' = scheduled \ D /\ rejected' = rejected \cup (D \ Q)
      /\ ready' = ready \o new
  BY DEF Arrive
<1>2. /\ scenario.case = "QUEUE01" /\ scenario.capacity = QueueLimit /\ QueueLimit \in Nat
      /\ d \in [Offers -> Nat] /\ QueueOffers \in Nat /\ D \in SUBSET Offers /\ tick \in Nat
  BY QueueScenario DEF StreamInv, QueueTyped
<1>3. \A k \in scheduled \ D, l \in D : d[l] <= d[k]
  <2> SUFFICES ASSUME NEW k \in scheduled \ D, NEW l \in D PROVE d[l] <= d[k]
    OBVIOUS
  <2>1. ParentReady(k)
    BY <1>2 DEF ParentReady
  <2>2. k \in Offers /\ l \in Offers /\ d[k] \in Nat /\ d[l] \in Nat
    BY <1>2 DEF StreamInv, QueueTyped
  <2>3. ~(d[k] <= tick) /\ d[l] <= tick
    BY <2>1
  <2> QED BY <1>2, <2>2, <2>3
<1>4. \A k : Cardinality(before(k)) = Rank(d, D, k)
  BY DEF Rank, NoLater
<1>5. /\ IsFiniteSet(D) /\ Cardinality(D) \in Nat
      /\ \A k \in D : Rank(d, D, k) \in 1..Cardinality(D)
      /\ \A k, l \in D : k # l => Rank(d, D, k) # Rank(d, D, l)
      /\ \A k, l \in D : Rank(d, D, k) < Rank(d, D, l) => d[k] <= d[l]
      /\ \A n \in 1..Cardinality(D) : \E k \in D : Rank(d, D, k) = n
  <2>1. QueueOffers \in Nat /\ D \in SUBSET (1..QueueOffers) /\ d \in [1..QueueOffers -> Nat]
    BY <1>2 DEF Offers
  <2> HIDE DEF d, D
  <2> QED BY ONLY <2>1, RanksNumber
<1>6. Occupied \in Nat /\ Occupied <= QueueLimit /\ room \in Nat
  <2>1. Len(ready) \in Nat
    BY LenProperties DEF StreamInv, QueueTyped
  <2> QED BY <1>2, <2>1 DEF Occupied, StreamInv, QueueServed
<1>7. Q = {k \in D : Rank(d, D, k) <= room}
  BY <1>4
<1>8. new = [n \in 1..Cardinality(Q) |-> CHOOSE k \in Q : Rank(d, D, k) = n]
  BY DEF Rank, NoLater
<1> HIDE DEF d, D, before, room, Q, new
<1>9. Q \in SUBSET D /\ IsFiniteSet(Q) /\ Cardinality(Q) \in Nat /\ Cardinality(Q) <= Cardinality(D)
  <2>1. Q \in SUBSET D
    BY <1>7
  <2> QED BY <1>5, <2>1, FS_Subset, FS_CardinalityType
<1>10. Cardinality(Q) <= room
  <2> DEFINE place == [k \in Q |-> Rank(d, D, k)]
  <2>1. place \in Injection(Q, 1..room)
    BY <1>5, <1>6, <1>7, <1>9 DEF Injection, IsInjective
  <2>2. IsFiniteSet(1..room) /\ Cardinality(1..room) = room
    BY <1>6, FS_Interval
  <2> QED BY <2>1, <2>2, FS_Injection
<1>11. \A n \in 1..Cardinality(Q) : \E k \in Q : Rank(d, D, k) = n
  <2> SUFFICES ASSUME NEW n \in 1..Cardinality(Q) PROVE \E k \in Q : Rank(d, D, k) = n
    OBVIOUS
  <2>1. n \in 1..Cardinality(D) /\ n <= room
    BY <1>5, <1>6, <1>9, <1>10
  <2> QED BY <1>5, <1>7, <2>1
<1>12. \A n \in 1..Cardinality(Q) : new[n] \in Q /\ Rank(d, D, new[n]) = n
  BY <1>8, <1>11
<1>13. new \in Seq(Q) /\ Len(new) = Cardinality(Q) /\ DOMAIN new = 1..Cardinality(Q)
  <2>1. new \in [1..Cardinality(Q) -> Q]
    BY <1>8, <1>12
  <2> QED BY <1>9, <2>1
<1>14. InOrder(d, new)
  <2> SUFFICES ASSUME NEW k \in DOMAIN new, NEW l \in DOMAIN new, k < l
               PROVE  new[k] # new[l] /\ d[new[k]] <= d[new[l]]
    BY DEF InOrder
  <2>1. new[k] \in D /\ new[l] \in D /\ Rank(d, D, new[k]) = k /\ Rank(d, D, new[l]) = l
    BY <1>9, <1>12, <1>13
  <2> QED BY <1>5, <2>1
<1>15. D \subseteq scheduled
  BY DEF D
<1>16. Occupied + Cardinality(Q) <= QueueLimit
  BY <1>2, <1>6, <1>9, <1>10 DEF room
<1>17. scenario.due = d
  BY DEF d
<1> QED BY <1>1, <1>3, <1>9, <1>13, <1>14, <1>15, <1>16, <1>17

LEMMA InOrderJoined ==
    ASSUME NEW S, NEW due, NEW s \in Seq(S), NEW t \in Seq(S), InOrder(due, s), InOrder(due, t),
           \A i \in DOMAIN s, j \in DOMAIN t : s[i] # t[j] /\ due[s[i]] <= due[t[j]]
    PROVE  InOrder(due, s \o t)
<1>1. /\ Len(s) \in Nat /\ Len(t) \in Nat /\ DOMAIN s = 1..Len(s) /\ DOMAIN t = 1..Len(t)
      /\ DOMAIN (s \o t) = 1..(Len(s) + Len(t))
  BY ConcatProperties, LenProperties
<1>2. \A i \in 1..(Len(s) + Len(t)) : (s \o t)[i] = IF i <= Len(s) THEN s[i] ELSE t[i - Len(s)]
  BY ConcatProperties
<1> DEFINE line == s \o t
<1>3. ASSUME NEW k \in DOMAIN line, NEW l \in DOMAIN line, k < l
      PROVE  line[k] # line[l] /\ due[line[k]] <= due[line[l]]
  <2>1. CASE l <= Len(s)
    <3>1. k \in DOMAIN s /\ l \in DOMAIN s /\ line[k] = s[k] /\ line[l] = s[l]
      BY <1>1, <1>2, <1>3, <2>1
    <3> QED BY <1>3, <3>1 DEF InOrder
  <2>2. CASE Len(s) < k
    <3>1. /\ k - Len(s) \in DOMAIN t /\ l - Len(s) \in DOMAIN t /\ k - Len(s) < l - Len(s)
          /\ line[k] = t[k - Len(s)] /\ line[l] = t[l - Len(s)]
      BY <1>1, <1>2, <1>3, <2>2
    <3> QED BY <3>1 DEF InOrder
  <2>3. CASE k <= Len(s) /\ Len(s) < l
    <3>1. k \in DOMAIN s /\ l - Len(s) \in DOMAIN t /\ line[k] = s[k] /\ line[l] = t[l - Len(s)]
      BY <1>1, <1>2, <1>3, <2>3
    <3> QED BY <3>1
  <2> QED BY <1>1, <2>1, <2>2, <2>3
<1> QED BY <1>3 DEF InOrder

LEMMA ArriveKeeps ==
    ASSUME StreamInv, Arrive PROVE StreamInv'
<1>1. PICK D, Q, new :
              /\ D \subseteq scheduled /\ Q \subseteq D
              /\ \A k \in scheduled \ D, l \in D : scenario.due[l] <= scenario.due[k]
              /\ scheduled' = scheduled \ D
              /\ rejected' = rejected \cup (D \ Q)
              /\ new \in Seq(Q) /\ Len(new) = Cardinality(Q) /\ InOrder(scenario.due, new)
              /\ Occupied + Cardinality(Q) <= QueueLimit
              /\ ready' = ready \o new
  BY ArriveQueues
<1>2. UNCHANGED <<scenario, tick, in_flight, executed, errors>>
  BY DEF Arrive
<1>3. /\ scheduled \subseteq Offers /\ rejected \subseteq Offers /\ ready \in Seq(Offers) /\ Served \in Seq(Offers)
      /\ executed \o Flying \in Seq(Offers) /\ Len(ready) \in Nat /\ Len(Served) \in Nat
      /\ DOMAIN Served = 1..Len(Served)
  BY ServedLine, LenProperties DEF StreamInv, QueueTyped
<1>4. Q \subseteq Offers /\ new \in Seq(Offers) /\ Len(new) \in Nat /\ DOMAIN new = 1..Len(new)
  <2>1. Q \subseteq Offers
    BY <1>1, <1>3
  <2> QED BY <1>1, <2>1, SeqMonotonic, LenProperties
<1>5. QueueTyped'
  <2>1. ready' \in Seq(Offers)
    BY <1>1, <1>3, <1>4, ConcatProperties
  <2> QED BY <1>1, <1>2, <1>3, <2>1 DEF StreamInv, QueueTyped
<1>6. Served' = Served \o new
  <2>1. Served' = (executed \o Flying) \o (ready \o new)
    BY <1>1, <1>2 DEF Served, Flying
  <2>2. ((executed \o Flying) \o ready) \o new = (executed \o Flying) \o (ready \o new)
    <3>1. \A s, t, u \in Seq(Offers) : (s \o t) \o u = s \o (t \o u)
      BY ConcatAssociative
    <3> QED BY <1>3, <1>4, <3>1, Zenon
  <2> QED BY <2>1, <2>2 DEF Served
<1>7. \A j \in DOMAIN new : new[j] \in Q
  BY <1>1, <1>4, ElementOfSeq
<1>8. /\ Len(Served \o new) = Len(Served) + Len(new)
      /\ DOMAIN (Served \o new) = 1..(Len(Served) + Len(new))
      /\ \A k \in DOMAIN (Served \o new) :
            \/ k \in DOMAIN Served /\ (Served \o new)[k] = Served[k]
            \/ k - Len(Served) \in DOMAIN new /\ (Served \o new)[k] = new[k - Len(Served)]
  <2>1. DOMAIN (Served \o new) = 1..(Len(Served) + Len(new))
    BY <1>3, <1>4, ConcatProperties, LenProperties
  <2> QED BY <1>3, <1>4, <2>1, ConcatProperties
<1>9. InOrder(scenario.due, Served \o new)
  <2>1. \A i \in DOMAIN Served, j \in DOMAIN new :
           Served[i] # new[j] /\ scenario.due[Served[i]] <= scenario.due[new[j]]
    BY <1>1, <1>7 DEF StreamInv, QueueServed
  <2> QED BY <1>1, <1>3, <1>4, <2>1, InOrderJoined DEF StreamInv, QueueServed
<1>10. \A k \in DOMAIN (Served \o new) :
          /\ (Served \o new)[k] \notin (rejected \cup (D \ Q)) \cup (scheduled \ D)
          /\ \A l \in scheduled \ D : scenario.due[(Served \o new)[k]] <= scenario.due[l]
  <2> SUFFICES ASSUME NEW k \in DOMAIN (Served \o new)
               PROVE  /\ (Served \o new)[k] \notin (rejected \cup (D \ Q)) \cup (scheduled \ D)
                      /\ \A l \in scheduled \ D : scenario.due[(Served \o new)[k]] <= scenario.due[l]
    OBVIOUS
  <2>1. CASE k \in DOMAIN Served /\ (Served \o new)[k] = Served[k]
    BY <1>1, <2>1 DEF StreamInv, QueueServed
  <2>2. CASE k - Len(Served) \in DOMAIN new /\ (Served \o new)[k] = new[k - Len(Served)]
    BY <1>1, <1>7, <2>2 DEF StreamInv, QueueServed
  <2> QED BY <1>8, <2>1, <2>2
<1>11. Len(Served \o new) + Cardinality((rejected \cup (D \ Q)) \cup (scheduled \ D)) = QueueOffers
  <2> DEFINE left == rejected \cup scheduled
  <2>1. IsFiniteSet(left) /\ Cardinality(left) \in Nat
    <3>1. left \in SUBSET (1..QueueOffers) /\ QueueOffers \in Int
      BY <1>3, QueueScenario DEF StreamInv, QueueTyped, Offers
    <3>2. IsFiniteSet(1..QueueOffers)
      BY <3>1, FS_Interval
    <3> HIDE DEF left
    <3> QED BY <3>1, <3>2, FS_Subset, FS_CardinalityType
  <2>2. (rejected \cup (D \ Q)) \cup (scheduled \ D) = left \ Q /\ left \cap Q = Q
    BY <1>1 DEF StreamInv, QueueServed
  <2>3. Cardinality(left \ Q) = Cardinality(left) - Cardinality(Q)
    BY <2>1, <2>2, FS_Difference
  <2>4. Len(Served) + Cardinality(left) = QueueOffers
    BY DEF StreamInv, QueueServed
  <2>5. Cardinality((rejected \cup (D \ Q)) \cup (scheduled \ D)) = Cardinality(left) - Len(new)
    BY <1>1, <2>2, <2>3
  <2> HIDE DEF left
  <2> QED BY <1>3, <1>4, <1>8, <2>1, <2>4, <2>5
<1>12. Occupied' <= QueueLimit
  <2>1. Len(ready') = Len(ready) + Len(new)
    BY <1>1, <1>3, <1>4, ConcatProperties
  <2> QED BY <1>1, <1>2, <1>3, <1>4, <2>1 DEF Occupied
<1>13. (rejected \cup (D \ Q)) \cap (scheduled \ D) = {}
  BY <1>1 DEF StreamInv, QueueServed
<1>14. QueueServed'
  BY <1>1, <1>2, <1>6, <1>9, <1>10, <1>11, <1>12, <1>13 DEF QueueServed
<1> QED BY <1>5, <1>14 DEF StreamInv

\* What does not change the line of what is served keeps everything said of it.
LEMMA SameLine ==
    ASSUME StreamInv, QueueTyped', Served' = Served, UNCHANGED <<scenario, scheduled, rejected>>,
           Occupied' <= QueueLimit
    PROVE  StreamInv'
BY DEF StreamInv, QueueServed

\* An offer is always taken, so its stimulus completes.
LEMMA OffersComplete ==
    ASSUME QueueTyped, NEW k \in Offers, CompleteStoreStep(k)
    PROVE  executed' = Append(executed, k) /\ UNCHANGED errors
<1>1. Stimulus(k) = Stim("queue", "Offer", "e1")
  BY QueueScenario DEF QueueTyped
<1>2. Stimulus(k).does = "Offer"
  BY <1>1 DEF Stim
<1>3. \A d : Apply(d, Stimulus(k)).outcome = "offered"
  BY <1>2 DEF Apply, Revised, Answer
<1> QED BY <1>3 DEF CompleteStoreStep

LEMMA CompleteKeeps ==
    ASSUME StreamInv, CompleteInFlight PROVE StreamInv'
<1>1. UNCHANGED <<scenario, tick, scheduled, ready, rejected>>
  BY DEF CompleteInFlight
<1>2. CASE UNCHANGED <<in_flight, executed, errors>>
  <2>1. Served' = Served /\ Occupied' = Occupied
    BY <1>1, <1>2 DEF Served, Flying, Occupied
  <2> QED BY <1>1, <1>2, <2>1, SameLine DEF StreamInv, QueueTyped, QueueServed
<1>3. CASE in_flight # NothingInFlight /\ CompleteStoreStep(in_flight.stimulus) /\ in_flight' = NothingInFlight
  <2>1. in_flight.stimulus \in Offers
    BY <1>3 DEF StreamInv, QueueTyped
  <2>2. executed' = Append(executed, in_flight.stimulus) /\ errors' = errors
    BY <1>3, <2>1, OffersComplete DEF StreamInv
  <2>3. executed \in Seq(Offers) /\ ready \in Seq(Offers)
    BY DEF StreamInv, QueueTyped
  <2>4. executed' = executed \o Flying /\ executed' \in Seq(Offers)
    BY <1>3, <2>1, <2>2, <2>3, AppendIsConcat DEF Flying
  <2>5. executed' \o <<>> = executed'
    BY <2>4, ConcatEmptySeq
  <2>6. Served' = Served
    BY <1>1, <1>3, <2>4, <2>5 DEF Served, Flying
  <2>7. Occupied' <= QueueLimit
    <3>1. Len(ready) \in Nat /\ Occupied <= QueueLimit /\ QueueLimit \in Nat
      BY <2>3, LenProperties, QueueScenario DEF StreamInv, QueueTyped, QueueServed
    <3> QED BY <1>1, <1>3, <3>1 DEF Occupied
  <2>8. QueueTyped'
    BY <1>1, <1>3, <2>2, <2>4 DEF StreamInv, QueueTyped
  <2> QED BY <1>1, <2>6, <2>7, <2>8, SameLine
<1> QED BY <1>2, <1>3 DEF CompleteInFlight

LEMMA ServeKeeps ==
    ASSUME StreamInv, ServeOne PROVE StreamInv'
<1>1. UNCHANGED <<scenario, tick, scheduled, executed, rejected, errors>>
  BY DEF ServeOne
<1>2. CASE UNCHANGED <<in_flight, ready>>
  <2>1. Served' = Served /\ Occupied' = Occupied
    BY <1>1, <1>2 DEF Served, Flying, Occupied
  <2> QED BY <1>1, <1>2, <2>1, SameLine DEF StreamInv, QueueTyped, QueueServed
<1>3. CASE /\ in_flight = NothingInFlight /\ ready # <<>>
           /\ in_flight' = [at |-> tick + scenario.service, stimulus |-> ready[1]] /\ ready' = Tail(ready)
  <2>1. executed \in Seq(Offers) /\ ready \in Seq(Offers) /\ scenario.service = 2 /\ tick \in Nat
    BY QueueScenario DEF StreamInv, QueueTyped
  <2>2. /\ ready[1] \in Offers /\ ready' \in Seq(Offers) /\ Len(ready') = Len(ready) - 1 /\ Len(ready) \in Nat
        /\ <<ready[1]>> \in Seq(Offers) /\ ready = <<ready[1]>> \o ready'
    <3>1. Head(ready) \in Offers /\ Tail(ready) \in Seq(Offers) /\ Len(Tail(ready)) = Len(ready) - 1
      BY <1>3, <2>1, HeadTailProperties
    <3>2. ready = <<Head(ready)>> \o Tail(ready)
      BY <1>3, <2>1
    <3> QED BY <1>3, <2>1, <3>1, <3>2, LenProperties
  <2>3. in_flight' \in [at : Nat, stimulus : Offers] /\ in_flight' # NothingInFlight
    BY <1>3, <2>1, <2>2 DEF NothingInFlight, Offers
  <2>4. Served' = (executed \o <<ready[1]>>) \o ready'
    BY <1>1, <1>3, <2>3 DEF Served, Flying
  <2>5. Served = executed \o (<<ready[1]>> \o ready')
    <3>1. executed \o <<>> = executed
      BY <2>1, ConcatEmptySeq
    <3> QED BY <1>3, <2>2, <3>1 DEF Served, Flying
  <2>6. Served' = Served
    <3>1. \A s, t, u \in Seq(Offers) : (s \o t) \o u = s \o (t \o u)
      BY ConcatAssociative
    <3>2. (executed \o <<ready[1]>>) \o ready' = executed \o (<<ready[1]>> \o ready')
      BY <2>1, <2>2, <3>1, Zenon
    <3> QED BY <2>4, <2>5, <3>2
  <2>7. Occupied' <= QueueLimit
    <3>1. Occupied <= QueueLimit
      BY DEF StreamInv, QueueServed
    <3> QED BY <1>3, <2>2, <2>3, <3>1 DEF Occupied
  <2>8. QueueTyped'
    BY <1>1, <2>2, <2>3 DEF StreamInv, QueueTyped
  <2> QED BY <1>1, <2>6, <2>7, <2>8, SameLine
<1> QED BY <1>2, <1>3 DEF ServeOne

LEMMA TicksKeep ==
    ASSUME StreamInv, AdvanceTick PROVE StreamInv'
<1>1. UNCHANGED <<scenario, scheduled, ready, in_flight, executed, rejected, errors>>
  BY DEF AdvanceTick
<1>2. tick' \in Nat
  <2>1. tick \in Nat /\ scheduled \subseteq Offers /\ scenario.due \in [Offers -> Nat]
    BY QueueScenario DEF StreamInv, QueueTyped
  <2>2. in_flight # NothingInFlight => in_flight.at \in Nat
    BY DEF StreamInv, QueueTyped
  <2>3. \A next \in NextTicks : next \in Nat
    BY <2>1, <2>2 DEF NextTicks
  <2> QED BY <2>1, <2>3 DEF AdvanceTick
<1>3. Served' = Served /\ Occupied' = Occupied
  BY <1>1 DEF Served, Flying, Occupied
<1> QED BY <1>1, <1>2, <1>3, SameLine DEF StreamInv, QueueTyped, QueueServed

LEMMA QueueStep ==
    ASSUME StreamInv, [SimNext]_simVars PROVE StreamInv'
<1>1. CASE CheckLimits \/ Judge \/ RunProcessCase \/ UNCHANGED simVars
  <2>1. UNCHANGED <<scenario, tick, scheduled, ready, in_flight, executed, rejected, errors>>
    BY <1>1 DEF CheckLimits, Judge, RunProcessCase, simVars
  <2>2. Served' = Served /\ Occupied' = Occupied
    BY <2>1 DEF Served, Flying, Occupied
  <2> QED BY <2>1, <2>2, SameLine DEF StreamInv, QueueTyped, QueueServed
<1>2. ~ServeAll
  BY QueueScenario DEF ServeAll, StreamInv, QueueTyped
<1> QED BY <1>1, <1>2, ArriveKeeps, CompleteKeeps, ServeKeeps, TicksKeep DEF SimNext

LEMMA QueueInit ==
    ASSUME SimInit, scenario.case = "QUEUE01" PROVE StreamInv
<1>1. PICK s \in Scenarios : SimInitOf(s)
  BY DEF SimInit
<1>2. scenario \in QueueScenarios
  BY <1>1, OnlyTheQueue DEF SimInitOf
<1>3. /\ scheduled = Offers /\ executed = <<>> /\ ready = <<>> /\ in_flight = NothingInFlight /\ rejected = {}
      /\ tick = 0 /\ errors = 0
  BY <1>1, <1>2, QueueScenario DEF SimInitOf
<1>4. QueueTyped
  BY <1>2, <1>3 DEF QueueTyped
<1>5. Served = <<>> /\ Occupied = 0
  BY <1>3 DEF Served, Flying, Occupied
<1>6. Cardinality(rejected \cup scheduled) = QueueOffers
  <2>1. rejected \cup scheduled = 1..QueueOffers /\ QueueOffers \in Nat
    BY <1>2, <1>3, QueueScenario DEF Offers
  <2>2. Cardinality(1..QueueOffers) = QueueOffers
    BY <2>1, FS_Interval
  <2> QED BY <2>1, <2>2
<1>7. QueueLimit \in Nat /\ QueueOffers \in Nat
  BY <1>2, QueueScenario
<1>8. QueueServed
  BY <1>3, <1>5, <1>6, <1>7 DEF QueueServed, InOrder
<1> QED BY <1>4, <1>8 DEF StreamInv

LEMMA QueueMeans ==
    ASSUME StreamInv PROVE QueueAccounted
<1>1. Len(Flying \o ready) <= scenario.capacity
  BY ServedLine, QueueScenario DEF StreamInv, QueueServed, QueueTyped
<1>2. \A k, l \in DOMAIN Served :
         k < l => Served[k] # Served[l] /\ scenario.due[Served[k]] <= scenario.due[Served[l]]
  BY DEF StreamInv, QueueServed, InOrder
<1>3. {Served[k] : k \in DOMAIN Served} \cap (rejected \cup scheduled) = {} /\ rejected \cap scheduled = {}
  BY DEF StreamInv, QueueServed
<1>4. Len(Served) + Cardinality(rejected \cup scheduled) = Len(scenario.stimuli)
  BY QueueScenario DEF StreamInv, QueueServed, QueueTyped
<1> QED BY <1>1, <1>2, <1>3, <1>4 DEF QueueAccounted, Served, Flying

-----------------------------------------------------------------------------
(* The simulator's chains, and its verdict. *)

\* A script is a sequence, of whatever it is made.
IsScript(s) == \E S : s \in Seq(S)

LEMMA ScriptsJoin == ASSUME NEW s, NEW t, IsScript(s), IsScript(t) PROVE IsScript(s \o t)
<1>1. PICK S, T : s \in Seq(S) /\ t \in Seq(T)
  BY DEF IsScript
<1>2. S \subseteq S \cup T /\ T \subseteq S \cup T
  OBVIOUS
<1>3. s \in Seq(S \cup T) /\ t \in Seq(S \cup T)
  BY <1>1, <1>2, SeqMonotonic
<1>4. s \o t \in Seq(S \cup T)
  BY <1>3, ConcatProperties
<1> QED BY <1>4 DEF IsScript

LEMMA ScriptsAre ==
    /\ \A a : IsScript(<<a>>)
    /\ \A a, b : IsScript(<<a, b>>)
    /\ \A a, b, c : IsScript(<<a, b, c>>)
    /\ \A a, b, c, d, e : IsScript(<<a, b, c, d, e>>)
    /\ IsScript(<<>>)
<1>1. ASSUME NEW a PROVE IsScript(<<a>>)
  <2>1. <<a>> \in Seq({a})
    OBVIOUS
  <2> QED BY <2>1 DEF IsScript
<1>2. ASSUME NEW a, NEW b PROVE IsScript(<<a, b>>)
  <2>1. <<a, b>> \in Seq({a, b})
    OBVIOUS
  <2> QED BY <2>1 DEF IsScript
<1>3. ASSUME NEW a, NEW b, NEW c PROVE IsScript(<<a, b, c>>)
  <2>1. <<a, b, c>> \in Seq({a, b, c})
    OBVIOUS
  <2> QED BY <2>1 DEF IsScript
<1>4. ASSUME NEW a, NEW b, NEW c, NEW d, NEW e PROVE IsScript(<<a, b, c, d, e>>)
  <2>1. <<a, b, c, d, e>> \in Seq({a, b, c, d, e})
    OBVIOUS
  <2> QED BY <2>1 DEF IsScript
<1>5. IsScript(<<>>)
  <2>1. <<>> \in Seq({})
    OBVIOUS
  <2> QED BY <2>1 DEF IsScript
<1> QED BY <1>1, <1>2, <1>3, <1>4, <1>5, Zenon

\* Every script of the catalogue and every generated chain is a sequence of stimuli.
LEMMA ChainsAreScripts ==
    /\ \A case \in DOMAIN Catalog : IsScript(Catalog[case])
    /\ \A order \in UNION {[1..n -> BOOLEAN] : n \in 2..MaxCycles} : IsScript(GeneratedChain(order))
<1>0. \A s, t : IsScript(s) /\ IsScript(t) => IsScript(s \o t)
  BY ScriptsJoin
<1>1. IsScript(ClaimedChain)
  BY ScriptsAre DEF ClaimedChain
<1>2. IsScript(FirstAcknowledgedChain)
  BY <1>0, <1>1, ScriptsAre DEF FirstAcknowledgedChain
<1>3. IsScript(CompleteChain)
  BY <1>0, <1>2, ScriptsAre DEF CompleteChain
<1>4. IsScript(RevokedChain) /\ IsScript(RestartedChain)
  BY <1>0, <1>1, <1>2, ScriptsAre DEF RevokedChain, RestartedChain
<1>5. ASSUME NEW case \in DOMAIN Catalog PROVE IsScript(Catalog[case])
  <2>1. /\ IsScript(Catalog["REPLAY01"]) /\ IsScript(Catalog["CHAIN02"]) /\ IsScript(Catalog["CHAIN03"])
        /\ IsScript(Catalog["CHAIN05"]) /\ IsScript(Catalog["CHAIN08"])
    BY <1>0, <1>1, <1>2, ScriptsAre DEF Catalog
  <2>2. IsScript(Catalog["CHAIN06"])
    <3> DEFINE rest == <<Rearm("rearm-wait"), Stim("offer-during-rearm", "Offer", "e2"),
                         Stim("claim-during-rearm", "Admit", "e2"), Terminal("terminal-1"),
                         Restart("restart-terminal"), Rearm("rearm-1"), Stim("arm-2", "Arm", "none"),
                         Stim("claim-after-rearm", "Admit", "e2")>>
    <3>1. IsScript(rest)
      <4>1. rest \in Seq({rest[k] : k \in 1..8})
        OBVIOUS
      <4> QED BY <4>1 DEF IsScript
    <3>2. Catalog["CHAIN06"] = FirstAcknowledgedChain \o rest
      BY DEF Catalog
    <3> HIDE DEF rest
    <3> QED BY <1>0, <1>2, <3>1, <3>2
  <2>3. /\ Catalog["CHAIN01"] = CompleteChain /\ Catalog["CHAIN04"] = RevokedChain
        /\ Catalog["CHAIN07"] = RestartedChain /\ Catalog["PROC01"] = RestartedChain
        /\ Catalog["ORACLE01"] = ClaimedChain /\ Catalog["ORACLE02"] = RestartedChain
        /\ Catalog["ORACLE03"] = RevokedChain /\ Catalog["ORACLE04"] = FirstAcknowledgedChain
    BY DEF Catalog
  <2>4. case \in {"CHAIN01", "REPLAY01", "CHAIN02", "CHAIN03", "CHAIN04", "CHAIN05", "CHAIN06", "CHAIN07", "CHAIN08",
                  "PROC01", "ORACLE01", "ORACLE02", "ORACLE03", "ORACLE04"}
    BY <1>5 DEF Catalog
  <2> QED BY <1>1, <1>2, <1>3, <1>4, <2>1, <2>2, <2>3, <2>4
<1>6. ASSUME NEW order \in UNION {[1..n -> BOOLEAN] : n \in 2..MaxCycles}
      PROVE  IsScript(GeneratedChain(order))
  <2> DEFINE cycle(k) == IF k \in DOMAIN order THEN RetryCycle(k, order[k]) ELSE <<>>
             second == <<Terminal("terminal-1"), Rearm("rearm-1"), Stim("arm-2", "Arm", "none"),
                         Stim("offer-2", "Offer", "e2"), Stim("claim-2", "Admit", "e2"), Retrieve("retrieve-2", "r2"),
                         Acknowledge("ack-2", "a2"), Terminal("terminal-2"), Rearm("rearm-2")>>
  <2>1. \A k, before : IsScript(RetryCycle(k, before))
    BY <1>0, ScriptsAre DEF RetryCycle, Retries
  <2>2. \A k : IsScript(cycle(k))
    BY <2>1, ScriptsAre
  <2>3. IsScript(second)
    <3>1. second \in Seq({second[k] : k \in 1..9})
      OBVIOUS
    <3> QED BY <3>1 DEF IsScript
  <2>4. GeneratedChain(order) =
           FirstAcknowledgedChain \o cycle(1) \o cycle(2) \o cycle(3) \o cycle(4) \o second
    BY DEF GeneratedChain
  <2> HIDE DEF cycle, second
  <2> QED BY <1>0, <1>2, <2>2, <2>3, <2>4, Zenon
<1> QED BY <1>5, <1>6

LEMMA ChainScenario ==
    ASSUME scenario \in Scenarios, scenario.case # "QUEUE01"
    PROVE  /\ Len(scenario.stimuli) \in Nat /\ DOMAIN scenario.stimuli = 1..Len(scenario.stimuli)
           /\ scenario.due = [k \in DOMAIN scenario.stimuli |-> k]
           /\ scenario.capacity = 64 /\ scenario.service = 0
<1> DEFINE listed == {ChainOf(case, FaultOf(case), Catalog[case]) : case \in DOMAIN Catalog}
           generated == {ChainOf("GENERATED", fault, GeneratedChain(order)) :
                            fault \in {"None"} \cup {FaultModes[k] : k \in DOMAIN FaultModes},
                            order \in UNION {[1..n -> BOOLEAN] : n \in 2..MaxCycles}}
<1>1. Scenarios = QueueScenarios \cup UNION (listed \cup generated)
  BY DEF Scenarios
<1>2. \A chain \in listed : \E case, fault, stimuli : IsScript(stimuli) /\ chain = ChainOf(case, fault, stimuli)
  BY ChainsAreScripts
<1>3. \A chain \in generated : \E case, fault, stimuli : IsScript(stimuli) /\ chain = ChainOf(case, fault, stimuli)
  BY ChainsAreScripts
<1>4. \A s \in QueueScenarios : s.case = "QUEUE01"
  BY DEF QueueScenarios
<1> HIDE DEF listed, generated
<1>5. PICK chain \in listed \cup generated : scenario \in chain
  BY <1>1, <1>4
<1>6. PICK case, fault, stimuli : IsScript(stimuli) /\ scenario \in ChainOf(case, fault, stimuli)
  BY <1>2, <1>3, <1>5
<1>7. /\ scenario.stimuli = stimuli /\ scenario.due = [k \in DOMAIN stimuli |-> k]
      /\ scenario.capacity = 64 /\ scenario.service = 0
  BY <1>6 DEF ChainOf
<1>8. Len(stimuli) \in Nat /\ DOMAIN stimuli = 1..Len(stimuli)
  BY <1>6, LenProperties DEF IsScript
<1> QED BY <1>7, <1>8

Length == Len(scenario.stimuli)
Upto(n) == [k \in 1..n |-> k]

\* How far a chain without an error is: the stimuli before n are executed, but for
\* one that is being served, and the others wait for their ticks.
ChainAt(n) ==
    /\ n \in 1..(Length + 1) /\ tick \in Nat
    /\ scheduled = n..Length /\ rejected = {}
    /\ IF ready = <<>> THEN executed = Upto(n - 1)
       ELSE loop = "serve" /\ n > 1 /\ ready = <<n - 1>> /\ executed = Upto(n - 2) /\ ~OverLimit
    /\ loop \in {"limits", "complete", "arrive"} => tick <= n
    /\ loop \in {"complete", "arrive"} => n <= Length /\ ~OverLimit
    /\ loop \in {"serve", "advance"} /\ n <= Length => tick < n

ChainInv ==
    /\ scenario \in Scenarios /\ scenario.case # "QUEUE01"
    /\ loop \in {"limits", "complete", "arrive", "serve", "advance", "judge"}
    /\ in_flight = NothingInFlight /\ errors \in Nat
    /\ errors = 0 => \E n : ChainAt(n)

LEMMA ChainInit ==
    ASSUME SimInit, scenario.case # "QUEUE01" PROVE ChainInv
<1>1. PICK s \in Scenarios : SimInitOf(s)
  BY DEF SimInit
<1>2. scenario \in Scenarios /\ Length \in Nat /\ DOMAIN scenario.stimuli = 1..Length
  BY <1>1, ChainScenario DEF SimInitOf, Length
<1>3. executed = Upto(0) /\ ready = <<>> /\ scheduled = 1..Length /\ rejected = {} /\ tick = 0
  BY <1>1, <1>2 DEF SimInitOf, Upto
<1>4. loop = "limits"
  BY <1>1 DEF SimInitOf
<1>5. ChainAt(1)
  BY <1>2, <1>3, <1>4 DEF ChainAt
<1> QED BY <1>1, <1>2, <1>4, <1>5 DEF ChainInv, SimInitOf

LEMMA ChainChecks ==
    ASSUME ChainInv, CheckLimits PROVE ChainInv'
<1>1. /\ UNCHANGED <<scenario, tick, scheduled, ready, in_flight, executed, rejected, errors, observations>>
      /\ loop = "limits" /\ loop' = IF StreamEnded \/ OverLimit THEN "judge" ELSE "complete"
  BY DEF CheckLimits
<1>2. OverLimit' = OverLimit /\ Length' = Length /\ Length \in Nat
  BY <1>1, ChainScenario DEF OverLimit, Length, ChainInv
<1>3. ASSUME NEW n, ChainAt(n) PROVE ChainAt(n)'
  <2>1. ready = <<>> /\ executed = Upto(n - 1) /\ n \in 1..(Length + 1) /\ tick <= n /\ scheduled = n..Length
    BY <1>1, <1>3 DEF ChainAt
  <2>2. loop' = "complete" => n <= Length /\ ~OverLimit
    <3>1. n > Length => scheduled = {}
      BY <1>2, <2>1
    <3> QED BY <1>1, <1>2, <2>1, <3>1 DEF StreamEnded, ChainInv
  <2>3. loop' \in {"judge", "complete"}
    BY <1>1
  <2> HIDE DEF CheckLimits
  <2> QED BY <1>1, <1>2, <1>3, <2>1, <2>2, <2>3 DEF ChainAt
<1>4. loop' \in {"judge", "complete"}
  BY <1>1
<1> QED BY <1>1, <1>3, <1>4 DEF ChainInv

LEMMA ChainCompletes ==
    ASSUME ChainInv, CompleteInFlight PROVE ChainInv'
<1>1. /\ UNCHANGED <<scenario, tick, scheduled, ready, in_flight, executed, rejected, errors, observations>>
      /\ loop = "complete" /\ loop' = "arrive"
  BY DEF CompleteInFlight, ChainInv
<1>2. OverLimit' = OverLimit /\ Length' = Length
  BY <1>1 DEF OverLimit, Length
<1>3. ASSUME NEW n, ChainAt(n) PROVE ChainAt(n)'
  BY <1>1, <1>2, <1>3 DEF ChainAt
<1> QED BY <1>1, <1>3 DEF ChainInv

LEMMA ChainAdvances ==
    ASSUME ChainInv, AdvanceTick PROVE ChainInv'
<1>1. /\ UNCHANGED <<scenario, scheduled, ready, in_flight, executed, rejected, errors, observations>>
      /\ loop = "advance" /\ loop' \in {"judge", "limits"}
  BY DEF AdvanceTick
<1>2. /\ OverLimit' = OverLimit /\ Length' = Length /\ Length \in Nat
      /\ scenario.due = [k \in 1..Length |-> k]
  BY <1>1, ChainScenario DEF OverLimit, Length, ChainInv
<1>3. ASSUME NEW n, ChainAt(n), errors = 0 PROVE ChainAt(n)'
  <2>1. /\ ready = <<>> /\ executed = Upto(n - 1) /\ n \in 1..(Length + 1) /\ scheduled = n..Length
        /\ rejected = {} /\ tick \in Nat /\ (n <= Length => tick < n)
    BY <1>1, <1>3 DEF ChainAt
  <2>2. NextTicks = n..Length
    <3>1. NextTicks = {scenario.due[k] : k \in scheduled}
      BY <2>1 DEF NextTicks, ChainInv
    <3>2. \A k \in n..Length : k \in 1..Length /\ scenario.due[k] = k
      BY <1>2, <2>1
    <3> QED BY <2>1, <3>1, <3>2
  <2>3. CASE loop' = "judge"
    <3>1. tick' = tick
      BY <2>3 DEF AdvanceTick
    <3> QED BY <1>1, <1>2, <1>3, <2>1, <2>3, <3>1 DEF ChainAt
  <2>4. CASE loop' = "limits"
    <3>1. PICK next \in NextTicks : /\ \A other \in NextTicks : next <= other
                                    /\ tick' = IF next > tick THEN next ELSE tick + 1
      BY <2>4 DEF AdvanceTick
    <3>2. n \in n..Length /\ n <= Length
      BY <1>2, <2>1, <2>2, <3>1
    <3>3. next = n
      BY <1>2, <2>1, <2>2, <3>1, <3>2
    <3>4. tick' = n
      BY <2>1, <3>1, <3>2, <3>3
    <3> QED BY <1>1, <1>2, <2>1, <2>4, <3>4 DEF ChainAt
  <2> QED BY <1>1, <2>3, <2>4
<1> QED BY <1>1, <1>3 DEF ChainInv

LEMMA ChainServes ==
    ASSUME ChainInv, ServeAll PROVE ChainInv'
<1>1. /\ UNCHANGED <<scenario, tick, scheduled, in_flight, rejected>> /\ loop = "serve"
      /\ Length' = Length /\ Length \in Nat /\ loop' \in {"serve", "advance", "judge"}
  BY ChainScenario DEF ServeAll, ChainInv, Length
<1>2. errors' \in Nat /\ (errors' = 0 => errors = 0)
  BY DEF ServeAll, CompleteStoreStep, ChainInv
<1>3. ASSUME NEW n, ChainAt(n), errors' = 0 PROVE ChainAt(n)'
  <2>1. CASE ready = <<>>
    <3>1. UNCHANGED <<ready, executed, observations>> /\ loop' = "advance"
      BY <2>1 DEF ServeAll
    <3>2. OverLimit' = OverLimit
      BY <1>1, <3>1 DEF OverLimit
    <3> QED BY <1>1, <1>3, <2>1, <3>1, <3>2 DEF ChainAt
  <2>2. CASE ready # <<>>
    <3>1. ~OverLimit /\ ready = <<n - 1>> /\ executed = Upto(n - 2) /\ n > 1 /\ n \in 1..(Length + 1)
      BY <1>3, <2>2 DEF ChainAt
    <3>2. CompleteStoreStep(ready[1]) /\ ready' = Tail(ready) /\ loop' = "serve"
      BY <1>1, <2>2, <3>1 DEF ServeAll
    <3>3. ready' = <<>> /\ ready[1] = n - 1
      BY <3>1, <3>2
    <3>4. executed' = Append(executed, n - 1)
      BY <1>2, <1>3, <3>2, <3>3 DEF CompleteStoreStep, ChainInv
    <3>5. Append(Upto(n - 2), n - 1) = Upto(n - 1)
      <4> DEFINE m == n - 2
      <4>1. m \in Nat /\ n - 1 = m + 1
        BY <1>1, <3>1
      <4>2. Upto(m) \in Seq(Nat) /\ Len(Upto(m)) = m /\ Upto(m + 1) \in Seq(Nat) /\ Len(Upto(m + 1)) = m + 1
        BY <4>1 DEF Upto
      <4>3. Append(Upto(m), m + 1) \in Seq(Nat) /\ Len(Append(Upto(m), m + 1)) = m + 1
        BY <4>1, <4>2
      <4>4. \A k \in 1..(m + 1) : Append(Upto(m), m + 1)[k] = Upto(m + 1)[k]
        BY <4>1, <4>2 DEF Upto
      <4>5. Append(Upto(m), m + 1) = Upto(m + 1)
        BY <4>1, <4>2, <4>3, <4>4, SeqEqual
      <4> QED BY <4>1, <4>5
    <3> QED BY <1>1, <1>3, <3>1, <3>2, <3>3, <3>4, <3>5 DEF ChainAt
  <2> QED BY <2>1, <2>2
<1> QED BY <1>1, <1>2, <1>3 DEF ChainInv

LEMMA ChainArrives ==
    ASSUME ChainInv, Arrive PROVE ChainInv'
<1>1. /\ UNCHANGED <<scenario, tick, in_flight, executed, errors, observations>>
      /\ loop = "arrive" /\ loop' = "serve"
  BY DEF Arrive
<1>2. /\ OverLimit' = OverLimit /\ Length' = Length /\ Length \in Nat
      /\ scenario.due = [k \in 1..Length |-> k] /\ scenario.capacity = 64
  BY <1>1, ChainScenario DEF OverLimit, Length, ChainInv
<1> DEFINE due == {k \in scheduled : scenario.due[k] <= tick /\ ParentReady(k)}
           before(k) == {l \in due : scenario.due[l] < scenario.due[k] \/ (scenario.due[l] = scenario.due[k] /\ l <= k)}
           room == scenario.capacity - Occupied
           queued == {k \in due : Cardinality(before(k)) <= room}
           new == [m \in 1..Cardinality(queued) |-> CHOOSE k \in queued : Cardinality(before(k)) = m]
<1>3. scheduled' = scheduled \ due /\ rejected' = rejected \cup (due \ queued) /\ ready' = ready \o new
  BY DEF Arrive
<1>4. ASSUME NEW n, ChainAt(n) PROVE \E m : ChainAt(m)'
  <2>1. /\ ready = <<>> /\ executed = Upto(n - 1) /\ n \in 1..Length /\ scheduled = n..Length
        /\ rejected = {} /\ tick \in Nat /\ tick <= n /\ ~OverLimit
    BY <1>1, <1>2, <1>4 DEF ChainAt
  <2>2. \A k \in scheduled : scenario.due[k] = k
    BY <1>2, <2>1
  <2>3. ParentReady(n)
    <3>1. n > 1 => n - 1 \in DOMAIN executed /\ executed[n - 1] = n - 1
      BY <1>2, <2>1 DEF Upto
    <3> QED BY <2>1, <3>1 DEF ParentReady, Completed
  <2>4. CASE tick < n
    <3>1. due = {}
      BY <1>2, <2>1, <2>2, <2>4
    <3>2. queued = {} /\ Cardinality(queued) = 0
      BY <3>1, FS_EmptySet
    <3>3. new = <<>>
      <4> HIDE DEF queued, before
      <4> QED BY <3>2
    <3>4. ready' = <<>> /\ scheduled' = scheduled /\ rejected' = {}
      <4> HIDE DEF due, queued, new
      <4> QED BY <1>3, <2>1, <3>1, <3>2, <3>3
    <3>5. ChainAt(n)'
      BY <1>1, <1>2, <2>1, <2>4, <3>4 DEF ChainAt
    <3> QED BY <3>5
  <2>5. CASE tick = n
    <3>1. due = {n}
      BY <1>2, <2>1, <2>2, <2>3, <2>5
    <3>2. \A k \in due : before(k) = {n}
      <4>1. before(n) = {l \in {n} : scenario.due[l] < scenario.due[n] \/ (scenario.due[l] = scenario.due[n] /\ l <= n)}
        BY <3>1
      <4>2. scenario.due[n] = n /\ n <= n
        BY <1>2, <2>1
      <4>3. before(n) = {n}
        BY <4>1, <4>2
      <4> HIDE DEF due, before
      <4> QED BY <3>1, <4>3
    <3>3. Cardinality({n}) = 1
      BY FS_Singleton
    <3>4. room = 64
      BY <1>2, <2>1 DEF Occupied, ChainInv
    <3>5. queued = {n}
      <4> HIDE DEF due, before, room
      <4> QED BY <3>1, <3>2, <3>3, <3>4
    <3>6. new = <<n>>
      <4> HIDE DEF due, before, room
      <4>1. Cardinality(before(n)) = 1
        BY <3>1, <3>2, <3>3
      <4> HIDE DEF queued
      <4>2. \A m \in 1..1 : (CHOOSE k \in queued : Cardinality(before(k)) = m) = n
        BY <3>5, <4>1
      <4>3. new = [m \in 1..1 |-> n]
        BY <3>3, <3>5, <4>2
      <4> HIDE DEF new
      <4> QED BY <4>3
    <3>7. ready' = <<n>> /\ scheduled' = (n + 1)..Length /\ rejected' = {}
      <4> HIDE DEF due, queued, new
      <4> QED BY <1>2, <1>3, <2>1, <3>1, <3>5, <3>6
    <3>8. ChainAt(n + 1)'
      BY <1>1, <1>2, <2>1, <2>5, <3>7 DEF ChainAt
    <3> QED BY <3>8
  <2> QED BY <2>1, <2>4, <2>5
<1> HIDE DEF due, before, room, queued, new
<1> QED BY <1>1, <1>4 DEF ChainInv

LEMMA ChainStep ==
    ASSUME ChainInv, [SimNext]_simVars PROVE ChainInv'
<1>1. CASE Judge \/ RunProcessCase \/ UNCHANGED simVars
  <2>1. UNCHANGED <<scenario, loop, tick, scheduled, ready, in_flight, executed, rejected, errors, observations>>
    BY <1>1 DEF Judge, RunProcessCase, simVars
  <2>2. OverLimit' = OverLimit /\ Length' = Length
    BY <2>1 DEF OverLimit, Length
  <2>3. ASSUME NEW n, ChainAt(n) PROVE ChainAt(n)'
    BY <2>1, <2>2, <2>3 DEF ChainAt
  <2> QED BY <2>1, <2>3 DEF ChainInv
<1>2. ~ServeOne
  BY ChainScenario DEF ServeOne, ChainInv
<1> QED BY <1>1, <1>2, ChainChecks, ChainCompletes, ChainArrives, ChainServes, ChainAdvances DEF SimNext

LEMMA ChainMeans ==
    ASSUME ChainInv, errors = 0 PROVE QueueAccounted
<1>1. PICK n : ChainAt(n)
  BY DEF ChainInv
<1>2. /\ Length \in Nat /\ n \in 1..(Length + 1) /\ scenario.due = [k \in 1..Length |-> k] /\ scenario.capacity = 64
      /\ scheduled = n..Length /\ rejected = {}
  BY <1>1, ChainScenario DEF ChainAt, ChainInv, Length
<1> DEFINE flying == IF in_flight = NothingInFlight THEN <<>> ELSE <<in_flight.stimulus>>
           line == executed \o flying \o ready
<1>3. flying = <<>>
  BY DEF ChainInv
<1>4. executed \o ready = Upto(n - 1) /\ Len(ready) <= 1 /\ flying \o ready = ready
  <2>1. CASE ready = <<>>
    <3>1. executed = Upto(n - 1) /\ Upto(n - 1) \in Seq(Nat)
      BY <1>1, <1>2, <2>1 DEF ChainAt, Upto
    <3> QED BY <1>3, <2>1, <3>1, ConcatEmptySeq
  <2>2. CASE ready # <<>>
    <3> DEFINE m == n - 2
    <3>1. n > 1 /\ ready = <<n - 1>> /\ executed = Upto(m) /\ m \in Nat /\ n - 1 = m + 1
      BY <1>1, <1>2, <2>2 DEF ChainAt
    <3>2. /\ Upto(m) \in Seq(Nat) /\ Len(Upto(m)) = m /\ Upto(m + 1) \in Seq(Nat) /\ Len(Upto(m + 1)) = m + 1
          /\ <<m + 1>> \in Seq(Nat) /\ Len(<<m + 1>>) = 1
      BY <3>1 DEF Upto
    <3>3. Upto(m) \o <<m + 1>> = Upto(m + 1)
      <4> HIDE DEF m
      <4>1. Upto(m) \o <<m + 1>> \in Seq(Nat) /\ Len(Upto(m) \o <<m + 1>>) = m + 1
        BY <3>1, <3>2, ConcatProperties
      <4>2. \A k \in 1..(m + 1) : (Upto(m) \o <<m + 1>>)[k] = Upto(m + 1)[k]
        BY <3>1, <3>2, ConcatProperties DEF Upto
      <4> QED BY <3>1, <3>2, <4>1, <4>2, SeqEqual
    <3>4. <<>> \o ready = ready
      BY <3>1, <3>2, ConcatEmptySeq
    <3>5. Len(ready) <= 1
      BY <3>1
    <3> HIDE DEF m, flying, line
    <3>6. executed \o ready = Upto(n - 1)
      BY ONLY <3>1, <3>3
    <3>7. flying \o ready = ready
      BY ONLY <1>3, <3>4
    <3> QED BY <3>5, <3>6, <3>7
  <2> QED BY <2>1, <2>2
<1>5. line = Upto(n - 1)
  <2>1. executed \in Seq(Nat)
    BY <1>1, <1>2 DEF ChainAt, Upto
  <2>2. executed \o <<>> = executed
    BY <2>1, ConcatEmptySeq
  <2> QED BY <1>3, <1>4, <2>2
<1>6. Len(flying \o ready) <= scenario.capacity
  <2>1. Len(ready) \in Nat /\ Len(ready) <= 1
    BY <1>1, <1>2 DEF ChainAt
  <2> QED BY <1>2, <1>4, <2>1
<1> HIDE DEF line, flying
<1>7. DOMAIN line = 1..(n - 1) /\ Len(line) = n - 1 /\ \A k \in 1..(n - 1) : line[k] = k
  BY <1>2, <1>5 DEF Upto
<1>8. \A k, l \in DOMAIN line : k < l => line[k] # line[l] /\ scenario.due[line[k]] <= scenario.due[line[l]]
  BY <1>2, <1>7
<1>9. {line[k] : k \in DOMAIN line} \cap (rejected \cup scheduled) = {} /\ rejected \cap scheduled = {}
  BY <1>2, <1>7
<1>10. Len(line) + Cardinality(rejected \cup scheduled) = Length
  <2>1. rejected \cup scheduled = n..Length
    BY <1>2
  <2>2. Cardinality(n..Length) = IF n > Length THEN 0 ELSE Length - n + 1
    BY <1>2, FS_Interval
  <2> QED BY <1>2, <1>7, <2>1, <2>2
<1> QED BY <1>6, <1>8, <1>9, <1>10 DEF QueueAccounted, line, flying, Length

Whole == Len(executed) + Cardinality(rejected) = Length

\* A whole stream, by the verdict: what passed was all executed or rejected.
PassedInv ==
    /\ status # "none" => loop = "judge"
    /\ status = "Passed" => Whole

LEMMA ChainIsWhole ==
    ASSUME ChainInv, errors = 0, StreamEnded PROVE Whole
<1>1. PICK n : ChainAt(n)
  BY DEF ChainInv
<1>2. Length \in Nat
  BY ChainScenario DEF ChainInv, Length
<1>3. n = Length + 1 /\ executed = Upto(n - 1) /\ rejected = {}
  BY <1>1, <1>2 DEF ChainAt, StreamEnded
<1>4. Len(executed) = Length
  BY <1>2, <1>3 DEF Upto
<1>5. Cardinality(rejected) = 0
  BY <1>3, FS_EmptySet
<1> QED BY <1>2, <1>4, <1>5 DEF Whole

LEMMA PassedStep ==
    ASSUME ChainInv \/ StreamInv, PassedInv, [SimNext]_simVars PROVE PassedInv'
<1>1. CASE Judge
  <2>1. UNCHANGED <<scenario, loop, executed, rejected>> /\ loop = "judge"
    BY <1>1 DEF Judge
  <2>2. ASSUME status' = "Passed" PROVE Whole
    <3>1. StreamEnded /\ errors = 0
      BY <1>1, <2>2 DEF Judge, StreamCheck
    <3>2. CASE ChainInv
      BY <3>1, <3>2, ChainIsWhole
    <3>3. CASE StreamInv
      <4>1. Served = executed
        <5>1. executed \in Seq(Offers)
          BY <3>3 DEF StreamInv, QueueTyped
        <5>2. executed \o <<>> = executed
          BY <5>1, ConcatEmptySeq
        <5> QED BY <3>1, <5>2 DEF StreamEnded, Served, Flying
      <4>2. rejected \cup scheduled = rejected
        BY <3>1 DEF StreamEnded
      <4> QED BY <3>3, <4>1, <4>2, QueueScenario DEF Whole, Length, StreamInv, QueueServed, QueueTyped
    <3> QED BY <3>2, <3>3
  <2>3. Whole' = Whole
    BY <2>1 DEF Whole, Length
  <2> QED BY <2>1, <2>2, <2>3 DEF PassedInv
<1>2. CASE RunProcessCase
  <2>1. UNCHANGED <<scenario, loop, executed, rejected>> /\ loop = "judge" /\ scenario.case # "QUEUE01"
    BY <1>2 DEF RunProcessCase, PassedInv
  <2>2. ASSUME status' = "Passed" PROVE Whole
    <3>1. Len(executed) = Length /\ errors = 0
      BY <1>2, <2>1, <2>2 DEF RunProcessCase, NoFindings, Short, StreamCheck, Length
    <3>2. ChainInv
      BY <2>1, QueueScenario DEF StreamInv, QueueTyped
    <3>3. Length \in Nat /\ rejected = {}
      BY <3>1, <3>2, ChainScenario DEF ChainInv, ChainAt, Length
    <3> QED BY <3>1, <3>3, FS_EmptySet DEF Whole
  <2>3. Whole' = Whole
    BY <2>1 DEF Whole, Length
  <2> QED BY <2>1, <2>2, <2>3 DEF PassedInv
<1>3. CASE ~Judge /\ ~RunProcessCase
  <2>1. UNCHANGED status
    BY <1>3 DEF SimNext, CheckLimits, CompleteInFlight, Arrive, ServeAll, ServeOne, AdvanceTick, simVars
  <2>2. CASE UNCHANGED simVars
    BY <2>2 DEF simVars, PassedInv, Whole, Length
  <2>3. CASE ~UNCHANGED simVars
    <3>1. loop # "judge"
      BY <1>3, <2>3 DEF SimNext, CheckLimits, CompleteInFlight, Arrive, ServeAll, ServeOne, AdvanceTick
    <3> QED BY <2>1, <3>1 DEF PassedInv
  <2> QED BY <2>2, <2>3
<1> QED BY <1>1, <1>2, <1>3

\* The invariant of the simulator: that of its queue or that of a chain.
SimInv == /\ IF scenario.case = "QUEUE01" THEN StreamInv ELSE ChainInv
          /\ PassedInv

LEMMA SimInvAlways == SimSpec => []SimInv
<1>1. SimInit => SimInv
  <2> SUFFICES ASSUME SimInit PROVE SimInv
    OBVIOUS
  <2>1. status = "none"
    BY DEF SimInit, SimInitOf
  <2> QED BY <2>1, QueueInit, ChainInit DEF SimInv, PassedInv
<1>2. SimInv /\ [SimNext]_simVars => SimInv'
  <2> SUFFICES ASSUME SimInv, [SimNext]_simVars PROVE SimInv'
    OBVIOUS
  <2>1. scenario' = scenario
    BY DEF SimNext, CheckLimits, CompleteInFlight, Arrive, ServeAll, ServeOne, AdvanceTick, Judge, RunProcessCase, simVars
  <2>2. PassedInv'
    BY PassedStep DEF SimInv
  <2> QED BY <2>1, <2>2, QueueStep, ChainStep DEF SimInv
<1> QED BY <1>1, <1>2, PTL DEF SimSpec

\* The scheduler over its bounded queue, for any number of stimuli, any arrivals and
\* any capacity, and over every chain: the queue never holds more than it may, what is
\* served is served in the order of the ticks and once, and at every step a stimulus is
\* scheduled, queued, in flight, executed or rejected, and only one of these.  Of a
\* chain this is said up to its first error, after which the run cannot pass.
THEOREM QueueIsAccounted == SimSpec => [](scenario.case = "QUEUE01" \/ errors = 0 => QueueAccounted)
<1>1. SimInv => (scenario.case = "QUEUE01" \/ errors = 0 => QueueAccounted)
  BY QueueMeans, ChainMeans DEF SimInv
<1> QED BY <1>1, SimInvAlways, PTL

\* A run that passes, whatever its scenario, fault and limit of events, has executed or
\* rejected every stimulus; one that its limit cut short, or that lost a stimulus to an
\* error, is never passed.
THEOREM PassedIsWhole ==
    SimSpec => [](status = "Passed" => Len(executed) + Cardinality(rejected) = Len(scenario.stimuli))
<1>1. SimInv => (status = "Passed" => Len(executed) + Cardinality(rejected) = Len(scenario.stimuli))
  BY DEF SimInv, PassedInv, Whole, Length
<1> QED BY <1>1, SimInvAlways, PTL

-----------------------------------------------------------------------------
(* The conformance scripts: what a repeated call does to the record. *)

RetryableCalls == {"retrieve", "ack", "mint", "revoke", "rearm"}
CallNames == RetryableCalls \cup {"retrieve_changed", "ack_reused", "materialize", "admit", "terminal", "restore",
                                  "sections", "revoked"}
RowNonces == {"r1", "r2", "a1"}

\* A call of the interface: a nonce, cursor or credential it names is one there is.
CallOf(c) ==
    /\ c.call \in CallNames
    /\ c.call \in {"retrieve", "retrieve_changed", "ack", "ack_reused", "materialize"} => c.nonce \in RowNonces
    /\ c.call \in {"ack", "ack_reused", "mint"} => c.arg \in 1..2

RowsTyped(s) ==
    /\ s \in Rows!Stores
    /\ s.grants[1] \in [cred : 1..2, lease : {1}, operations : {"all"}, revoked : BOOLEAN]

\* What the record shows of a call that was answered as recorded.
Shown(s, c) ==
    /\ c.call = "retrieve" => s.retrieves[c.nonce] = [attempt |-> 1, cred |-> c.arg, operations |-> "all"]
    /\ c.call = "ack" => s.acks[c.nonce] # Rows!NoAck
    /\ c.call = "mint" => s.grants[1].cred = c.arg \/ <<1, c.arg>> \in s.retired
    /\ c.call = "revoke" => s.grants[1].revoked
    /\ c.call = "rearm" => 1 \in s.rearmed

\* What no call takes from a record.
Kept(s, t) ==
    /\ \A n \in RowNonces : s.retrieves[n] # Rows!NoRetrieve => t.retrieves[n] = s.retrieves[n]
    /\ \A n \in RowNonces : s.acks[n] # Rows!NoAck => t.acks[n] = s.acks[n]
    /\ s.retired \subseteq t.retired /\ s.rearmed \subseteq t.rearmed
    /\ t.grants[1].cred = s.grants[1].cred \/ <<1, s.grants[1].cred>> \in t.retired
    /\ s.grants[1].revoked => t.grants[1] = s.grants[1]

LEMMA RetrieveAnswer ==
    ASSUME NEW s, RowsTyped(s), NEW c, CallOf(c), c.call \in {"retrieve", "retrieve_changed"}
    PROVE  /\ RowsTyped(Retrieves(s, c).rows) /\ Kept(s, Retrieves(s, c).rows)
           /\ Retrieves(s, c).answer = "Recorded" /\ c.call = "retrieve" => Shown(Retrieves(s, c).rows, c)
           /\ Shown(s, c) => Retrieves(s, c).rows = s \/ c.call # "retrieve"
<1> DEFINE t == Rows!Retrieved(s, c.nonce, 1, c.arg)
<1>0. c.nonce \in RowNonces
  BY DEF CallOf
<1>1. \/ Retrieves(s, c).rows = s /\ Retrieves(s, c).answer # "Recorded"
      \/ /\ Rows!RetrieveFresh(s, c.nonce, 1, c.arg, 0)
         /\ Retrieves(s, c).rows = t
  BY DEF Retrieves, Gives
<1>2. CASE Retrieves(s, c).rows = s /\ Retrieves(s, c).answer # "Recorded"
  BY <1>2 DEF Kept
<1>3. CASE Rows!RetrieveFresh(s, c.nonce, 1, c.arg, 0) /\ Retrieves(s, c).rows = t
  <2>1. s.retrieves[c.nonce] = Rows!NoRetrieve /\ s.grants[1].cred = c.arg
    BY <1>3 DEF Rows!RetrieveFresh, Rows!RetrieveOk, Rows!Authentic
  <2>2. s.grants[1].operations = "all" /\ c.arg \in 1..2
    BY <2>1 DEF RowsTyped
  <2>3. t = [s EXCEPT !.retrieves[c.nonce] = [attempt |-> 1, cred |-> c.arg, operations |-> "all"]]
    BY <2>2 DEF Rows!Retrieved, Rows!Origin
  <2>4. RowsTyped(t)
    BY <1>0, <2>2, <2>3 DEF RowsTyped, Rows!Stores, Rows!Retrieves, Rows!Credentials, Rows!Operations, RowNonces
  <2>5. /\ t.retrieves = [s.retrieves EXCEPT ![c.nonce] = [attempt |-> 1, cred |-> c.arg, operations |-> "all"]]
        /\ t.acks = s.acks /\ t.retired = s.retired /\ t.rearmed = s.rearmed /\ t.grants = s.grants
        /\ DOMAIN s.retrieves = RowNonces
    BY <2>3 DEF RowsTyped, Rows!Stores, RowNonces
  <2>6. Kept(s, t)
    BY <2>1, <2>5 DEF Kept
  <2>7. c.call = "retrieve" => Shown(t, c)
    BY <1>0, <2>5 DEF Shown
  <2>8. Shown(s, c) => c.call # "retrieve"
    BY <2>1 DEF Shown, Rows!NoRetrieve
  <2> QED BY <1>3, <2>4, <2>6, <2>7, <2>8
<1> QED BY <1>1, <1>2, <1>3

LEMMA AckAnswer ==
    ASSUME NEW s, RowsTyped(s), NEW c, CallOf(c), c.call \in {"ack", "ack_reused"}
    PROVE  /\ RowsTyped(Acks(s, c).rows) /\ Kept(s, Acks(s, c).rows)
           /\ Acks(s, c).answer = "Recorded" /\ c.call = "ack" => Shown(Acks(s, c).rows, c)
           /\ Shown(s, c) => Acks(s, c).rows = s \/ c.call # "ack"
<1> DEFINE t == Rows!Acknowledged(s, c.nonce, 1, 1, "r1", c.arg)
<1>0. c.nonce \in RowNonces /\ c.arg \in 1..2
  BY DEF CallOf
<1>1. \/ Acks(s, c).rows = s /\ Acks(s, c).answer # "Recorded"
      \/ /\ Rows!AcknowledgeFresh(s, c.nonce, 1, 1, "r1", c.arg, 0)
         /\ Acks(s, c).rows = t
  BY DEF Acks, Gives
<1>2. CASE Acks(s, c).rows = s /\ Acks(s, c).answer # "Recorded"
  BY <1>2 DEF Kept
<1>3. CASE Rows!AcknowledgeFresh(s, c.nonce, 1, 1, "r1", c.arg, 0) /\ Acks(s, c).rows = t
  <2> DEFINE ack == [attempt |-> 1, cred |-> 1, retrieval |-> "r1", cursor |-> c.arg]
             furthest == Rows!Furthest(s.handled[1], c.arg)
  <2>1. s.acks[c.nonce] = Rows!NoAck
    BY <1>3 DEF Rows!AcknowledgeFresh
  <2>2. t = [s EXCEPT !.acks = [s.acks EXCEPT ![c.nonce] = ack], !.handled = [s.handled EXCEPT ![1] = furthest]]
    BY DEF Rows!Acknowledged, RowsTyped, Rows!Stores
  <2>3. furthest \in 0..2
    BY <1>0 DEF RowsTyped, Rows!Stores, Rows!Furthest
  <2>4. ack \in Rows!Acks /\ ack # Rows!NoAck
    BY <1>0 DEF Rows!Acks, Rows!Credentials, Rows!Cursors, Rows!NoAck
  <2>5. RowsTyped(t)
    <3> HIDE DEF ack, furthest, t
    <3>1. [s.acks EXCEPT ![c.nonce] = ack] \in [RowNonces -> Rows!Acks \cup {Rows!NoAck}]
      BY <1>0, <2>4 DEF RowsTyped, Rows!Stores, RowNonces
    <3>2. [s.handled EXCEPT ![1] = furthest] \in [1..2 -> 0..2]
      BY <2>3 DEF RowsTyped, Rows!Stores
    <3> QED BY <2>2, <3>1, <3>2 DEF RowsTyped, Rows!Stores, RowNonces
  <2>6. /\ t.acks = [s.acks EXCEPT ![c.nonce] = ack] /\ DOMAIN s.acks = RowNonces
        /\ t.retrieves = s.retrieves /\ t.retired = s.retired /\ t.rearmed = s.rearmed /\ t.grants = s.grants
    BY <2>2 DEF RowsTyped, Rows!Stores, RowNonces
  <2> HIDE DEF ack
  <2>7. Kept(s, t)
    BY <2>1, <2>6 DEF Kept
  <2>8. c.call = "ack" => Shown(t, c)
    BY <1>0, <2>4, <2>6 DEF Shown
  <2>9. Shown(s, c) => c.call # "ack"
    BY <2>1 DEF Shown
  <2> QED BY <1>3, <2>5, <2>7, <2>8, <2>9
<1> QED BY <1>1, <1>2, <1>3

LEMMA MintAnswer ==
    ASSUME NEW s, RowsTyped(s), NEW c, CallOf(c), c.call = "mint"
    PROVE  /\ RowsTyped(Mints(s, c).rows) /\ Kept(s, Mints(s, c).rows)
           /\ Mints(s, c).answer = "Recorded" => Shown(Mints(s, c).rows, c)
           /\ Shown(s, c) => Mints(s, c).rows = s
<1> DEFINE grant == GrantOf(c.arg)
           t == Rows!Minted(s, 1, grant)
<1>0. /\ c.arg \in 1..2 /\ grant = [cred |-> c.arg, lease |-> 1, operations |-> "all", revoked |-> FALSE]
      /\ grant \in [cred : 1..2, lease : {1}, operations : {"all"}, revoked : BOOLEAN] /\ grant.cred = c.arg
      /\ grant.revoked = FALSE
  BY DEF CallOf, GrantOf
<1> HIDE DEF grant
<1>1. \/ Mints(s, c).rows = s /\ Mints(s, c).answer # "Recorded"
      \/ /\ Rows!MintOk(s, 1, grant, 0) /\ Mints(s, c).rows = t
         /\ Mints(s, c).answer = "Recorded" => s.grants[1] # grant
  BY DEF Mints, Gives, grant
<1>2. CASE Mints(s, c).rows = s /\ Mints(s, c).answer # "Recorded"
  BY <1>2 DEF Kept
<1>3. CASE Rows!MintOk(s, 1, grant, 0) /\ Mints(s, c).rows = t
  <2> DEFINE replaced == Rows!Replaced(s, 1, grant)
  <2>1. /\ <<1, c.arg>> \notin s.retired
        /\ s.grants[1] = grant \/ (~s.grants[1].revoked /\ s.grants[1].cred # c.arg)
    <3>1. s.grants[1].cred # 0
      BY DEF RowsTyped
    <3>2. s.grants[1] # Rows!NoGrant
      BY <3>1 DEF Rows!NoGrant
    <3> QED BY <1>0, <1>3, <3>2 DEF Rows!MintOk, Rows!Mintable
  <2>2. replaced = IF s.grants[1] = grant THEN {} ELSE {<<1, s.grants[1].cred>>}
    <3>1. s.grants[1].cred # 0
      BY DEF RowsTyped
    <3>2. s.grants[1] # Rows!NoGrant
      BY <3>1 DEF Rows!NoGrant
    <3> QED BY <3>2 DEF Rows!Replaced
  <2>3. t = [s EXCEPT !.grants = [s.grants EXCEPT ![1] = grant], !.retired = s.retired \cup replaced]
    BY DEF Rows!Minted, RowsTyped, Rows!Stores
  <2>4. /\ t.grants = [s.grants EXCEPT ![1] = grant] /\ t.retired = s.retired \cup replaced /\ t.grants[1] = grant
        /\ t.retrieves = s.retrieves /\ t.acks = s.acks /\ t.rearmed = s.rearmed
    <3> HIDE DEF t, replaced
    <3> QED BY <2>3 DEF RowsTyped, Rows!Stores
  <2>5. RowsTyped(t)
    <3>1. grant \in Rows!Grants
      BY <1>0 DEF Rows!Grants, Rows!Credentials, Rows!Operations
    <3>2. replaced \subseteq (1..2) \X Rows!Credentials
      BY <2>2 DEF RowsTyped, Rows!Credentials
    <3>3. [s.grants EXCEPT ![1] = grant] \in [1..2 -> Rows!Grants \cup {Rows!NoGrant}]
      BY <3>1 DEF RowsTyped, Rows!Stores
    <3>4. s.retired \cup replaced \subseteq (1..2) \X Rows!Credentials
      BY <3>2 DEF RowsTyped, Rows!Stores
    <3> HIDE DEF t, replaced
    <3> QED BY <1>0, <2>3, <2>4, <3>3, <3>4 DEF RowsTyped, Rows!Stores
  <2>6. Kept(s, t)
    <3> HIDE DEF t, replaced
    <3>1. s.grants[1].revoked => t.grants[1] = s.grants[1]
      BY <2>1, <2>4
    <3>2. t.grants[1].cred = s.grants[1].cred \/ <<1, s.grants[1].cred>> \in t.retired
      BY <2>2, <2>4
    <3> QED BY <2>4, <3>1, <3>2 DEF Kept
  <2>7. Shown(t, c)
    BY <1>0, <2>4 DEF Shown
  <2>8. Shown(s, c) => t = s
    <3>1. Shown(s, c) => s.grants[1] = grant
      BY <1>0, <2>1 DEF Shown
    <3>2. s.grants[1] = grant => t.grants = s.grants /\ t.retired = s.retired
      BY <2>2, <2>4 DEF RowsTyped, Rows!Stores
    <3> HIDE DEF t, replaced
    <3>3. s.grants[1] = grant => t = s
      BY <2>3, <2>4, <3>2 DEF RowsTyped, Rows!Stores
    <3> QED BY <3>1, <3>3
  <2> QED BY <1>3, <2>5, <2>6, <2>7, <2>8
<1> QED BY <1>1, <1>2, <1>3

LEMMA RevokeAnswer ==
    ASSUME NEW s, RowsTyped(s), NEW c, c.call = "revoke"
    PROVE  /\ RowsTyped(Revokes(s, c).rows) /\ Kept(s, Revokes(s, c).rows)
           /\ Revokes(s, c).answer = "Recorded" => Shown(Revokes(s, c).rows, c)
           /\ Shown(s, c) => Revokes(s, c).rows = s
<1> DEFINE t == Rows!GrantRevoked(s, 1)
           grant == [s.grants[1] EXCEPT !.revoked = TRUE]
<1>1. Revokes(s, c).rows = t \/ (Revokes(s, c).rows = s /\ Revokes(s, c).answer # "Recorded")
  BY DEF Revokes, Gives
<1>2. grant \in [cred : 1..2, lease : {1}, operations : {"all"}, revoked : BOOLEAN] /\ grant.revoked = TRUE
      /\ grant.cred = s.grants[1].cred /\ (s.grants[1].revoked => grant = s.grants[1])
  BY DEF RowsTyped
<1>3. t = [s EXCEPT !.grants = [s.grants EXCEPT ![1] = grant]]
  BY DEF Rows!GrantRevoked, RowsTyped, Rows!Stores
<1> HIDE DEF grant, t
<1>4. /\ t.grants = [s.grants EXCEPT ![1] = grant] /\ t.grants[1] = grant
      /\ t.retrieves = s.retrieves /\ t.acks = s.acks /\ t.rearmed = s.rearmed /\ t.retired = s.retired
  BY <1>3 DEF RowsTyped, Rows!Stores
<1>5. RowsTyped(t)
  <2>1. grant \in Rows!Grants
    BY <1>2 DEF Rows!Grants, Rows!Credentials, Rows!Operations
  <2>2. [s.grants EXCEPT ![1] = grant] \in [1..2 -> Rows!Grants \cup {Rows!NoGrant}]
    BY <2>1 DEF RowsTyped, Rows!Stores
  <2> QED BY <1>2, <1>3, <1>4, <2>2 DEF RowsTyped, Rows!Stores
<1>6. Kept(s, t)
  BY <1>2, <1>4 DEF Kept
<1>7. Shown(t, c)
  BY <1>2, <1>4 DEF Shown
<1>8. Shown(s, c) => t = s
  <2>1. s.grants[1].revoked => t.grants = s.grants
    BY <1>2, <1>4 DEF RowsTyped, Rows!Stores
  <2>2. s.grants[1].revoked => t = s
    BY <1>3, <1>4, <2>1 DEF RowsTyped, Rows!Stores
  <2> QED BY <2>2 DEF Shown
<1>9. Kept(s, s)
  BY DEF Kept
<1> QED BY <1>1, <1>5, <1>6, <1>7, <1>8, <1>9

LEMMA RearmAnswer ==
    ASSUME NEW s, RowsTyped(s), NEW c, c.call = "rearm"
    PROVE  /\ RowsTyped(Rearms(s).rows) /\ Kept(s, Rearms(s).rows)
           /\ Rearms(s).answer \in {"Recorded", "Rearmed"} => Shown(Rearms(s).rows, c)
           /\ Shown(s, c) => Rearms(s).rows = s
<1> DEFINE t == Rows!Rearmed(s, 1)
<1>1. \/ Rearms(s).rows = s /\ Rearms(s).answer \notin {"Recorded", "Rearmed"}
      \/ Rearms(s).rows = t /\ 1 \notin s.rearmed
  BY DEF Rearms, Gives, Rows!RearmResult
<1>2. t = [s EXCEPT !.rearmed = s.rearmed \cup {1}]
  BY DEF Rows!Rearmed
<1>3. t.rearmed = s.rearmed \cup {1} /\ t.retrieves = s.retrieves /\ t.acks = s.acks /\ t.grants = s.grants
      /\ t.retired = s.retired
  BY <1>2 DEF RowsTyped, Rows!Stores
<1>4. RowsTyped(t)
  BY <1>2, <1>3 DEF RowsTyped, Rows!Stores
<1> HIDE DEF t
<1>5. Kept(s, t) /\ Kept(s, s)
  BY <1>3 DEF Kept
<1>6. Shown(t, c)
  BY <1>3 DEF Shown
<1>7. Shown(s, c) => 1 \in s.rearmed
  BY DEF Shown
<1> QED BY <1>1, <1>4, <1>5, <1>6, <1>7

\* No call takes anything from the record, and one that was answered as recorded
\* changes nothing when it is repeated.
LEMMA AnswersKeep ==
    ASSUME NEW s, RowsTyped(s), NEW c, CallOf(c)
    PROVE  /\ RowsTyped(Answered(s, c).rows) /\ Kept(s, Answered(s, c).rows)
           /\ c.call \in RetryableCalls /\ Answered(s, c).answer \in {"Recorded", "Rearmed"} =>
                  Shown(Answered(s, c).rows, c)
           /\ c.call \in RetryableCalls /\ Shown(s, c) => Answered(s, c).rows = s
<1>1. CASE c.call \in {"retrieve", "retrieve_changed"}
  <2>1. Answered(s, c) = Retrieves(s, c)
    BY <1>1 DEF Answered
  <2>2. Retrieves(s, c).answer # "Rearmed"
    BY DEF Retrieves, Gives
  <2> QED BY <1>1, <2>1, <2>2, RetrieveAnswer DEF RetryableCalls
<1>2. CASE c.call \in {"ack", "ack_reused"}
  <2>1. Answered(s, c) = Acks(s, c)
    BY <1>2 DEF Answered
  <2>2. Acks(s, c).answer # "Rearmed"
    BY DEF Acks, Gives
  <2> QED BY <1>2, <2>1, <2>2, AckAnswer DEF RetryableCalls
<1>3. CASE c.call = "mint"
  <2>1. Answered(s, c) = Mints(s, c)
    BY <1>3 DEF Answered
  <2>2. Mints(s, c).answer # "Rearmed"
    BY DEF Mints, Gives
  <2> QED BY <1>3, <2>1, <2>2, MintAnswer
<1>4. CASE c.call = "revoke"
  <2>1. Answered(s, c) = Revokes(s, c)
    BY <1>4 DEF Answered
  <2>2. Revokes(s, c).answer # "Rearmed"
    BY DEF Revokes, Gives
  <2> QED BY <1>4, <2>1, <2>2, RevokeAnswer
<1>5. CASE c.call = "rearm"
  <2>1. Answered(s, c) = Rearms(s)
    BY <1>5 DEF Answered
  <2> QED BY <1>5, <2>1, RearmAnswer
<1>6. CASE c.call = "terminal"
  <2> DEFINE t == Rows!FactRecorded(s, 1, "Terminal")
  <2>1. Answered(s, c).rows = t
    BY <1>6 DEF Answered, Gives
  <2>2. t = [s EXCEPT !.facts = [s.facts EXCEPT ![1] = s.facts[1] \cup {"Terminal"}]]
    BY DEF Rows!FactRecorded, RowsTyped, Rows!Stores
  <2>3. [s.facts EXCEPT ![1] = s.facts[1] \cup {"Terminal"}] \in [1..2 -> SUBSET Rows!Facts]
    BY DEF RowsTyped, Rows!Stores, Rows!Facts
  <2> HIDE DEF t
  <2>4. RowsTyped(t)
    BY <2>2, <2>3 DEF RowsTyped, Rows!Stores
  <2>5. Kept(s, t)
    BY <2>2 DEF Kept, RowsTyped, Rows!Stores
  <2> QED BY <1>6, <2>1, <2>4, <2>5 DEF RetryableCalls
<1>7. CASE c.call \in {"materialize", "admit", "restore", "sections", "revoked"}
  <2>1. Answered(s, c).rows = s
    BY <1>7 DEF Answered, Gives
  <2> QED BY <1>7, <2>1 DEF Kept, RetryableCalls
<1> QED BY <1>1, <1>2, <1>3, <1>4, <1>5, <1>6, <1>7 DEF CallOf, CallNames, RetryableCalls

LEMMA ShownStays ==
    ASSUME NEW s, NEW t, RowsTyped(s), RowsTyped(t), Kept(s, t), NEW c, CallOf(c), c.call \in RetryableCalls,
           Shown(s, c)
    PROVE  Shown(t, c)
<1>1. c.call = "retrieve" => t.retrieves[c.nonce] = [attempt |-> 1, cred |-> c.arg, operations |-> "all"]
  <2>1. c.call = "retrieve" => c.nonce \in RowNonces /\ s.retrieves[c.nonce] # Rows!NoRetrieve
    BY DEF CallOf, Shown, Rows!NoRetrieve
  <2> QED BY <2>1 DEF Kept, Shown
<1>2. c.call = "ack" => t.acks[c.nonce] # Rows!NoAck
  BY DEF CallOf, Kept, Shown
<1>3. c.call = "mint" => t.grants[1].cred = c.arg \/ <<1, c.arg>> \in t.retired
  BY DEF Kept, Shown
<1>4. /\ c.call = "revoke" => t.grants[1].revoked
      /\ c.call = "rearm" => 1 \in t.rearmed
  BY DEF Kept, Shown
<1> QED BY <1>1, <1>2, <1>3, <1>4 DEF Shown

\* Any script of calls of the interface, not only those of the catalogue.
ScriptOf(case) == IsScript(case) /\ \A k \in 1..Len(case) : CallOf(case[k])

ScriptInv ==
    /\ trial = [case |-> trial.case, called |-> trial.called, rows |-> trial.rows, met |-> trial.met]
    /\ ScriptOf(trial.case) /\ trial.called \in 0..Len(trial.case) /\ trial.met \in BOOLEAN
    /\ RowsTyped(trial.rows)
    /\ trial.met => \A k \in 1..trial.called :
           trial.case[k].call \in RetryableCalls /\ trial.case[k].answer \in {"Recorded", "Rearmed"} =>
               Shown(trial.rows, trial.case[k])

LEMMA PreparedRows == RowsTyped(Prepared)
<1> DEFINE none == [g \in 1..2 |-> 0]
           first == [none EXCEPT ![1] = 2]
           ungranted == [g \in 1..2 |-> Rows!NoGrant]
           grants == [ungranted EXCEPT ![1] = GrantOf(1)]
           armed == [Rows!EmptyStore EXCEPT !.arm = 1]
           claimed == [armed EXCEPT !.claims = first]
<1>1. Rows!EmptyStore \in Rows!Stores /\ Rows!EmptyStore.claims = none /\ Rows!EmptyStore.grants = ungranted
  BY DEF Rows!EmptyStore, Rows!Stores
<1>2. GrantOf(1) \in [cred : 1..2, lease : {1}, operations : {"all"}, revoked : BOOLEAN] /\ GrantOf(1) \in Rows!Grants
  BY DEF GrantOf, Rows!Grants, Rows!Credentials, Rows!Operations
<1>3. first \in [1..2 -> 0..2] /\ ungranted[1] = Rows!NoGrant /\ grants[1] = GrantOf(1)
      /\ grants \in [1..2 -> Rows!Grants \cup {Rows!NoGrant}]
  BY <1>2
<1> HIDE DEF none, first, ungranted, grants
<1>4. /\ armed = Rows!Registered(Rows!EmptyStore, 1) /\ armed \in Rows!Stores
      /\ armed.claims = none /\ armed.grants = ungranted
  BY <1>1 DEF Rows!Registered, Rows!Stores
<1> HIDE DEF armed
<1>5. claimed = Rows!Admitted(armed, 1, 2) /\ claimed \in Rows!Stores /\ claimed.grants = ungranted
  BY <1>3, <1>4 DEF Rows!Admitted, Rows!Stores, first
<1> HIDE DEF claimed
<1>6. Rows!Minted(claimed, 1, GrantOf(1)) = [claimed EXCEPT !.grants = grants]
  <2>1. Rows!Replaced(claimed, 1, GrantOf(1)) = {}
    BY <1>3, <1>5 DEF Rows!Replaced
  <2>2. Rows!Minted(claimed, 1, GrantOf(1)) =
           [claimed EXCEPT !.grants = [claimed.grants EXCEPT ![1] = GrantOf(1)], !.retired = claimed.retired \cup {}]
    BY <2>1 DEF Rows!Minted
  <2>3. claimed.retired \cup {} = claimed.retired
    OBVIOUS
  <2> QED BY <1>5, <2>2, <2>3 DEF grants, Rows!Stores
<1>7. Prepared = [claimed EXCEPT !.grants = grants]
  BY <1>4, <1>5, <1>6 DEF Prepared
<1> QED BY <1>2, <1>3, <1>5, <1>7 DEF RowsTyped, Rows!Stores

LEMMA ScriptStep ==
    ASSUME ScriptInv, [ConformanceNext]_trial PROVE ScriptInv'
<1>1. CASE UNCHANGED trial
  BY <1>1 DEF ScriptInv
<1>2. CASE RunCall
  <2> DEFINE n == trial.called + 1
             c == trial.case[n]
             result == Answered(trial.rows, c)
  <2>0. Len(trial.case) \in Nat
    BY LenProperties DEF ScriptInv, ScriptOf, IsScript
  <2>1. n \in 1..Len(trial.case) /\ CallOf(c) /\ trial.called \in Nat
    BY <1>2, <2>0 DEF RunCall, ScriptInv, ScriptOf
  <2>2. trial' = [case |-> trial.case, called |-> n, rows |-> result.rows,
                  met |-> trial.met /\ result.answer = c.answer /\ Rows!Restorable(result.rows)]
    <3> DEFINE met == trial.met /\ result.answer = c.answer /\ Rows!Restorable(result.rows)
    <3>1. trial' = [trial EXCEPT !.called = n, !.rows = result.rows, !.met = met]
      BY <1>2 DEF RunCall, ScriptInv
    <3> HIDE DEF met, result, n
    <3>2. trial' = [case |-> trial.case, called |-> n, rows |-> result.rows, met |-> met]
      BY <3>1 DEF ScriptInv
    <3> QED BY <3>2 DEF met
  <2>3. /\ trial'.case = trial.case /\ trial'.called = n /\ trial'.rows = result.rows
        /\ trial'.met = (trial.met /\ result.answer = c.answer /\ Rows!Restorable(result.rows))
    BY <2>2
  <2>4. /\ RowsTyped(result.rows) /\ Kept(trial.rows, result.rows)
        /\ c.call \in RetryableCalls /\ result.answer \in {"Recorded", "Rearmed"} => Shown(result.rows, c)
    <3>1. RowsTyped(trial.rows)
      BY DEF ScriptInv
    <3> HIDE DEF c
    <3> QED BY <2>1, <3>1, AnswersKeep
  <2>5. trial'.met => trial.met /\ result.answer = c.answer
    BY <2>3
  <2> HIDE DEF result
  <2>6. ASSUME trial'.met, NEW k \in 1..n, trial.case[k].call \in RetryableCalls,
               trial.case[k].answer \in {"Recorded", "Rearmed"}
        PROVE  Shown(result.rows, trial.case[k])
    <3>1. CASE k = n
      BY <2>4, <2>5, <2>6, <3>1
    <3>2. CASE k # n
      <4>1. k \in 1..trial.called /\ k \in 1..Len(trial.case)
        BY <2>0, <2>1, <3>2
      <4>2. Shown(trial.rows, trial.case[k]) /\ CallOf(trial.case[k])
        BY <2>5, <2>6, <4>1 DEF ScriptInv, ScriptOf
      <4>3. RowsTyped(trial.rows)
        BY DEF ScriptInv
      <4> QED BY <2>4, <2>6, <4>2, <4>3, ShownStays
    <3> QED BY <3>1, <3>2
  <2>7. trial'.met \in BOOLEAN
    BY <2>3
  <2>8. trial' = [case |-> trial'.case, called |-> trial'.called, rows |-> trial'.rows, met |-> trial'.met]
    BY <2>2, <2>3
  <2> HIDE DEF n
  <2> QED BY <2>0, <2>1, <2>3, <2>4, <2>6, <2>7, <2>8 DEF ScriptInv
<1> QED BY <1>1, <1>2 DEF ConformanceNext

LEMMA ScriptMeans ==
    ASSUME ScriptInv, CasesMet PROVE LateRetriesChangeNothing
<1> SUFFICES ASSUME NEW k \in 1..trial.called, trial.case[k].call \in RetryableCalls,
                    trial.case[k].answer \in {"Recorded", "Rearmed"}
             PROVE  Answered(trial.rows, trial.case[k]).rows = trial.rows
  BY DEF LateRetriesChangeNothing, RetryableCalls
<1>1. Len(trial.case) \in Nat
  BY LenProperties DEF ScriptInv, ScriptOf, IsScript
<1>2. k \in 1..Len(trial.case)
  BY <1>1 DEF ScriptInv
<1>3. RowsTyped(trial.rows) /\ CallOf(trial.case[k]) /\ Shown(trial.rows, trial.case[k])
  BY <1>2 DEF ScriptInv, ScriptOf, CasesMet
<1> QED BY <1>3, AnswersKeep

LEMMA ScriptsOf ==
    /\ \A s, t : ScriptOf(s) /\ ScriptOf(t) => ScriptOf(s \o t)
    /\ \A a : CallOf(a) => ScriptOf(<<a>>)
    /\ \A a, b : CallOf(a) /\ CallOf(b) => ScriptOf(<<a, b>>)
    /\ \A a, b, c : CallOf(a) /\ CallOf(b) /\ CallOf(c) => ScriptOf(<<a, b, c>>)
    /\ \A a, b, c, d : CallOf(a) /\ CallOf(b) /\ CallOf(c) /\ CallOf(d) => ScriptOf(<<a, b, c, d>>)
    /\ \A a, b, c, d, e :
           CallOf(a) /\ CallOf(b) /\ CallOf(c) /\ CallOf(d) /\ CallOf(e) => ScriptOf(<<a, b, c, d, e>>)
    /\ \A a, b, c, d, e, f :
           CallOf(a) /\ CallOf(b) /\ CallOf(c) /\ CallOf(d) /\ CallOf(e) /\ CallOf(f)
           => ScriptOf(<<a, b, c, d, e, f>>)
    /\ \A a, b, c, d, e, f, g :
           CallOf(a) /\ CallOf(b) /\ CallOf(c) /\ CallOf(d) /\ CallOf(e) /\ CallOf(f) /\ CallOf(g)
           => ScriptOf(<<a, b, c, d, e, f, g>>)
<1>1. ASSUME NEW s, NEW t, ScriptOf(s), ScriptOf(t) PROVE ScriptOf(s \o t)
  <2>1. PICK S : s \in Seq(S)
    BY <1>1 DEF ScriptOf, IsScript
  <2>2. PICK T : t \in Seq(T)
    BY <1>1 DEF ScriptOf, IsScript
  <2>3. s \in Seq(S \cup T) /\ t \in Seq(S \cup T)
    <3>1. S \subseteq S \cup T /\ T \subseteq S \cup T
      OBVIOUS
    <3> QED BY <2>1, <2>2, <3>1, SeqMonotonic
  <2>4. Len(s) \in Nat /\ Len(t) \in Nat /\ Len(s \o t) = Len(s) + Len(t)
    BY <2>3, LenProperties, ConcatProperties
  <2>5. \A k \in 1..(Len(s) + Len(t)) : (s \o t)[k] = IF k <= Len(s) THEN s[k] ELSE t[k - Len(s)]
    BY <2>3, ConcatProperties
  <2>6. ASSUME NEW k \in 1..(Len(s) + Len(t)) PROVE CallOf((s \o t)[k])
    <3>1. k <= Len(s) => k \in 1..Len(s)
      BY <2>4
    <3>2. ~(k <= Len(s)) => k - Len(s) \in 1..Len(t)
      BY <2>4
    <3> QED BY <1>1, <2>5, <3>1, <3>2 DEF ScriptOf
  <2>7. IsScript(s \o t)
    BY <1>1, ScriptsJoin DEF ScriptOf
  <2> QED BY <2>4, <2>6, <2>7 DEF ScriptOf
<1>2. ASSUME NEW a, CallOf(a)
      PROVE  ScriptOf(<<a>>)
  <2>1. <<a>> \in Seq({a}) /\ Len(<<a>>) = 1
    OBVIOUS
  <2>2. \A k \in 1..1 : CallOf(<<a>>[k])
    BY <1>2
  <2> QED BY <2>1, <2>2 DEF ScriptOf, IsScript
<1>3. ASSUME NEW a, NEW b, CallOf(a), CallOf(b)
      PROVE  ScriptOf(<<a, b>>)
  <2>1. <<a, b>> \in Seq({a, b}) /\ Len(<<a, b>>) = 2
    OBVIOUS
  <2>2. \A k \in 1..2 : CallOf(<<a, b>>[k])
    BY <1>3
  <2> QED BY <2>1, <2>2 DEF ScriptOf, IsScript
<1>4. ASSUME NEW a, NEW b, NEW c, CallOf(a), CallOf(b), CallOf(c)
      PROVE  ScriptOf(<<a, b, c>>)
  <2>1. <<a, b, c>> \in Seq({a, b, c}) /\ Len(<<a, b, c>>) = 3
    OBVIOUS
  <2>2. \A k \in 1..3 : CallOf(<<a, b, c>>[k])
    BY <1>4
  <2> QED BY <2>1, <2>2 DEF ScriptOf, IsScript
<1>5. ASSUME NEW a, NEW b, NEW c, NEW d, CallOf(a), CallOf(b), CallOf(c), CallOf(d)
      PROVE  ScriptOf(<<a, b, c, d>>)
  <2>1. <<a, b, c, d>> \in Seq({a, b, c, d}) /\ Len(<<a, b, c, d>>) = 4
    OBVIOUS
  <2>2. \A k \in 1..4 : CallOf(<<a, b, c, d>>[k])
    BY <1>5
  <2> QED BY <2>1, <2>2 DEF ScriptOf, IsScript
<1>6. ASSUME NEW a, NEW b, NEW c, NEW d, NEW e, CallOf(a), CallOf(b), CallOf(c), CallOf(d), CallOf(e)
      PROVE  ScriptOf(<<a, b, c, d, e>>)
  <2>1. <<a, b, c, d, e>> \in Seq({a, b, c, d, e}) /\ Len(<<a, b, c, d, e>>) = 5
    OBVIOUS
  <2>2. \A k \in 1..5 : CallOf(<<a, b, c, d, e>>[k])
    BY <1>6
  <2> QED BY <2>1, <2>2 DEF ScriptOf, IsScript
<1>7. ASSUME NEW a, NEW b, NEW c, NEW d, NEW e, NEW f, CallOf(a), CallOf(b), CallOf(c), CallOf(d), CallOf(e), CallOf(f)
      PROVE  ScriptOf(<<a, b, c, d, e, f>>)
  <2>1. <<a, b, c, d, e, f>> \in Seq({a, b, c, d, e, f}) /\ Len(<<a, b, c, d, e, f>>) = 6
    OBVIOUS
  <2>2. \A k \in 1..6 : CallOf(<<a, b, c, d, e, f>>[k])
    BY <1>7
  <2> QED BY <2>1, <2>2 DEF ScriptOf, IsScript
<1>8. ASSUME NEW a, NEW b, NEW c, NEW d, NEW e, NEW f, NEW g, CallOf(a), CallOf(b), CallOf(c), CallOf(d), CallOf(e), CallOf(f), CallOf(g)
      PROVE  ScriptOf(<<a, b, c, d, e, f, g>>)
  <2>1. <<a, b, c, d, e, f, g>> \in Seq({a, b, c, d, e, f, g}) /\ Len(<<a, b, c, d, e, f, g>>) = 7
    OBVIOUS
  <2>2. \A k \in 1..7 : CallOf(<<a, b, c, d, e, f, g>>[k])
    BY <1>8
  <2> QED BY <2>1, <2>2 DEF ScriptOf, IsScript
<1> QED BY <1>1, <1>2, <1>3, <1>4, <1>5, <1>6, <1>7, <1>8, Zenon

LEMMA CatalogCalls ==
    /\ \A n \in {"r1", "r2"} : \A answer : CallOf(Fetch(n, answer))
    /\ \A cursor \in 1..2 : \A answer : CallOf(Ack(cursor, answer)) /\ CallOf(Mint(cursor, answer))
    /\ \A answer : CallOf(Join(answer))
    /\ \A how, answer : CallOf(Restore(how, answer)) /\ CallOf(Do("admit", NoNonce, how, answer))
    /\ \A sections : CallOf(Holds(sections))
    /\ \A c, answer : CallOf(Do("materialize", "r1", c, answer)) /\ CallOf(Do("retrieve_changed", "r1", c, answer))
    /\ \A answer : CallOf(Do("ack_reused", "a1", 2, answer))
    /\ CallOf(Revoke) /\ CallOf(Turn) /\ CallOf(Reopen) /\ CallOf(IsRevoked)
<1>1. \A call \in CallNames : \A nonce, arg, answer :
         /\ call \in {"retrieve", "retrieve_changed", "ack", "ack_reused", "materialize"} => nonce \in RowNonces
         /\ call \in {"ack", "ack_reused", "mint"} => arg \in 1..2
         => CallOf(Do(call, nonce, arg, answer))
  BY DEF CallOf, Do
<1>2. {"retrieve", "ack", "mint", "revoke", "rearm", "retrieve_changed", "ack_reused", "materialize", "admit",
       "terminal", "restore", "sections", "revoked"} \subseteq CallNames
  BY DEF CallNames, RetryableCalls
<1> HIDE DEF CallNames
<1>3. \A n \in {"r1", "r2"} : \A answer : CallOf(Fetch(n, answer))
  BY <1>1, <1>2 DEF Fetch, RowNonces
<1>4. \A cursor \in 1..2 : \A answer : CallOf(Ack(cursor, answer)) /\ CallOf(Mint(cursor, answer))
  BY <1>1, <1>2 DEF Ack, Mint, RowNonces
<1>5. /\ \A answer : CallOf(Join(answer))
      /\ \A how, answer : CallOf(Restore(how, answer)) /\ CallOf(Do("admit", NoNonce, how, answer))
  BY <1>1, <1>2 DEF Join, Restore
<1>6. \A sections : CallOf(Holds(sections))
  BY <1>1, <1>2 DEF Holds
<1>7. /\ \A c, answer : CallOf(Do("materialize", "r1", c, answer)) /\ CallOf(Do("retrieve_changed", "r1", c, answer))
      /\ \A answer : CallOf(Do("ack_reused", "a1", 2, answer))
  BY <1>1, <1>2 DEF RowNonces
<1>8. CallOf(Revoke) /\ CallOf(Turn) /\ CallOf(Reopen) /\ CallOf(IsRevoked)
  BY <1>1, <1>2 DEF Revoke, Turn, Reopen, Restore, IsRevoked
<1> QED BY <1>3, <1>4, <1>5, <1>6, <1>7, <1>8

LEMMA CasesAreScripts == \A case \in Cases : ScriptOf(case)
<1>0. ScriptOf(Handled)
  BY ScriptsOf, CatalogCalls DEF Handled
<1>1. \A case \in AdmissionCases \cup RetrieveCases : ScriptOf(case)
  BY ScriptsOf, CatalogCalls DEF AdmissionCases, RetrieveCases
<1>2. \A case \in AckCases \cup RecoveryCases : ScriptOf(case)
  <2>1. /\ ScriptOf(<<Fetch("r1", "Recorded"), Ack(1, "Recorded"), Ack(1, "ExactReplay")>>)
        /\ ScriptOf(<<Fetch("r1", "Recorded"), Do("ack_reused", "a1", 2, "Conflict")>>)
        /\ ScriptOf(<<Fetch("r2", "InvalidTransition"), Fetch("r1", "ExactReplay")>>)
        /\ ScriptOf(<<Holds({})>>) /\ ScriptOf(<<Holds({"retrieves", "acks", "handled"})>>)
    BY ScriptsOf, CatalogCalls
  <2>2. \A s : ScriptOf(s) => ScriptOf(Handled \o s)
    BY <1>0, ScriptsOf
  <2> QED BY <2>1, <2>2 DEF AckCases, RecoveryCases
<1>3. \A case \in GrantCases \cup BatchCases \cup RevocationCases : ScriptOf(case)
  BY ScriptsOf, CatalogCalls DEF GrantCases, BatchCases, RevocationCases
<1>4. \A case \in RestoreCases : ScriptOf(case)
  <2>1. ScriptOf(<<Fetch("r1", "Recorded"), Ack(1, "Recorded"), Turn, Reopen, Join("WaitingForHandled"),
                   Fetch("r2", "InvalidTransition")>>)
    BY ScriptsOf, CatalogCalls
  <2> QED BY <1>0, <2>1, ScriptsOf, CatalogCalls DEF RestoreCases
<1>5. \A case \in ChainCases : ScriptOf(case)
  <2>1. ScriptOf(<<Fetch("r1", "ExactReplay"), Ack(2, "ExactReplay"), Reopen, Fetch("r1", "ExactReplay"),
                   Ack(2, "ExactReplay")>>)
    BY ScriptsOf, CatalogCalls
  <2>2. /\ ScriptOf(<<Reopen, Do("admit", NoNonce, "same", "ExactReplay"), Do("admit", NoNonce, "forged", "Conflict"),
                     Holds({})>>)
        /\ ScriptOf(<<Revoke, Reopen, IsRevoked, Fetch("r1", "Unauthorized")>>)
        /\ ScriptOf(<<Mint(2, "Recorded"), Reopen, Fetch("r1", "Unauthorized")>>)
    BY ScriptsOf, CatalogCalls
  <2>3. \A s : ScriptOf(s) => ScriptOf(Handled \o s)
    BY <1>0, ScriptsOf
  <2> QED BY <2>1, <2>2, <2>3 DEF ChainCases
<1>6. \A case \in RearmChainCases : ScriptOf(case)
  <2>1. ScriptOf(<<Join("WaitingForRecognizedTerminal"), Do("admit", NoNonce, "waiting", "Conflict"),
                   Holds({"retrieves", "acks", "handled"}), Turn, Reopen, Join("Rearmed")>>)
    BY ScriptsOf, CatalogCalls
  <2>2. ScriptOf(<<Turn, Reopen, Holds({"retrieves", "acks", "handled", "facts"}), Fetch("r2", "InvalidTransition")>>)
    BY ScriptsOf, CatalogCalls
  <2>3. ScriptOf(<<Fetch("r1", "Recorded"), Do("materialize", "r1", 1, "Shown"), Ack(2, "Recorded"), Turn, Reopen,
                   Fetch("r1", "ExactReplay"), Join("Rearmed")>>)
    BY ScriptsOf, CatalogCalls
  <2>4. \A s : ScriptOf(s) => ScriptOf(Handled \o s)
    BY <1>0, ScriptsOf
  <2> DEFINE waits == <<Join("WaitingForRecognizedTerminal"), Do("admit", NoNonce, "waiting", "Conflict"),
                        Holds({"retrieves", "acks", "handled"}), Turn, Reopen, Join("Rearmed")>>
             recovers == <<Turn, Reopen, Holds({"retrieves", "acks", "handled", "facts"}), Fetch("r2", "InvalidTransition")>>
             shows == <<Fetch("r1", "Recorded"), Do("materialize", "r1", 1, "Shown"), Ack(2, "Recorded"), Turn, Reopen,
                        Fetch("r1", "ExactReplay"), Join("Rearmed")>>
  <2>5. RearmChainCases = {Handled \o waits, Handled \o recovers, shows}
    BY DEF RearmChainCases
  <2>6. ScriptOf(waits) /\ ScriptOf(recovers) /\ ScriptOf(shows)
    BY <2>1, <2>2, <2>3
  <2> HIDE DEF waits, recovers, shows
  <2>7. ScriptOf(Handled \o waits) /\ ScriptOf(Handled \o recovers)
    BY <2>4, <2>6
  <2> QED BY ONLY <2>5, <2>6, <2>7
<1> QED BY <1>1, <1>2, <1>3, <1>4, <1>5, <1>6 DEF Cases

ScriptSpec == (\E case : ScriptOf(case) /\ trial = TrialOf(case)) /\ [][ConformanceNext]_trial

\* A late retry of any call that was recorded, in any script whose calls were answered
\* as it says, however long, is answered from the record or refused; it never changes a
\* row.  The cases of the catalogue are such scripts.
THEOREM RetriesChangeNothing == ScriptSpec => [](CasesMet => LateRetriesChangeNothing)
<1>1. ASSUME NEW case, ScriptOf(case), trial = TrialOf(case) PROVE ScriptInv
  <2>1. Len(case) \in Nat
    BY <1>1, LenProperties DEF ScriptOf, IsScript
  <2>2. /\ trial.case = case /\ trial.called = 0 /\ trial.rows = Prepared /\ trial.met = TRUE
        /\ trial = [case |-> trial.case, called |-> trial.called, rows |-> trial.rows, met |-> trial.met]
    BY <1>1 DEF TrialOf
  <2>3. ScriptOf(trial.case) /\ RowsTyped(trial.rows) /\ trial.met \in BOOLEAN
    BY <1>1, <2>2, PreparedRows
  <2>4. trial.called \in 0..Len(trial.case) /\ 1..trial.called = {}
    BY ONLY <2>1, <2>2
  <2> QED BY ONLY <2>2, <2>3, <2>4 DEF ScriptInv
<1>2. ScriptInv /\ [ConformanceNext]_trial => ScriptInv'
  BY ScriptStep
<1>3. ScriptInv => (CasesMet => LateRetriesChangeNothing)
  BY ScriptMeans
<1>4. (\E case : ScriptOf(case) /\ trial = TrialOf(case)) => ScriptInv
  BY <1>1
<1> QED BY <1>2, <1>3, <1>4, PTL DEF ScriptSpec

-----------------------------------------------------------------------------
(* The host: every part keeps to its own specification. *)

hostVars == <<part, vars, processVars, receipts, watchVars, pathVars, simVars, trial>>

\* A step of one part is a stutter of every other part.
LEMMA OnePartSteps ==
    ASSUME [HostNext]_hostVars
    PROVE  /\ [Next]_vars /\ [ProcessNext]_processVars /\ [TraceNext]_receipts
           /\ [WatchNext]_watchVars /\ [PathsNext]_pathVars /\ [SimNext]_simVars /\ [ConformanceNext]_trial
BY DEF HostNext, hostVars

\* The part that is not looked at waits in a scenario of its own.
LEMMA SimulatorWaits == HostInit => SimInit
<1> SUFFICES ASSUME HostInit PROVE SimInit
  OBVIOUS
<1> DEFINE idle == CHOOSE s \in ChainOf("CHAIN01", "None", CompleteChain) : s.max_events = 1024
<1>1. \E s \in ChainOf("CHAIN01", "None", CompleteChain) : s.max_events = 1024
  <2> DEFINE long == [case |-> "CHAIN01", fault |-> "None", stimuli |-> CompleteChain,
                      due |-> [k \in DOMAIN CompleteChain |-> k],
                      capacity |-> 64, max_events |-> 1024, service |-> 0]
  <2>1. long \in ChainOf("CHAIN01", "None", CompleteChain)
    BY DEF ChainOf
  <2>2. long.max_events = 1024
    OBVIOUS
  <2> QED BY ONLY <2>1, <2>2
<1>2. idle \in ChainOf("CHAIN01", "None", CompleteChain)
  BY <1>1
<1>3. "CHAIN01" \in DOMAIN Catalog /\ Catalog["CHAIN01"] = CompleteChain /\ FaultOf("CHAIN01") = "None"
  BY DEF Catalog, FaultOf
<1> DEFINE catalog == {ChainOf(case, FaultOf(case), Catalog[case]) : case \in DOMAIN Catalog}
           generated == {ChainOf("GENERATED", fault, GeneratedChain(order)) :
                             fault \in {"None"} \cup {FaultModes[k] : k \in DOMAIN FaultModes},
                             order \in UNION {[1..n -> BOOLEAN] : n \in 2..MaxCycles}}
<1>4. ChainOf("CHAIN01", "None", CompleteChain) \in catalog
  <2>1. ChainOf("CHAIN01", FaultOf("CHAIN01"), Catalog["CHAIN01"]) \in catalog
    BY <1>3
  <2> QED BY ONLY <1>3, <2>1
<1>5. Scenarios = QueueScenarios \cup UNION (catalog \cup generated)
  BY DEF Scenarios
<1> HIDE DEF catalog, generated, idle
<1>6. idle \in Scenarios
  BY <1>2, <1>4, <1>5
<1>7. SimInit \/ SimInitOf(idle)
  BY DEF HostInit, idle
<1> QED BY <1>6, <1>7 DEF SimInit

\* So does the suite: its cases are scripts.
LEMMA SuiteWaits == HostInit => \E case : ScriptOf(case) /\ trial = TrialOf(case)
<1>1. (CHOOSE case \in RecoveryCases : TRUE) \in Cases
  <2>1. <<Holds({})>> \in RecoveryCases
    BY DEF RecoveryCases
  <2>2. (CHOOSE case \in RecoveryCases : TRUE) \in RecoveryCases
    BY <2>1
  <2> QED BY <2>2 DEF Cases
<1>2. HostInit => \E case \in Cases : trial = TrialOf(case)
  BY <1>1 DEF HostInit, ConformanceInit
<1> QED BY <1>2, CasesAreScripts

LEMMA PartsKeepToThemselves ==
    HostSpec => Spec /\ ProcessSpec /\ TraceSpec /\ WatchSpec /\ PathsSpec /\ SimSpec /\ ScriptSpec
<1>1. HostInit => /\ Init /\ ProcessInit /\ TraceInit /\ WatchInit /\ PathsInit /\ SimInit
                  /\ \E case : ScriptOf(case) /\ trial = TrialOf(case)
  BY SimulatorWaits, SuiteWaits DEF HostInit
<1>2. [HostNext]_hostVars => /\ [Next]_vars /\ [ProcessNext]_processVars /\ [TraceNext]_receipts
                             /\ [WatchNext]_watchVars /\ [PathsNext]_pathVars /\ [SimNext]_simVars
                             /\ [ConformanceNext]_trial
  BY OnePartSteps
<1> QED BY <1>1, <1>2, PTL DEF HostSpec, hostVars, Spec, ProcessSpec, TraceSpec, WatchSpec, PathsSpec, SimSpec, ScriptSpec

\* The parts of a host are of their types together, whichever one of them runs: the
\* transport with its controller, the process groups and the doorbell trace.
THEOREM HostIsTyped == HostSpec => []HostTypes
BY PartsKeepToThemselves, TransportTyped, ProcessTyped, TraceTyped, PTL DEF HostTypes

\* What each part promises it promises inside the host: one request at a time whose
\* answer is the server's, notes in the order they were sent, a contained process
\* group whose probe and server are another image only through the gaps of the looks,
\* a proven doorbell, receipts and exits of the watcher that agree with what it did, a
\* private home with one listener, a simulator that loses no stimulus and passes no run
\* that is not whole, and a store that a retry of what is on record does not change.
THEOREM HostKeepsItsPromises ==
    HostSpec => [](/\ SingleFlight /\ AnswersTruthful /\ NotesInOrder
                   /\ GroupContained /\ QualifiedServer
                   /\ DoorbellProven /\ WatchReports /\ HomeSafe
                   /\ scenario.case = "QUEUE01" \/ errors = 0 => QueueAccounted
                   /\ status = "Passed" => Len(executed) + Cardinality(rejected) = Len(scenario.stimuli)
                   /\ CasesMet => LateRetriesChangeNothing)
BY PartsKeepToThemselves, OneRequestOut, AnswersHold, NotesComeInOrder, GroupIsContained, ServerIsQualified,
   DoorbellIsProven, WatchIsTruthful, HomeIsSafe, QueueIsAccounted, PassedIsWhole, RetriesChangeNothing, PTL

\* And inside the host, unless a refusal misses its write deadline, the bytes of a write
\* that leave are the prepared turn, and its thread is free for it.
THEOREM HostDispatchHolds == ~SlowPipe => (HostSpec => []DispatchSafe)
BY PartsKeepToThemselves, DispatchHolds, PTL
=============================================================================
