------------------------------ MODULE HostPaths ------------------------------
(***************************************************************************)
(* The private home of a host and its one listener.  Processes, each with  *)
(* several threads, prepare the directories, take the lock, bind the       *)
(* socket and drop the listener; each is several system calls, between     *)
(* which the others run and processes die.  A bind is named by its process *)
(* and its thread; the paths checked with `symlink_metadata` are foreign   *)
(* when they are links, of another type or of another owner.               *)
(***************************************************************************)
EXTENDS Naturals

CONSTANTS Processes, Threads, MaxPathFaults

ASSUME PathsAssumption == MaxPathFaults \in Nat

Binds == Processes \X Threads
Nobody == <<>>
Dirs == 1..3   \* root, run and state, in the order from_root prepares them

VARIABLES
    dirs,        \* each directory: "absent", "loose" (mode of the umask), "private", "foreign"
    binding,     \* where each bind is
    claims,      \* INPROC_CLAIMS: the processes whose lock path is claimed
    flock,       \* the bind whose descriptor holds the file lock
    socket,      \* the socket's path: [is, of], of the bind that accepts on it
    pathFaults

pathVars == <<dirs, binding, claims, flock, socket, pathFaults>>

Phase(at, dir) == [at |-> at, dir |-> dir]
Looking == Phase("look", 1)
NoSocket == [is |-> "absent", of |-> Nobody]

PathsInit ==
    /\ dirs \in [Dirs -> {"absent", "loose", "private", "foreign"}]
    /\ dirs[1] = "absent" => dirs[2] = "absent" /\ dirs[3] = "absent"
    /\ binding = [b \in Binds |-> Looking]
    /\ claims = {} /\ flock = Nobody /\ pathFaults = 0
    /\ socket \in [is : IF dirs[2] = "absent" THEN {"absent"} ELSE {"absent", "stale", "foreign"}, of : {Nobody}]

PathFault == pathFaults < MaxPathFaults /\ pathFaults' = pathFaults + 1
Moves(b, at) == binding' = [binding EXCEPT ![b].at = at]
Refused(b) == Moves(b, "refused")

-----------------------------------------------------------------------------
(* GearwitPaths::from_root: ensure_private_dir for each directory. *)

LookAtDir(b) ==
    /\ binding[b].at = "look"
    /\ Moves(b, CASE dirs[binding[b].dir] = "foreign" -> "refused"
                  [] dirs[binding[b].dir] = "absent" -> "create" [] OTHER -> "tighten")
    /\ UNCHANGED <<dirs, claims, flock, socket, pathFaults>>

\* create_dir fails when another bind created the directory since.
CreateDir(b) ==
    /\ binding[b].at = "create"
    /\ IF dirs[binding[b].dir] = "absent"
       THEN dirs' = [dirs EXCEPT ![binding[b].dir] = "loose"] /\ Moves(b, "tighten")
       ELSE Refused(b) /\ UNCHANGED dirs
    /\ UNCHANGED <<claims, flock, socket, pathFaults>>

Mode(b) == "private"

TightenDir(b) ==
    /\ binding[b].at = "tighten"
    /\ dirs' = [dirs EXCEPT ![binding[b].dir] = Mode(b)]
    /\ binding' = [binding EXCEPT ![b] = IF @.dir = 3 THEN Phase("resolved", 3) ELSE Phase("look", @.dir + 1)]
    /\ UNCHANGED <<claims, flock, socket, pathFaults>>

-----------------------------------------------------------------------------
(* GearwitPaths::bind. *)

ClaimLockPath(b) ==
    /\ binding[b].at = "resolved"
    /\ IF b[1] \in claims THEN Refused(b) /\ UNCHANGED claims
       ELSE Moves(b, "claimed") /\ claims' = claims \cup {b[1]}
    /\ UNCHANGED <<dirs, flock, socket, pathFaults>>

\* Mutant: the lock is shared.
LockFreeShared == TRUE

LockFree == flock = Nobody

AcquireListenerLock(b) ==
    /\ binding[b].at = "claimed"
    /\ \/ LockFree /\ flock' = b /\ Moves(b, "locked") /\ UNCHANGED <<claims, pathFaults>>
       \/ ~LockFree /\ Refused(b) /\ claims' = claims \ {b[1]} /\ UNCHANGED <<flock, pathFaults>>
       \/ PathFault /\ Refused(b) /\ claims' = claims \ {b[1]} /\ UNCHANGED flock
    /\ UNCHANGED <<dirs, socket>>

\* The preflight of bind_private_socket; on a refusal the lock is dropped first,
\* then the claim.
ProbeSocket(b) ==
    /\ binding[b].at = "locked"
    /\ \/ socket.is \in {"absent", "stale"} /\ Moves(b, "probed") /\ UNCHANGED <<flock, claims, pathFaults>>
       \/ /\ \/ socket.is \in {"live", "foreign"} /\ UNCHANGED pathFaults
             \/ PathFault
          /\ Refused(b) /\ flock' = Nobody /\ claims' = claims \ {b[1]}
    /\ UNCHANGED <<dirs, socket>>

\* UnixDomainSocket::bind takes the path, whatever accepts on it by now.
BindSocket(b) ==
    /\ binding[b].at = "probed"
    /\ socket' = [is |-> "live", of |-> b] /\ Moves(b, "bound")
    /\ UNCHANGED <<dirs, claims, flock, pathFaults>>

\* The fields of BoundListener drop in their order: the socket, which removes its
\* path, the claim and the lock.
DropSocket(b) ==
    /\ binding[b].at = "bound"
    /\ socket' = NoSocket /\ Moves(b, "closing")
    /\ UNCHANGED <<dirs, claims, flock, pathFaults>>

DropClaim(b) ==
    /\ binding[b].at = "closing"
    /\ claims' = claims \ {b[1]} /\ Moves(b, "unlocking")
    /\ UNCHANGED <<dirs, flock, socket, pathFaults>>

DropLock(b) ==
    /\ binding[b].at = "unlocking"
    /\ flock' = Nobody /\ binding' = [binding EXCEPT ![b] = Phase("resolved", 3)]
    /\ UNCHANGED <<dirs, claims, socket, pathFaults>>

\* External: a process dies, which closes its descriptors, and starts anew.
Die(p) ==
    /\ PathFault
    /\ binding' = [b \in Binds |-> IF b[1] = p THEN Looking ELSE binding[b]]
    /\ claims' = claims \ {p}
    /\ flock' = IF flock # Nobody /\ flock[1] = p THEN Nobody ELSE flock
    /\ socket' = IF socket.of # Nobody /\ socket.of[1] = p THEN [is |-> "stale", of |-> Nobody] ELSE socket
    /\ UNCHANGED dirs

PathsNext ==
    \/ \E b \in Binds :
          \/ LookAtDir(b) \/ CreateDir(b) \/ TightenDir(b)
          \/ ClaimLockPath(b) \/ AcquireListenerLock(b) \/ ProbeSocket(b) \/ BindSocket(b)
          \/ DropSocket(b) \/ DropClaim(b) \/ DropLock(b)
    \/ \E p \in Processes : Die(p)

PathsSpec == PathsInit /\ [][PathsNext]_pathVars

-----------------------------------------------------------------------------
\* A listener that was handed out accepts on the path until it is dropped: no
\* second bind, of this process or another, replaces its socket, and no drop that
\* is still under way removes a later one (ADR-0003, the lock is held "for the
\* listener lifetime").
ListenerKept ==
    \A b \in Binds : binding[b].at = "bound" => socket = [is |-> "live", of |-> b] /\ flock = b

\* A host that listens does so below directories that only its user can enter,
\* also when an earlier start died between creating one and setting its mode.
HomePrivate == \A b \in Binds : binding[b].at = "bound" => \A k \in Dirs : dirs[k] = "private"

\* One listener, in a home that only its user can enter.
HomeSafe == ListenerKept /\ HomePrivate
=============================================================================
