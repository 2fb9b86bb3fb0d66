------------------------------ MODULE Lifecycle ------------------------------
(***************************************************************************)
(* What the bridge promises, seen from outside the process: it comes up or *)
(* gives up; once up it announces itself exactly once; it goes down only   *)
(* because it was asked to, and only after it has announced itself; and a  *)
(* bridge that was asked to stop does stop.  There is no channel, no       *)
(* socket and no select loop here: module Bridge implements this.          *)
(***************************************************************************)
EXTENDS Naturals

VARIABLES
    phase,          \* where the process is in its life
    announcements,  \* number of announcements given to the network
    requested       \* has a termination signal been delivered?

lifecycleVars == <<phase, announcements, requested>>

Phases == {"starting", "online", "stopping", "down", "aborted"}

LifecycleInit ==
    /\ phase = "starting"
    /\ announcements = 0
    /\ requested = FALSE

ComeUp ==
    /\ phase = "starting"
    /\ phase' = "online"
    /\ UNCHANGED <<announcements, requested>>

\* Only setting the network up and taking it down can fail.
Abort ==
    /\ phase \in {"starting", "stopping"}
    /\ phase' = "aborted"
    /\ UNCHANGED <<announcements, requested>>

Announce ==
    /\ phase = "online"
    /\ announcements = 0
    /\ announcements' = 1
    /\ UNCHANGED <<phase, requested>>

\* An aborting process can still be sent a signal before it is gone.
Request ==
    /\ phase # "down"
    /\ requested' = TRUE
    /\ UNCHANGED <<phase, announcements>>

Stop ==
    /\ phase = "online"
    /\ requested
    /\ announcements = 1
    /\ phase' = "stopping"
    /\ UNCHANGED <<announcements, requested>>

Finish ==
    /\ phase = "stopping"
    /\ phase' = "down"
    /\ UNCHANGED <<announcements, requested>>

LifecycleNext ==
    \/ ComeUp
    \/ Abort
    \/ Announce
    \/ Request
    \/ Stop
    \/ Finish

LifecycleSafety == LifecycleInit /\ [][LifecycleNext]_lifecycleVars

\* A bridge that comes up announces itself.
AnnouncesItself == phase = "online" ~> announcements = 1

\* A bridge that was asked to stop stops, whenever it was asked.
StopsWhenAsked == requested ~> phase \in {"down", "aborted"}

LifecycleSpec ==
    /\ LifecycleSafety
    /\ AnnouncesItself
    /\ StopsWhenAsked

=============================================================================
