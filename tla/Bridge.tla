------------------------------- MODULE Bridge -------------------------------
(***************************************************************************)
(* The bridge process (src/main.rs): the main task that sets the network   *)
(* up, starts the middleware, runs the select loop and takes the network   *)
(* down again.                                                             *)
(*                                                                         *)
(* There is ONE task.  Every async function of the program is awaited in   *)
(* line, so the main task is at exactly one of the places listed in        *)
(* Places; in particular it cannot receive from the broadcast channel      *)
(* while it waits in Middleware::shutdown for room in that same channel.   *)
(* The environment - the operating system's signals and the interval       *)
(* timer - moves independently of it.                                      *)
(***************************************************************************)
EXTENDS Connector, Middleware

CONSTANT MaxSignals       \* a bound on the termination signals delivered

ASSUME MaxSignalsAssumption == MaxSignals \in Nat

VARIABLES
    pc,          \* the await at which the main task is
    pending,     \* termination signals recorded and not yet received
    delivered,   \* number of termination signals delivered so far
    tickDue,     \* has the announcement interval elapsed?
    sent         \* number of Announce events given to Network::send

environmentVars == <<pending, delivered, tickDue>>
vars == <<connectorVars, queue, pc, pending, delivered, tickDue, sent>>

-----------------------------------------------------------------------------
Signal == {"SIGINT", "SIGTERM"}

\* The places where the task is with the network fully set up and not yet
\* being taken down.
Serving == {"startup", "announce", "select", "shutdown"}

\* The places where the process still runs.
Running == {"initialise", "connect", "disconnect", "unwind"} \union Serving

Places == Running \union {"exited", "failed"}

\* The places where the task is inside Sender::send(..).await.
Sending == {"startup", "announce", "shutdown"}

TypeOK ==
    /\ ConnectorTypeOK
    /\ MiddlewareTypeOK
    /\ pc \in Places
    /\ pending \subseteq Signal
    /\ delivered \in 0..MaxSignals
    /\ tickDue \in BOOLEAN
    /\ sent \in Nat

\* The state after the signal streams, the interval and the channel are made.
\* From here on the signals no longer kill the process.
Init ==
    /\ ConnectorInit
    /\ MiddlewareInit
    /\ pc = "initialise"
    /\ pending = {}
    /\ delivered = 0
    /\ tickDue = FALSE
    /\ sent = 0

-----------------------------------------------------------------------------
(* The environment.                                                        *)

\* tokio records a signal for its stream; signals of the same kind that
\* arrive before the stream is polled are merged into one.
DeliverSignal(signal) ==
    /\ pc \in Running
    /\ delivered < MaxSignals
    /\ pending' = pending \union {signal}
    /\ delivered' = delivered + 1
    /\ UNCHANGED <<connectorVars, queue, pc, tickDue, sent>>

TimerFires ==
    /\ pc \in Running
    /\ ~ tickDue
    /\ tickDue' = TRUE
    /\ UNCHANGED <<connectorVars, queue, pc, pending, delivered, sent>>

-----------------------------------------------------------------------------
(* Setting up.                                                             *)

Initialise ==
    /\ pc = "initialise"
    /\ SaveSockets
    /\ pc' = "connect"
    /\ UNCHANGED <<queue, environmentVars, sent>>

InitialiseFails ==
    /\ pc = "initialise"
    /\ SaveNothing
    /\ pc' = "unwind"
    /\ UNCHANGED <<queue, environmentVars, sent>>

ConnectSocket ==
    /\ pc = "connect"
    /\ OpenSocket
    /\ UNCHANGED <<queue, pc, environmentVars, sent>>

ConnectFails ==
    /\ pc = "connect"
    /\ OpenSocketFails
    /\ pc' = "unwind"
    /\ UNCHANGED <<queue, environmentVars, sent>>

Connected ==
    /\ pc = "connect"
    /\ LoopDone
    /\ pc' = "startup"
    /\ UNCHANGED <<connectorVars, queue, environmentVars, sent>>

\* Mutant: startup returns without queueing the announcement.
SendStartupOnly ==
    /\ pc = "startup"
    /\ StartupEvent
    /\ pc' = "select"
    /\ UNCHANGED <<connectorVars, environmentVars, sent>>

SendStartup ==
    /\ pc = "startup"
    /\ StartupEvent
    /\ pc' = "announce"
    /\ UNCHANGED <<connectorVars, environmentVars, sent>>

SendAnnounce ==
    /\ pc = "announce"
    /\ AnnounceEvent
    /\ pc' = "select"
    /\ UNCHANGED <<connectorVars, environmentVars, sent>>

-----------------------------------------------------------------------------
(* The arms of the select loop.  tokio::select! picks among the arms that  *)
(* are ready.                                                              *)

\* Mutant: the signal is not consumed and stays ready.
HandleSignalSticky(signal) ==
    /\ pc = "select"
    /\ signal \in pending
    /\ pc' = "shutdown"
    /\ UNCHANGED <<connectorVars, queue, environmentVars, sent>>

\* The two signal arms: the body awaits Middleware::shutdown.
HandleSignal(signal) ==
    /\ pc = "select"
    /\ signal \in pending
    /\ pending' = pending \ {signal}
    /\ pc' = "shutdown"
    /\ UNCHANGED <<connectorVars, queue, delivered, tickDue, sent>>

SendShutdown ==
    /\ pc = "shutdown"
    /\ ShutdownEvent
    /\ pc' = "select"
    /\ UNCHANGED <<connectorVars, environmentVars, sent>>

\* The interval arm only logs: the announcement is commented out.
HandleTick ==
    /\ pc = "select"
    /\ tickDue
    /\ tickDue' = FALSE
    /\ UNCHANGED <<connectorVars, queue, pc, pending, delivered, sent>>

\* Mutant: the arm for Startup also leaves the loop.
RecvStartupBreaks ==
    /\ pc = "select"
    /\ Recv("Startup")
    /\ Rewind
    /\ pc' = "disconnect"
    /\ UNCHANGED <<environmentVars, sent>>

RecvStartup ==
    /\ pc = "select"
    /\ Recv("Startup")
    /\ UNCHANGED <<connectorVars, pc, environmentVars, sent>>

\* Mutant: the event is logged and not passed on.
RecvAnnounceOnlyLogs ==
    /\ pc = "select"
    /\ Recv("Announce")
    /\ UNCHANGED <<connectorVars, pc, environmentVars, sent>>

\* Network::send for an Announce event cannot fail: to_wire and
\* send_multicast always return Ok.
RecvAnnounce ==
    /\ pc = "select"
    /\ Recv("Announce")
    /\ sent' = sent + 1
    /\ UNCHANGED <<connectorVars, pc, environmentVars>>

\* Mutant: the loop is not left.
RecvShutdownNoBreak ==
    /\ pc = "select"
    /\ Recv("Shutdown")
    /\ UNCHANGED <<connectorVars, pc, environmentVars, sent>>

\* "break" leaves the loop and enters Network::disconnect.
RecvShutdown ==
    /\ pc = "select"
    /\ Recv("Shutdown")
    /\ Rewind
    /\ pc' = "disconnect"
    /\ UNCHANGED <<environmentVars, sent>>

RecvEvent == RecvStartup \/ RecvAnnounce \/ RecvShutdown

-----------------------------------------------------------------------------
(* Taking the network down.                                                *)

DisconnectSocket ==
    /\ pc = "disconnect"
    /\ CloseSocket
    /\ UNCHANGED <<queue, pc, environmentVars, sent>>

DisconnectFails ==
    /\ pc = "disconnect"
    /\ CloseSocketFails
    /\ pc' = "unwind"
    /\ UNCHANGED <<queue, environmentVars, sent>>

Disconnected ==
    /\ pc = "disconnect"
    /\ LoopDone
    /\ pc' = "exited"
    /\ UNCHANGED <<connectorVars, queue, environmentVars, sent>>

\* A "?" of main: the error is returned and main's locals are dropped.
Unwind ==
    /\ pc = "unwind"
    /\ DropNetwork
    /\ pc' = "failed"
    /\ UNCHANGED <<queue, environmentVars, sent>>

\* The process is gone.
Terminated ==
    /\ pc \in {"exited", "failed"}
    /\ UNCHANGED vars

-----------------------------------------------------------------------------
MainStep ==
    \/ Initialise \/ InitialiseFails
    \/ ConnectSocket \/ ConnectFails \/ Connected
    \/ SendStartup \/ SendAnnounce
    \/ SendShutdown
    \/ DisconnectSocket \/ DisconnectFails \/ Disconnected
    \/ Unwind

Next ==
    \/ \E signal \in Signal : DeliverSignal(signal)
    \/ TimerFires
    \/ MainStep
    \/ \E signal \in Signal : HandleSignal(signal)
    \/ HandleTick
    \/ RecvEvent
    \/ Terminated

Spec == Init /\ [][Next]_vars

\* The executor polls a task that can make progress, and select! starts its
\* round at a random arm, so no arm that stays ready is passed over forever.
\* Nothing is assumed of the environment.
Fairness ==
    /\ WF_vars(MainStep)
    /\ \A signal \in Signal : WF_vars(HandleSignal(signal))
    /\ WF_vars(HandleTick)
    /\ WF_vars(RecvEvent)

FairSpec == Spec /\ Fairness

-----------------------------------------------------------------------------
(* Safety.                                                                 *)

\* Listening before talking (main.rs: the network is connected before the
\* middleware starts): from the first event on and until the loop is left,
\* every socket of the list is open and exactly the selected ones are members
\* of the multicast group.
Listening ==
    pc \in Serving =>
        /\ open = 1..sockets
        /\ joined = multicast_selected

\* The question main.rs leaves open at the break ("how to make sure the queue
\* has been flushed?"): when the loop is left, the start-up announcement has
\* been given to the network exactly once and nothing but further Shutdown
\* requests is thrown away with the channel.
FlushedAtBreak ==
    pc \in {"disconnect", "exited"} =>
        /\ sent = 1
        /\ \A i \in DOMAIN queue : queue[i] = "Shutdown"

\* The main task is the channel's only receiver, so a send that finds the
\* channel full never completes.  With no more than Capacity - 2 termination
\* signals no send ever finds it full.
NeverBlocked == pc \in Sending => HasRoom

\* However the process ends no socket and no membership survives it, and an
\* orderly exit has left every group by an explicit call (disconnect leaves
\* the group before it drops the socket).
NothingLeaked ==
    /\ pc \in {"exited", "failed"} => open = {} /\ joined = {}
    /\ pc = "exited" => left = multicast_selected

\* docs/bridge_architecture.drawio: the graceful shutdown includes "an
\* announcement to go offline".  The start-up announcement is the first one
\* given to the network; going offline would be another.
OfflineAnnounced == pc = "exited" => sent > 1

-----------------------------------------------------------------------------
(* Bridge implements Lifecycle.                                            *)

phaseBar ==
    CASE pc \in {"initialise", "connect"} -> "starting"
      [] pc \in Serving                   -> "online"
      [] pc = "disconnect"                -> "stopping"
      [] pc = "exited"                    -> "down"
      [] pc \in {"unwind", "failed"}      -> "aborted"

L == INSTANCE Lifecycle WITH
        phase         <- phaseBar,
        announcements <- sent,
        requested     <- delivered > 0

\* The process goes through the phases of Lifecycle: it leaves the select loop
\* only after a signal and only after its announcement, announces itself once,
\* and fails only while it sets the network up or takes it down.
ImplementsLifecycle == L!LifecycleSafety

\* Once the network is up, the announcement that Middleware::startup queued
\* reaches Network::send.
AnnouncesItself == L!AnnouncesItself

\* main.rs logs "Recieved SIGINT, exiting": a termination signal, at whatever
\* await it arrives, is followed by the end of the process.
SignalLeadsToExit == L!StopsWhenAsked

=============================================================================
